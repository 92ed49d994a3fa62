-------------------------- MODULE FilePanelsProofs --------------------------
(***************************************************************************)
(* Proofs about the file panels of MCFiles: the remote panel and its       *)
(* directory tree know their place (PanelsKnowTheirPlace), what is dropped *)
(* on a panel arrives whole (DropsArriveWhole), and no panel goes back to  *)
(* an older listing or carries a selection along (ListingsGoForward), for  *)
(* any connections, depth of the tree, dropped files and folders, and      *)
(* bounds.                                                                 *)
(*                                                                         *)
(* The parts are instances whose variables are v1, v2, ... of MCFiles:     *)
(*   Dirs     v1 conn, v2 currentPath, v3 disabled, v4 nodes, v5 loading,  *)
(*            v6 requests, v7 initial, v8 cache, v9 failed                 *)
(*   Browser  v1 session, v2 avail, v3 path, v4 files, v5 selected,        *)
(*            v6 hist, v7 idx, v8 cache, v9 loads, v10 gen, v11 isLoading, *)
(*            v12 answered, v13 follow, v14 cwd, v15 settled, v16 op       *)
(*   Upload   v1 path, v2 gone, v3 remote, v4 runs, v5 queue               *)
(* The two-panel view (Ftp) is proved in FilesProofs.                      *)
(***************************************************************************)
EXTENDS FilesProofs

(***************************************************************************)
(* The directory tree                                                      *)
(***************************************************************************)
LEMMA TreeInit == Dirs!Init => Dirs!Inv
<1> SUFFICES ASSUME Dirs!Init PROVE Dirs!Inv
  OBVIOUS
<1> USE FilesConstants DEF Dirs!Init
<1>1. v1 \in Sessions /\ 0 \in Dirs!Paths
  BY DEF Dirs!Paths
<1>2. Dirs!NoNodes \in Dirs!Trees
  BY DEF Dirs!NoNodes, Dirs!Trees
<1>3. v3 \in BOOLEAN
  OBVIOUS
<1>4. v4 \in Dirs!Trees /\ v7 \in Dirs!Trees /\ v8 \in [Sessions -> Dirs!Trees]
  BY <1>2
<1>5. v5 \subseteq Dirs!Paths /\ v6 \subseteq [path : Dirs!Paths, of : Sessions] /\ v9 \subseteq Dirs!Paths
  BY <1>1
<1>6. Dirs!TypeOK
  BY <1>1, <1>3, <1>4, <1>5, Zenon DEF Dirs!TypeOK
<1>7. Dirs!AncestorsCome /\ Dirs!LoadingIsAsked
  BY DEF Dirs!AncestorsCome, Dirs!ancestorPaths, Dirs!LoadingIsAsked
<1> QED BY <1>6, <1>7 DEF Dirs!Inv

(* After loadChildren, every path asked for is listed, or is being asked of this        *)
(* connection, provided that what counted as being listed was.                          *)
LEMMA TreeLoad ==
  ASSUME NEW ps \in SUBSET Dirs!Paths, NEW n, NEW busy \in SUBSET Dirs!Paths, Dirs!Load(ps, n, busy),
         v1' \in Sessions, v6 \subseteq [path : Dirs!Paths, of : Sessions],
         \A p \in busy : [path |-> p, of |-> v1'] \in v6
  PROVE  /\ v5' \subseteq Dirs!Paths /\ v6' \subseteq [path : Dirs!Paths, of : Sessions] /\ v6 \subseteq v6'
         /\ \A p \in v5' : [path |-> p, of |-> v1'] \in v6'
         /\ ~v3' => \A p \in ps : n[p] # None \/ [path |-> p, of |-> v1'] \in v6'
<1>1. CASE v3'
  BY <1>1 DEF Dirs!Load
<1>2. CASE ~v3'
  <2> DEFINE M == Dirs!Missing(ps, n, busy)
  <2>1. M \subseteq Dirs!Paths /\ \A p \in ps : n[p] # None \/ p \in busy \/ p \in M
    BY DEF Dirs!Missing
  <2>2. v5' = busy \cup M /\ v6' = v6 \cup [path : M, of : {v1'}]
    BY <1>2 DEF Dirs!Load
  <2>3. \A p \in M : [path |-> p, of |-> v1'] \in v6'
    BY <2>2
  <2> HIDE DEF M
  <2>4. v6' \subseteq [path : Dirs!Paths, of : Sessions]
    BY <2>1, <2>2
  <2> QED BY <2>1, <2>2, <2>3, <2>4
<1> QED BY <1>1, <1>2

LEMMA TreeAncestors == ASSUME NEW p \in Dirs!Paths PROVE Dirs!ancestorPaths(p) \subseteq Dirs!Paths /\ 0 \in Dirs!Paths
BY FilesConstants DEF Dirs!ancestorPaths, Dirs!Paths

(* A tree set up again asks for what its path needs. *)
LEMMA TreeSetUp ==
  ASSUME Dirs!TypeOK, Dirs!SetUp, v1' \in Sessions, v2' \in Dirs!Paths, v3' \in BOOLEAN, v7' \in Dirs!Trees,
         v8' \in [Sessions -> Dirs!Trees]
  PROVE  Dirs!Inv'
<1> DEFINE ps == Dirs!ancestorPaths(v2') \cup {0}
<1>1. ps \in SUBSET Dirs!Paths
  BY TreeAncestors
<1>2. v4' = v7' /\ v9' = {}
  BY DEF Dirs!SetUp
<1>3. v6 \subseteq [path : Dirs!Paths, of : Sessions]
  BY DEF Dirs!TypeOK
<1> HIDE DEF ps
<1>4. PICK n : n = v4'
  OBVIOUS
<1>5. Dirs!Load(ps, n, {})
  BY <1>4 DEF Dirs!SetUp, ps, Dirs!Load, Dirs!Missing
<1>6. /\ v5' \subseteq Dirs!Paths /\ v6' \subseteq [path : Dirs!Paths, of : Sessions]
      /\ \A p \in v5' : [path |-> p, of |-> v1'] \in v6'
      /\ ~v3' => \A p \in ps : n[p] # None \/ [path |-> p, of |-> v1'] \in v6'
  <2>1. PICK busy \in SUBSET Dirs!Paths : busy = {}
    OBVIOUS
  <2>2. Dirs!Load(ps, n, busy) /\ \A p \in busy : [path |-> p, of |-> v1'] \in v6
    BY <1>5, <2>1
  <2> QED BY <1>1, <1>3, <2>2, TreeLoad
<1>7. Dirs!TypeOK'
  BY <1>2, <1>6 DEF Dirs!TypeOK
<1>8. Dirs!AncestorsCome' /\ Dirs!LoadingIsAsked'
  BY <1>4, <1>6 DEF Dirs!AncestorsCome, Dirs!LoadingIsAsked, ps
<1> QED BY <1>7, <1>8 DEF Dirs!Inv

LEMMA TreeSwitch == ASSUME Dirs!Inv, NEW c \in Sessions, NEW p \in Dirs!Paths, Dirs!Switch(c, p) PROVE Dirs!Inv'
<1>1. Dirs!TypeOK
  BY DEF Dirs!Inv
<1>2. v8' \in [Sessions -> Dirs!Trees] /\ v7' = v8'[c]
  BY <1>1 DEF Dirs!Switch, Dirs!TypeOK
<1>3. v7' \in Dirs!Trees
  BY <1>2
<1> QED BY <1>1, <1>2, <1>3, TreeSetUp DEF Dirs!Switch

LEMMA TreeAvailable == ASSUME Dirs!Inv, Dirs!Available PROVE Dirs!Inv'
<1>1. Dirs!TypeOK /\ v3' \in BOOLEAN
  BY DEF Dirs!Inv, Dirs!Available
<1> QED BY <1>1, TreeSetUp DEF Dirs!Available, Dirs!TypeOK

(* A step of the same connection that asks for some paths more. *)
LEMMA TreeAsks ==
  ASSUME Dirs!Inv, NEW ps \in SUBSET Dirs!Paths, NEW n, Dirs!Load(ps, n, v5), UNCHANGED <<v1, v3, v7, v8, v9>>,
         v2' \in Dirs!Paths, v4' \in Dirs!Trees, n = v4',
         \A p \in Dirs!ancestorPaths(v2') : p \in ps \/ (v4'[p] = v4[p] /\ p \in Dirs!ancestorPaths(v2))
  PROVE  Dirs!Inv'
<1>1. Dirs!TypeOK /\ Dirs!AncestorsCome /\ Dirs!LoadingIsAsked
  BY DEF Dirs!Inv
<1>2. /\ v5' \subseteq Dirs!Paths /\ v6' \subseteq [path : Dirs!Paths, of : Sessions] /\ v6 \subseteq v6'
      /\ \A p \in v5' : [path |-> p, of |-> v1'] \in v6'
      /\ ~v3' => \A p \in ps : n[p] # None \/ [path |-> p, of |-> v1'] \in v6'
  BY <1>1, TreeLoad DEF Dirs!TypeOK, Dirs!LoadingIsAsked
<1>3. Dirs!TypeOK'
  BY <1>1, <1>2 DEF Dirs!TypeOK
<1>4. Dirs!LoadingIsAsked'
  BY <1>2 DEF Dirs!LoadingIsAsked
<1>5. Dirs!AncestorsCome'
  BY <1>1, <1>2 DEF Dirs!AncestorsCome
<1> QED BY <1>3, <1>4, <1>5 DEF Dirs!Inv

LEMMA TreeNavigate == ASSUME Dirs!Inv, NEW p \in Dirs!Paths, Dirs!Navigate(p) PROVE Dirs!Inv'
<1>1. Dirs!ancestorPaths(p) \in SUBSET Dirs!Paths /\ v4 \in Dirs!Trees
  BY TreeAncestors DEF Dirs!Inv, Dirs!TypeOK
<1>2. Dirs!Load(Dirs!ancestorPaths(p), v4, v5) /\ UNCHANGED <<v1, v3, v4, v7, v8, v9>> /\ v2' = p
  BY DEF Dirs!Navigate, Dirs!Browses
<1>3. PICK n : n = v4'
  OBVIOUS
<1>4. PICK ps : ps = Dirs!ancestorPaths(p)
  OBVIOUS
<1> QED BY <1>1, <1>2, <1>3, <1>4, TreeAsks

LEMMA TreeExpand == ASSUME Dirs!Inv, NEW p \in Dirs!Paths, Dirs!Expand(p) PROVE Dirs!Inv'
<1>1. Dirs!Load({p}, v4, v5) /\ UNCHANGED <<v1, v2, v3, v4, v7, v8, v9>>
  BY DEF Dirs!Expand, Dirs!Browses
<1>2. PICK n : n = v4'
  OBVIOUS
<1>3. v2' \in Dirs!Paths /\ v4' \in Dirs!Trees /\ {p} \in SUBSET Dirs!Paths
  BY <1>1 DEF Dirs!Inv, Dirs!TypeOK
<1> QED BY <1>1, <1>2, <1>3, TreeAsks

LEMMA TreeInvalidate == ASSUME Dirs!Inv, NEW p \in Dirs!Paths, Dirs!Invalidate(p) PROVE Dirs!Inv'
<1>1. v4' = [v4 EXCEPT ![p] = None] /\ UNCHANGED <<v1, v2, v3, v7, v8, v9>>
  BY DEF Dirs!Invalidate, Dirs!Browses
<1>2. PICK n : n = v4'
  OBVIOUS
<1>3. Dirs!Load({p}, n, v5)
  BY <1>2 DEF Dirs!Invalidate, Dirs!Load, Dirs!Missing
<1>4. v2' \in Dirs!Paths /\ v4' \in Dirs!Trees /\ {p} \in SUBSET Dirs!Paths
  BY <1>1 DEF Dirs!Inv, Dirs!TypeOK, Dirs!Trees
<1>5. \A q \in Dirs!ancestorPaths(v2') : q \in {p} \/ (v4'[q] = v4[q] /\ q \in Dirs!ancestorPaths(v2))
  <2>1. Dirs!ancestorPaths(v2) \subseteq Dirs!Paths
    BY TreeAncestors DEF Dirs!Inv, Dirs!TypeOK
  <2> QED BY <1>1, <2>1 DEF Dirs!Inv, Dirs!TypeOK, Dirs!Trees
<1> QED BY <1>1, <1>2, <1>3, <1>4, <1>5, TreeAsks

LEMMA TreeAnswer == ASSUME Dirs!Inv, NEW q \in v6, NEW ok \in BOOLEAN, Dirs!Answer(q, ok) PROVE Dirs!Inv'
<1>1. Dirs!TypeOK /\ Dirs!AncestorsCome /\ Dirs!LoadingIsAsked
  BY DEF Dirs!Inv
<1>2. /\ v6' = v6 \ {q} /\ v5' = v5 \ {q.path} /\ v4' = (IF ok THEN [v4 EXCEPT ![q.path] = q.of] ELSE v4)
      /\ v9' = (IF ok \/ q.of # v1 THEN v9 ELSE v9 \cup {q.path})
      /\ UNCHANGED <<v1, v2, v3, v7, v8>>
  BY DEF Dirs!Answer
<1>3. q \in [path : Dirs!Paths, of : Sessions] /\ q.path \in Dirs!Paths /\ q.of \in Sessions /\ q.of # None
  BY <1>1, FilesConstants DEF Dirs!TypeOK
<1>4. Dirs!TypeOK'
  BY <1>1, <1>2, <1>3 DEF Dirs!TypeOK, Dirs!Trees
<1>5. Dirs!LoadingIsAsked'
  BY <1>1, <1>2 DEF Dirs!LoadingIsAsked
<1>6. Dirs!AncestorsCome'
  <2> SUFFICES ASSUME ~v3, NEW p \in Dirs!ancestorPaths(v2)
               PROVE  v4'[p] # None \/ p \in v9' \/ [path |-> p, of |-> v1] \in v6'
    BY <1>2 DEF Dirs!AncestorsCome
  <2>1. v4[p] # None \/ p \in v9 \/ [path |-> p, of |-> v1] \in v6
    BY <1>1 DEF Dirs!AncestorsCome
  <2>2. p \in Dirs!Paths
    BY <1>1, TreeAncestors DEF Dirs!TypeOK
  <2>3. CASE [path |-> p, of |-> v1] = q
    BY <1>1, <1>2, <1>3, <2>2, <2>3 DEF Dirs!TypeOK, Dirs!Trees
  <2>4. CASE [path |-> p, of |-> v1] # q
    BY <1>1, <1>2, <1>3, <2>1, <2>2, <2>4 DEF Dirs!TypeOK, Dirs!Trees
  <2> QED BY <2>3, <2>4
<1> QED BY <1>4, <1>5, <1>6 DEF Dirs!Inv

LEMMA TreeNext == Dirs!Inv /\ [Dirs!Next]_(Dirs!vars) => Dirs!Inv'
<1> SUFFICES ASSUME Dirs!Inv, [Dirs!Next]_(Dirs!vars) PROVE Dirs!Inv'
  OBVIOUS
<1>1. CASE UNCHANGED Dirs!vars
  BY <1>1 DEF Dirs!vars, Dirs!Inv, Dirs!TypeOK, Dirs!AncestorsCome, Dirs!LoadingIsAsked
<1> QED BY <1>1, TreeAvailable, TreeNavigate, TreeExpand, TreeInvalidate, TreeSwitch, TreeAnswer DEF Dirs!Next

(***************************************************************************)
(* The remote panel                                                        *)
(***************************************************************************)
Requests == [s : Sessions, at : Browser!Paths, target : Browser!Paths, keep : BOOLEAN]
(* The two halves of the panel's invariant: what it shows, and what it loads. *)
PanelOK ==
  /\ v1 \in Sessions /\ v2 \in [Sessions -> BOOLEAN] /\ v3 \in Browser!Paths
  /\ v4 \in {None} \cup [s : Sessions, p : Browser!Paths] /\ v5 \in BOOLEAN
  /\ v6 \in Seq(Browser!Paths) /\ v7 \in 1..Len(v6)
  /\ v8 \in [Sessions -> Browser!Paths \cup {None}]
  /\ v13 \in BOOLEAN /\ v14 \in [Sessions -> Browser!Paths \cup {None}]
  /\ v15 \in [s : Sessions, ok : BOOLEAN, at : Browser!Paths]
  /\ v16 \in {None} \cup [s : Sessions, at : Browser!Paths]
  /\ Browser!HistoryPointsAtPath /\ Browser!ActiveIsCached
LoadsOK ==
  /\ v9 \in [Browser!Gens -> {None} \cup Requests]
  /\ v10 \in 0..MaxLoads + 3 /\ v11 \in BOOLEAN /\ Browser!SpinnerIsNewest

LEMMA BrowserHalves == Browser!Inv <=> PanelOK /\ LoadsOK /\ v12 \in 0..v10
BY Zenon DEF Browser!Inv, Browser!TypeOK, PanelOK, LoadsOK, Requests
LEMMA BrowserWhole == ASSUME PanelOK', LoadsOK', v12' \in 0..v10' PROVE Browser!Inv'
BY Zenon DEF Browser!Inv, Browser!TypeOK, PanelOK, LoadsOK, Requests

LEMMA RequestsAreReal == None \notin Requests /\ None \notin Browser!Paths
BY FilesConstants DEF Requests, Browser!Paths

LEMMA RequestTyped ==
  ASSUME NEW s \in Sessions, NEW at \in Browser!Paths, NEW p \in Browser!Paths, NEW keep \in BOOLEAN
  PROVE  Browser!Request(s, at, p, keep) \in Requests
BY DEF Browser!Request, Requests

LEMMA BrowserInit == Browser!Init => Browser!Inv
<1> SUFFICES ASSUME Browser!Init PROVE Browser!Inv
  OBVIOUS
<1> USE FilesConstants DEF Browser!Init
<1>1. v1 \in Sessions /\ "/home" \in Browser!Paths
  BY DEF Browser!Paths
<1>2. v15 \in [s : Sessions, ok : BOOLEAN, at : Browser!Paths]
  BY <1>1 DEF Browser!Shown
<1>3. v13 \in BOOLEAN /\ v5 \in BOOLEAN
  OBVIOUS
<1>4. v6 \in Seq(Browser!Paths) /\ v7 \in 1..Len(v6) /\ Browser!HistoryPointsAtPath
  BY <1>1 DEF Browser!HistoryPointsAtPath
<1>5. v8 \in [Sessions -> Browser!Paths \cup {None}] /\ Browser!ActiveIsCached
  BY <1>1 DEF Browser!ActiveIsCached
<1>6. PanelOK
  BY <1>1, <1>2, <1>3, <1>4, <1>5 DEF PanelOK
<1>7. v2[v1] \in BOOLEAN
  BY <1>1
<1>8. v9 \in [Browser!Gens -> {None} \cup Requests]
  <2>1. Browser!Request(v1, "/home", "/home", FALSE) \in Requests
    BY <1>1, RequestTyped
  <2> QED BY <2>1
<1>9. v10 \in 0..MaxLoads + 3 /\ v12 \in 0..v10 /\ 1 \in Browser!Gens
  BY DEF Browser!Gens
<1>10. Browser!SpinnerIsNewest
  <2>1. CASE v2[v1]
    <3>1. v10 = 1 /\ v11 = TRUE /\ v9[1] = Browser!Request(v1, "/home", "/home", FALSE)
      BY <2>1, <1>9
    <3>2. Browser!Request(v1, "/home", "/home", FALSE) \in Requests
      BY <1>1, RequestTyped
    <3>3. v9[v10] # None
      BY ONLY <3>1, <3>2, RequestsAreReal, Zenon
    <3>4. v10 > 0
      BY ONLY <3>1
    <3> QED BY ONLY <3>1, <3>3, <3>4, Zenon DEF Browser!SpinnerIsNewest
  <2>2. CASE ~v2[v1]
    BY <1>7, <2>2 DEF Browser!SpinnerIsNewest
  <2> QED BY <2>1, <2>2
<1>11. v11 \in BOOLEAN
  BY <1>7
<1> QED BY <1>6, <1>8, <1>9, <1>10, <1>11, BrowserHalves DEF LoadsOK

(* Whatever a render asks for, the spinner belongs to the last of it. *)
LEMMA BrowserIssue ==
  ASSUME LoadsOK, v12 \in 0..v10, NEW reqs \in Seq(Requests), Browser!Issue(reqs), v12' = v12
  PROVE  LoadsOK' /\ v12' \in 0..v10'
<1> USE FilesConstants DEF Browser!Gens
<1>1. v10' = v10 + Len(reqs) /\ v10' <= MaxLoads /\ v10 \in Nat /\ Len(reqs) \in Nat
  BY DEF Browser!Issue, LoadsOK
<1>2. v9' = [g \in Browser!Gens |-> IF g \in v10 + 1 .. v10' THEN reqs[g - v10] ELSE v9[g]]
  BY Zenon DEF Browser!Issue
<1>3. \A g \in v10 + 1 .. v10' : g - v10 \in 1 .. Len(reqs) /\ reqs[g - v10] \in Requests
  BY <1>1
<1>4. v9' \in [Browser!Gens -> {None} \cup Requests]
  BY <1>2, <1>3 DEF LoadsOK
<1>5. v10' \in 0..MaxLoads + 3 /\ v12' \in 0..v10'
  BY <1>1
<1>6. v11' = (v11 \/ reqs # <<>>) /\ v11 \in BOOLEAN
  BY DEF Browser!Issue, LoadsOK
<1>7. Browser!SpinnerIsNewest'
  <2>1. CASE reqs = <<>>
    <3>1. v10' = v10 /\ (v10 > 0 => v10 \in Browser!Gens /\ v10 \notin v10 + 1 .. v10')
      BY <2>1, <1>1
    <3>2. v10 > 0 => v9'[v10] = v9[v10]
      BY <3>1, <1>2
    <3> QED BY <2>1, <3>1, <3>2, <1>6 DEF LoadsOK, Browser!SpinnerIsNewest
  <2>2. CASE reqs # <<>>
    <3>1. Len(reqs) > 0
      BY <2>2, <1>1, EmptySeq
    <3>2. v10' > 0 /\ v10' \in v10 + 1 .. v10' /\ v10' \in Browser!Gens
      BY <3>1, <1>1
    <3>3. v9'[v10'] \in Requests
      BY <3>2, <1>2, <1>3
    <3> QED BY <2>2, <3>2, <3>3, <1>6, RequestsAreReal DEF Browser!SpinnerIsNewest
  <2> QED BY <2>1, <2>2
<1>8. v11' \in BOOLEAN
  BY <1>6
<1> QED BY <1>4, <1>5, <1>7, <1>8 DEF LoadsOK

LEMMA OneRequest == ASSUME NEW r \in Requests PROVE <<r>> \in Seq(Requests) /\ <<>> \in Seq(Requests)
OBVIOUS

LEMMA FollowedTyped ==
  ASSUME NEW s \in Sessions, NEW at \in Browser!Paths, NEW p,
         v14' \in [Sessions -> Browser!Paths \cup {None}]
  PROVE  /\ Browser!Followed(s, at, p) \in Seq(Requests)
         /\ ~v2'[s] => Browser!Followed(s, at, p) = <<>>
<1>1. CASE v13' /\ v2'[s] /\ v14'[s] \notin {None, p}
  <2>1. v14'[s] \in Browser!Paths
    BY <1>1
  <2>2. Browser!Request(s, at, v14'[s], TRUE) \in Requests
    BY <2>1, RequestTyped
  <2>3. Browser!Followed(s, at, p) = <<Browser!Request(s, at, v14'[s], TRUE)>>
    BY <1>1, Zenon DEF Browser!Followed
  <2> QED BY <1>1, <2>2, <2>3, OneRequest, Zenon
<1>2. CASE ~(v13' /\ v2'[s] /\ v14'[s] \notin {None, p})
  <2>1. Browser!Followed(s, at, p) = <<>>
    BY <1>2, Zenon DEF Browser!Followed
  <2> QED BY <2>1
<1> QED BY <1>1, <1>2

LEMMA ReloadTyped ==
  ASSUME NEW s \in Sessions, NEW p \in Browser!Paths
  PROVE  /\ Browser!Reload(s, p) \in Seq(Requests)
         /\ v2'[s] => Browser!Reload(s, p) = <<Browser!Request(s, p, p, FALSE)>>
<1>1. Browser!Request(s, p, p, FALSE) \in Requests
  BY RequestTyped
<1>2. Browser!Reload(s, p) \in {<<Browser!Request(s, p, p, FALSE)>>, <<>>}
  BY Zenon DEF Browser!Reload
<1>3. Browser!Reload(s, p) \in Seq(Requests)
  BY <1>1, <1>2, OneRequest, Zenon
<1>4. v2'[s] => Browser!Reload(s, p) = <<Browser!Request(s, p, p, FALSE)>>
  BY Zenon DEF Browser!Reload
<1> QED BY <1>3, <1>4

(* A step that keeps the place of the panel. *)
LEMMA PanelStays ==
  ASSUME PanelOK, UNCHANGED <<v1, v3, v6, v7>>, v8' \in {v8, [v8 EXCEPT ![v1] = v3]},
         v2' \in [Sessions -> BOOLEAN], v4' \in {None} \cup [s : Sessions, p : Browser!Paths], v5' \in BOOLEAN,
         v13' \in BOOLEAN, v14' \in [Sessions -> Browser!Paths \cup {None}],
         v15' \in [s : Sessions, ok : BOOLEAN, at : Browser!Paths],
         v16' \in {None} \cup [s : Sessions, at : Browser!Paths]
  PROVE  PanelOK'
<1>1. v8' \in [Sessions -> Browser!Paths \cup {None}]
  BY DEF PanelOK
<1>2. v8'[v1'] # None
  BY RequestsAreReal DEF PanelOK, Browser!ActiveIsCached
<1>3. v6' \in Seq(Browser!Paths) /\ v7' \in 1 .. Len(v6')
  BY DEF PanelOK
<1>4. Browser!HistoryPointsAtPath'
  BY DEF PanelOK, Browser!HistoryPointsAtPath
<1> QED BY <1>1, <1>2, <1>3, <1>4 DEF PanelOK, Browser!ActiveIsCached

(* A step that takes the panel to p, at entry i of history h. *)
LEMMA PanelMoves ==
  ASSUME PanelOK, NEW p \in Browser!Paths, NEW h \in Seq(Browser!Paths), NEW i \in 1 .. Len(h), h[i] = p,
         v1' \in Sessions, v3' = p, v6' = h, v7' = i, v8' = [v8 EXCEPT ![v1'] = p],
         UNCHANGED <<v2, v13, v14>>, v4' \in {None} \cup [s : Sessions, p : Browser!Paths], v5' \in BOOLEAN,
         v15' \in [s : Sessions, ok : BOOLEAN, at : Browser!Paths],
         v16' \in {None} \cup [s : Sessions, at : Browser!Paths]
  PROVE  PanelOK'
<1>1. v8' \in [Sessions -> Browser!Paths \cup {None}] /\ v8'[v1'] # None
  BY RequestsAreReal DEF PanelOK
<1>2. Browser!HistoryPointsAtPath'
  BY DEF Browser!HistoryPointsAtPath
<1> QED BY <1>1, <1>2 DEF PanelOK, Browser!ActiveIsCached

LEMMA HomePath == "/home" \in Browser!Paths /\ <<"/home">> \in Seq(Browser!Paths) /\ 1 \in 1 .. Len(<<"/home">>)
BY DEF Browser!Paths

LEMMA TwoRequests ==
  ASSUME NEW a \in Seq(Requests), NEW b \in Seq(Requests), NEW c \in Seq(Requests)
  PROVE  a \o b \in Seq(Requests) /\ a \o b \o c \in Seq(Requests)
<1>1. a \o b \in Seq(Requests)
  OBVIOUS
<1> QED BY <1>1

LEMMA BrowserSwitch == ASSUME Browser!Inv, NEW s \in Sessions, Browser!Switch(s) PROVE Browser!Inv'
<1> DEFINE fresh == v8[s] = None
           back == IF fresh THEN "/home" ELSE v8[s]
           first == IF v2[s] THEN <<Browser!Request(s, v3, back, FALSE)>> ELSE <<>>
           again == IF fresh /\ v3 # "/home" THEN Browser!Reload(s, "/home") ELSE <<>>
           reqs == first \o Browser!Followed(s, v3, back) \o again
<1>1. PanelOK /\ LoadsOK /\ v12 \in 0..v10
  BY BrowserHalves
<1>2. /\ v1' = s /\ v15' = Browser!Shown(s) /\ UNCHANGED <<v2, v13, v14, v12, v16>> /\ Browser!Issue(reqs)
  BY DEF Browser!Switch
<1>3. v3 \in Browser!Paths /\ back \in Browser!Paths
  BY <1>1, HomePath DEF PanelOK
<1>4. reqs \in Seq(Requests)
  <2>1. Browser!Request(s, v3, back, FALSE) \in Requests
    BY <1>3, RequestTyped
  <2>2. first \in Seq(Requests)
    BY <2>1, OneRequest, Zenon
  <2>3. Browser!Followed(s, v3, back) \in Seq(Requests)
    BY <1>1, <1>2, <1>3, FollowedTyped DEF PanelOK
  <2>4. again \in Seq(Requests)
    BY ReloadTyped, HomePath, OneRequest, <2>1, Zenon
  <2> HIDE DEF first, again
  <2> QED BY <2>2, <2>3, <2>4, TwoRequests
<1> HIDE DEF reqs
<1>5. LoadsOK' /\ v12' \in 0..v10'
  BY <1>1, <1>2, <1>4, BrowserIssue
<1>6. v15' \in [s : Sessions, ok : BOOLEAN, at : Browser!Paths] /\ v16' \in {None} \cup [s : Sessions, at : Browser!Paths]
  BY <1>1, <1>2, <1>3 DEF PanelOK, Browser!Shown
<1>7. PanelOK'
  <2>1. CASE fresh
    <3>1. /\ v3' = "/home" /\ v4' = None /\ v5' = FALSE /\ v6' = <<"/home">> /\ v7' = 1
          /\ v8' = [v8 EXCEPT ![v1'] = "/home"]
      BY <1>2, <2>1 DEF Browser!Switch
    <3>2. PICK h \in Seq(Browser!Paths) : h = <<"/home">>
      BY HomePath
    <3>3. 1 \in 1 .. Len(h) /\ h[1] = "/home" /\ v6' = h
      BY <3>1, <3>2
    <3>4. v4' \in {None} \cup [s : Sessions, p : Browser!Paths] /\ v5' \in BOOLEAN
      BY <3>1
    <3> QED BY <1>1, <1>2, <1>6, <3>1, <3>3, <3>4, HomePath, PanelMoves
  <2>2. CASE ~fresh
    <3>1. UNCHANGED <<v3, v4, v5, v6, v7, v8>>
      BY <2>2 DEF Browser!Switch, Browser!viewVars
    <3>2. v8'[v1'] # None
      BY <3>1, <1>2, <2>2
    <3>3. Browser!HistoryPointsAtPath'
      BY <1>1, <3>1 DEF PanelOK, Browser!HistoryPointsAtPath
    <3> QED BY <1>1, <1>2, <1>6, <3>1, <3>2, <3>3 DEF PanelOK, Browser!ActiveIsCached
  <2> QED BY <2>1, <2>2
<1> QED BY <1>5, <1>7, BrowserWhole

LEMMA BrowserRemount == ASSUME Browser!Inv, Browser!Remount PROVE Browser!Inv'
<1> USE FilesConstants DEF Browser!Gens
<1> DEFINE first == IF v2[v1] THEN <<Browser!Request(v1, "/home", v8[v1], FALSE)>> ELSE <<>>
           reqs == first \o Browser!Followed(v1, "/home", v8[v1])
<1>1. PanelOK /\ LoadsOK /\ v12 \in 0..v10
  BY BrowserHalves
<1>2. /\ UNCHANGED <<v1, v2, v12, v13, v14>> /\ v16' = None /\ v3' = "/home" /\ v4' = None /\ v5' = FALSE
      /\ v6' = <<"/home">> /\ v7' = 1 /\ v8' = [v8 EXCEPT ![v1] = "/home"]
      /\ v15' = [Browser!Shown(v1) EXCEPT !.at = "/home"]
  BY DEF Browser!Remount, Browser!Cached
<1>3. /\ v10 + Len(reqs) <= MaxLoads /\ v10' = v10 + Len(reqs)
      /\ v9' = [g \in Browser!Gens |-> IF g \in v10 + 1 .. v10' THEN reqs[g - v10] ELSE None]
  BY Zenon DEF Browser!Remount
<1>4. v11' = v2[v1] /\ v2[v1] \in BOOLEAN /\ v1 \in Sessions
  BY <1>1 DEF PanelOK, Browser!Remount
<1>5. v8[v1] \in Browser!Paths
  BY <1>1 DEF PanelOK, Browser!ActiveIsCached
<1>6. reqs \in Seq(Requests) /\ (v2[v1] => Len(reqs) > 0) /\ (~v2[v1] => reqs = <<>>)
  <2>1. Browser!Request(v1, "/home", v8[v1], FALSE) \in Requests
    BY <1>4, <1>5, HomePath, RequestTyped
  <2>2. first \in Seq(Requests) /\ (v2[v1] => first # <<>>) /\ (~v2[v1] => first = <<>>)
    <3>1. first \in Seq(Requests)
      BY <2>1, OneRequest, Zenon
    <3>2. (v2[v1] => first # <<>>) /\ (~v2[v1] => first = <<>>)
      OBVIOUS
    <3> QED BY <3>1, <3>2
  <2>3. Browser!Followed(v1, "/home", v8[v1]) \in Seq(Requests) /\ (~v2[v1] => Browser!Followed(v1, "/home", v8[v1]) = <<>>)
    BY <1>1, <1>2, <1>4, <1>5, HomePath, FollowedTyped DEF PanelOK
  <2> HIDE DEF first
  <2>4. PICK f \in Seq(Requests) : f = Browser!Followed(v1, "/home", v8[v1])
    BY <2>3
  <2>5. Len(first \o f) = Len(first) + Len(f) /\ Len(first) \in Nat /\ Len(f) \in Nat /\ first \o f \in Seq(Requests)
    BY <2>2
  <2>6. first # <<>> => Len(first) > 0
    BY <2>2, <2>5, EmptySeq
  <2>7. ~v2[v1] => reqs = <<>>
    BY <2>2, <2>3
  <2>8. v2[v1] => Len(reqs) > 0
    BY <2>2, <2>4, <2>5, <2>6
  <2> QED BY <2>4, <2>5, <2>7, <2>8
<1> HIDE DEF reqs
<1>7. v10 \in Nat /\ Len(reqs) \in Nat /\ v12 \in Nat /\ v12 <= v10
  BY <1>1, <1>6 DEF LoadsOK
<1>8. \A g \in v10 + 1 .. v10' : reqs[g - v10] \in Requests
  BY <1>3, <1>6, <1>7
<1>9. LoadsOK' /\ v12' \in 0..v10'
  <2>1. v9' \in [Browser!Gens -> {None} \cup Requests]
    BY <1>3, <1>8, Zenon
  <2>2. v10' \in 0..MaxLoads + 3 /\ v12' \in 0..v10' /\ v11' \in BOOLEAN
    <3>1. v10' \in 0..MaxLoads + 3 /\ v12' \in 0..v10'
      BY <1>2, <1>3, <1>7
    <3> QED BY <3>1, <1>4
  <2>3. Browser!SpinnerIsNewest'
    <3>1. CASE v2[v1]
      <4>1. v10' > 0 /\ v10' \in v10 + 1 .. v10' /\ v10' \in Browser!Gens
        BY <3>1, <1>3, <1>6, <1>7
      <4>2. v9'[v10'] \in Requests
        BY <4>1, <1>3, <1>8
      <4> QED BY <4>1, <4>2, <3>1, <1>4, RequestsAreReal DEF Browser!SpinnerIsNewest
    <3>2. CASE ~v2[v1]
      <4>1. v10' = v10 /\ v10' \notin v10 + 1 .. v10' /\ (v10' > 0 => v10' \in Browser!Gens)
        BY <3>2, <1>3, <1>6, <1>7
      <4>2. v10' > 0 => v9'[v10'] = None
        BY <4>1, <1>3
      <4> QED BY <4>2, <3>2, <1>4 DEF Browser!SpinnerIsNewest
    <3> QED BY <3>1, <3>2
  <2> QED BY <2>1, <2>2, <2>3 DEF LoadsOK
<1>10. PanelOK'
  <2>1. PICK h \in Seq(Browser!Paths) : h = <<"/home">>
    BY HomePath
  <2>2. 1 \in 1 .. Len(h) /\ h[1] = "/home" /\ v6' = h
    BY <1>2, <2>1
  <2>3. v4' \in {None} \cup [s : Sessions, p : Browser!Paths] /\ v5' \in BOOLEAN /\ v16' \in {None} \cup [s : Sessions, at : Browser!Paths]
    BY <1>2
  <2>4. v15' \in [s : Sessions, ok : BOOLEAN, at : Browser!Paths]
    BY <1>1, <1>2, <1>4, HomePath DEF PanelOK, Browser!Shown
  <2>5. v1' \in Sessions /\ v8' = [v8 EXCEPT ![v1'] = "/home"]
    BY <1>2, <1>4
  <2> QED BY <1>1, <1>2, <2>2, <2>3, <2>4, <2>5, HomePath, PanelMoves
<1> QED BY <1>9, <1>10, BrowserWhole

LEMMA BrowserConnected == ASSUME Browser!Inv, NEW s \in Sessions, Browser!Connected(s) PROVE Browser!Inv'
<1> DEFINE r == Browser!Reload(s, v3)
           reqs == IF s = v1 THEN r \o r \o Browser!Followed(s, v3, v3) ELSE <<>>
<1>1. PanelOK /\ LoadsOK /\ v12 \in 0..v10
  BY BrowserHalves
<1>2. /\ v2' = [v2 EXCEPT ![s] = TRUE] /\ UNCHANGED <<v1, v3, v4, v5, v6, v7, v8, v12, v13, v14, v15, v16>>
      /\ Browser!Issue(reqs)
  BY DEF Browser!Connected, Browser!viewVars
<1>3. reqs \in Seq(Requests)
  <2>1. r \in Seq(Requests) /\ Browser!Followed(s, v3, v3) \in Seq(Requests)
    BY <1>1, <1>2, ReloadTyped, FollowedTyped DEF PanelOK
  <2> HIDE DEF r
  <2>2. r \o r \o Browser!Followed(s, v3, v3) \in Seq(Requests)
    BY <2>1, TwoRequests
  <2> QED BY <2>2
<1> HIDE DEF reqs
<1>4. LoadsOK' /\ v12' \in 0..v10'
  BY <1>1, <1>2, <1>3, BrowserIssue
<1>5. PanelOK'
  BY <1>1, <1>2, PanelStays DEF PanelOK
<1> QED BY <1>4, <1>5, BrowserWhole

LEMMA BrowserDisconnected == ASSUME Browser!Inv, NEW s \in Sessions, Browser!Disconnected(s) PROVE Browser!Inv'
<1>1. PanelOK /\ LoadsOK /\ v12 \in 0..v10
  BY BrowserHalves
<1>2. v2' = [v2 EXCEPT ![s] = FALSE] /\ UNCHANGED <<v1, v3, v4, v5, v6, v7, v8, v9, v10, v11, v12, v13, v14, v15, v16>>
  BY DEF Browser!Disconnected, Browser!viewVars, Browser!loadVars
<1>3. PanelOK'
  BY <1>1, <1>2, PanelStays DEF PanelOK
<1> QED BY <1>1, <1>2, <1>3, BrowserWhole DEF LoadsOK, Browser!SpinnerIsNewest

LEMMA BrowserCd ==
  ASSUME Browser!Inv, NEW s \in Sessions, NEW p \in Browser!Paths, Browser!Cd(s, p) PROVE Browser!Inv'
<1> DEFINE reqs == IF s = v1 THEN Browser!Followed(s, v3, v3) ELSE <<>>
<1>1. PanelOK /\ LoadsOK /\ v12 \in 0..v10
  BY BrowserHalves
<1>2. /\ v14' = [v14 EXCEPT ![s] = p] /\ UNCHANGED <<v1, v2, v3, v4, v5, v6, v7, v8, v12, v13, v15, v16>>
      /\ Browser!Issue(reqs)
  BY DEF Browser!Cd, Browser!viewVars
<1>3. v14' \in [Sessions -> Browser!Paths \cup {None}]
  BY <1>1, <1>2 DEF PanelOK
<1>4. reqs \in Seq(Requests)
  BY <1>1, <1>3, FollowedTyped DEF PanelOK
<1> HIDE DEF reqs
<1>5. LoadsOK' /\ v12' \in 0..v10'
  BY <1>1, <1>2, <1>4, BrowserIssue
<1>6. PanelOK'
  BY <1>1, <1>2, <1>3, PanelStays DEF PanelOK
<1> QED BY <1>5, <1>6, BrowserWhole

LEMMA BrowserToggle == ASSUME Browser!Inv, Browser!ToggleFollow PROVE Browser!Inv'
<1> DEFINE reqs == Browser!Followed(v1, v3, v3)
<1>1. PanelOK /\ LoadsOK /\ v12 \in 0..v10
  BY BrowserHalves
<1>2. /\ v13' = ~v13 /\ UNCHANGED <<v1, v2, v3, v4, v5, v6, v7, v8, v12, v14, v15, v16>> /\ Browser!Issue(reqs)
  BY DEF Browser!ToggleFollow, Browser!viewVars
<1>3. reqs \in Seq(Requests)
  BY <1>1, <1>2, FollowedTyped DEF PanelOK
<1> HIDE DEF reqs
<1>4. LoadsOK' /\ v12' \in 0..v10'
  BY <1>1, <1>2, <1>3, BrowserIssue
<1>5. PanelOK'
  BY <1>1, <1>2, PanelStays DEF PanelOK
<1> QED BY <1>4, <1>5, BrowserWhole

(* Navigate, Back and Forward: the panel goes to p, which is the entry i of history h. *)
LEMMA BrowserGoTo ==
  ASSUME Browser!Inv, NEW p \in Browser!Paths, NEW h \in Seq(Browser!Paths), NEW i \in 1 .. Len(h), h[i] = p,
         Browser!GoTo(p), v6' = h, v7' = i
  PROVE  Browser!Inv'
<1> DEFINE reqs == IF p = v3 THEN <<>> ELSE Browser!Reload(v1, p)
<1>1. PanelOK /\ LoadsOK /\ v12 \in 0..v10
  BY BrowserHalves
<1>2. /\ v3' = p /\ v5' = FALSE /\ v8' = [v8 EXCEPT ![v1] = p] /\ UNCHANGED <<v1, v2, v4, v12, v13, v14, v15, v16>>
      /\ Browser!Issue(reqs)
  BY DEF Browser!GoTo, Browser!Cached
<1>3. reqs \in Seq(Requests)
  <2>1. <<>> \in Seq(Requests)
    OBVIOUS
  <2>2. v1 \in Sessions
    BY <1>1 DEF PanelOK
  <2>3. Browser!Reload(v1, p) \in Seq(Requests)
    BY <2>2, ReloadTyped
  <2> QED BY <2>1, <2>3, Zenon
<1> HIDE DEF reqs
<1>4. LoadsOK' /\ v12' \in 0..v10'
  BY <1>1, <1>2, <1>3, BrowserIssue
<1>5. v1' \in Sessions /\ v8' = [v8 EXCEPT ![v1'] = p] /\ v4' \in {None} \cup [s : Sessions, p : Browser!Paths] /\ v5' \in BOOLEAN
      /\ v15' \in [s : Sessions, ok : BOOLEAN, at : Browser!Paths] /\ v16' \in {None} \cup [s : Sessions, at : Browser!Paths]
  BY <1>1, <1>2 DEF PanelOK
<1>6. PanelOK'
  BY <1>1, <1>2, <1>5, PanelMoves
<1> QED BY <1>4, <1>6, BrowserWhole

LEMMA BrowserNavigate == ASSUME Browser!Inv, NEW p \in Browser!Paths, Browser!Navigate(p) PROVE Browser!Inv'
<1>1. v6 \in Seq(Browser!Paths) /\ v7 \in 1 .. Len(v6)
  BY BrowserHalves DEF PanelOK
<1>2. PICK front \in Seq(Browser!Paths) : front = SubSeq(v6, 1, v7) /\ Len(front) = v7
  <2>1. v7 \in Nat /\ Len(v6) \in Nat
    BY <1>1
  <2>2. SubSeq(v6, 1, v7) \in Seq(Browser!Paths) /\ Len(SubSeq(v6, 1, v7)) = v7
    BY <1>1, <2>1
  <2> QED BY <2>2
<1>3. PICK h \in Seq(Browser!Paths) : h = Append(front, p)
  <2>1. Append(front, p) \in Seq(Browser!Paths)
    OBVIOUS
  <2> QED BY <2>1, Zenon
<1>4. Len(h) = v7 + 1 /\ h[v7 + 1] = p /\ v7 + 1 \in 1 .. Len(h)
  BY <1>1, <1>2, <1>3
<1>5. v6' = h /\ v7' = v7 + 1 /\ Browser!GoTo(p)
  BY <1>2, <1>3 DEF Browser!Navigate
<1> QED BY <1>4, <1>5, BrowserGoTo

LEMMA BrowserWalk == ASSUME Browser!Inv, Browser!Back \/ Browser!Forward PROVE Browser!Inv'
<1>1. v6 \in Seq(Browser!Paths) /\ v7 \in 1 .. Len(v6)
  BY BrowserHalves DEF PanelOK
<1>2. PICK i : i = v7'
  OBVIOUS
<1>3. Browser!GoTo(v6[i]) /\ v6' = v6 /\ v7' = i
  BY <1>2 DEF Browser!Back, Browser!Forward, Browser!GoTo
<1>4. i \in 1 .. Len(v6)
  <2>1. (v7 > 1 /\ i = v7 - 1) \/ (v7 < Len(v6) /\ i = v7 + 1)
    BY <1>2 DEF Browser!Back, Browser!Forward
  <2> QED BY <1>1, <2>1
<1>5. v6[i] \in Browser!Paths
  BY <1>1, <1>4
<1> QED BY <1>1, <1>3, <1>4, <1>5, BrowserGoTo

LEMMA BrowserRefresh == ASSUME Browser!Inv, Browser!Refresh PROVE Browser!Inv'
<1>1. PanelOK /\ LoadsOK /\ v12 \in 0..v10
  BY BrowserHalves
<1>2. PICK r \in Requests : r = Browser!Request(v1, v3, v3, FALSE)
  BY <1>1, RequestTyped DEF PanelOK
<1>3. Browser!Issue(<<r>>) /\ UNCHANGED <<v1, v2, v3, v4, v5, v6, v7, v8, v12, v13, v14, v15, v16>>
  BY <1>2 DEF Browser!Refresh, Browser!viewVars
<1>4. LoadsOK' /\ v12' \in 0..v10'
  BY <1>1, <1>3, OneRequest, BrowserIssue
<1>5. PanelOK'
  BY <1>1, <1>3, PanelStays DEF PanelOK
<1> QED BY <1>4, <1>5, BrowserWhole

LEMMA BrowserSelect == ASSUME Browser!Inv, Browser!Select PROVE Browser!Inv'
<1>1. PanelOK /\ LoadsOK /\ v12 \in 0..v10
  BY BrowserHalves
<1>2. /\ v5' \in BOOLEAN /\ v8' = [v8 EXCEPT ![v1] = v3]
      /\ UNCHANGED <<v1, v2, v3, v4, v6, v7, v9, v10, v11, v12, v13, v14, v15, v16>>
  BY DEF Browser!Select, Browser!Cached, Browser!loadVars
<1>3. PanelOK'
  BY <1>1, <1>2, PanelStays DEF PanelOK
<1> QED BY <1>1, <1>2, <1>3, BrowserWhole DEF LoadsOK, Browser!SpinnerIsNewest

(* The handlers of operations and transfers. *)
LEMMA BrowserOperate == ASSUME Browser!Inv, Browser!Operate \/ Browser!OpFails PROVE Browser!Inv'
<1>1. PanelOK /\ LoadsOK /\ v12 \in 0..v10
  BY BrowserHalves
<1>2. UNCHANGED <<v1, v2, v3, v4, v5, v6, v7, v8, v9, v10, v11, v12, v13, v14, v15>>
  BY DEF Browser!Operate, Browser!OpFails, Browser!loadVars, Browser!viewVars
<1>3. v16' \in {None} \cup [s : Sessions, at : Browser!Paths]
  BY <1>1 DEF Browser!Operate, Browser!OpFails, PanelOK
<1>4. PanelOK'
  BY <1>1, <1>2, <1>3, PanelStays DEF PanelOK
<1> QED BY <1>1, <1>2, <1>4, BrowserWhole DEF LoadsOK, Browser!SpinnerIsNewest

LEMMA BrowserOpDone == ASSUME Browser!Inv, Browser!OpDone PROVE Browser!Inv'
<1>1. PanelOK /\ LoadsOK /\ v12 \in 0..v10
  BY BrowserHalves
<1>2. PICK r \in Requests : r = Browser!Request(v16.s, v16.at, v16.at, FALSE)
  BY <1>1, RequestTyped DEF PanelOK, Browser!OpDone
<1>3. /\ Browser!Issue(<<r>>) /\ v16' = None /\ v5' \in {v5, FALSE} /\ v8' = [v8 EXCEPT ![v1] = v3]
      /\ UNCHANGED <<v1, v2, v3, v4, v6, v7, v12, v13, v14, v15>>
  BY <1>2 DEF Browser!OpDone, Browser!Cached
<1>4. LoadsOK' /\ v12' \in 0..v10'
  BY <1>1, <1>3, OneRequest, BrowserIssue
<1>5. PanelOK'
  BY <1>1, <1>3, PanelStays DEF PanelOK
<1> QED BY <1>4, <1>5, BrowserWhole

LEMMA BrowserTransferDone == ASSUME Browser!Inv, Browser!TransferDone PROVE Browser!Inv'
<1>1. PanelOK /\ LoadsOK /\ v12 \in 0..v10
  BY BrowserHalves
<1>2. PICK r \in Requests : r = Browser!Request(v15.s, v15.at, v15.at, FALSE)
  BY <1>1, RequestTyped DEF PanelOK
<1>3. Browser!Issue(<<r>>) /\ UNCHANGED <<v1, v2, v3, v4, v5, v6, v7, v8, v12, v13, v14, v15, v16>>
  BY <1>2 DEF Browser!TransferDone, Browser!viewVars
<1>4. LoadsOK' /\ v12' \in 0..v10'
  BY <1>1, <1>3, OneRequest, BrowserIssue
<1>5. PanelOK'
  BY <1>1, <1>3, PanelStays DEF PanelOK
<1> QED BY <1>4, <1>5, BrowserWhole

(* An answer: of the newest request, or dropped. *)
LEMMA BrowserDropped == ASSUME Browser!Inv, NEW g \in Browser!Gens, Browser!Dropped(g) PROVE Browser!Inv'
<1> USE FilesConstants
<1>1. PanelOK /\ LoadsOK /\ v12 \in 0..v10
  BY BrowserHalves
<1>2. g # v10 /\ v9' = [v9 EXCEPT ![g] = None] /\ UNCHANGED <<v1, v2, v3, v4, v5, v6, v7, v8, v10, v11, v12, v13, v14, v15, v16>>
  BY DEF Browser!Dropped, Browser!Stale, Browser!Answer, Browser!viewVars
<1>3. PanelOK'
  BY <1>1, <1>2, PanelStays DEF PanelOK
<1>4. v9' \in [Browser!Gens -> {None} \cup Requests]
  BY <1>1, <1>2 DEF LoadsOK
<1>5. v10 > 0 => v9'[v10] = v9[v10]
  <2>1. v10 > 0 => v10 \in Browser!Gens
    BY <1>1 DEF LoadsOK, Browser!Gens
  <2> QED BY <1>1, <1>2, <2>1 DEF LoadsOK
<1>6. Browser!SpinnerIsNewest'
  BY <1>1, <1>2, <1>5 DEF LoadsOK, Browser!SpinnerIsNewest
<1> QED BY <1>1, <1>2, <1>3, <1>4, <1>6, BrowserWhole DEF LoadsOK

LEMMA BrowserListed == ASSUME Browser!Inv, NEW g \in Browser!Gens, Browser!Listed(g) PROVE Browser!Inv'
<1> USE FilesConstants
<1> DEFINE l == v9[g]
           moved == l.at # l.target
           again == moved /\ v3 # l.target /\ v2[v1]
           r == Browser!Request(v1, l.target, l.target, FALSE)
           A == Browser!Answer(g)
<1>1. PanelOK /\ LoadsOK /\ v12 \in 0..v10
  BY BrowserHalves
<1>2. /\ l # None /\ g = v10 /\ v4' = [s |-> l.s, p |-> l.target] /\ v12' = g
      /\ v3' = (IF moved THEN l.target ELSE v3) /\ v5' = (v5 /\ ~moved)
      /\ v6' = (IF moved THEN <<l.target>> ELSE v6) /\ v7' = (IF moved THEN 1 ELSE v7)
      /\ v8' = [v8 EXCEPT ![v1] = v3'] /\ (again => v10 + 1 \in Browser!Gens)
      /\ v10' = (IF again THEN v10 + 1 ELSE v10) /\ UNCHANGED <<v1, v2, v13, v14, v15, v16>>
  BY DEF Browser!Listed, Browser!Stale, Browser!Cached
<1>3. v9' = [h \in Browser!Gens |-> IF again /\ h = v10' THEN r ELSE A[h]]
  BY DEF Browser!Listed
<1>4. v11' = again /\ again \in BOOLEAN
  BY DEF Browser!Listed
<1>5. l \in Requests /\ l.s \in Sessions /\ l.at \in Browser!Paths /\ l.target \in Browser!Paths
  BY <1>1, <1>2 DEF LoadsOK, Requests
<1>6. r \in Requests
  BY <1>1, <1>5, RequestTyped DEF PanelOK
<1>7. A \in [Browser!Gens -> {None} \cup Requests] /\ A[g] = None
  BY <1>1 DEF LoadsOK, Browser!Answer
<1> HIDE DEF A, r
<1>8. v9' \in [Browser!Gens -> {None} \cup Requests]
  BY <1>3, <1>6, <1>7
<1>9. PanelOK'
  <2>1. /\ v4' \in {None} \cup [s : Sessions, p : Browser!Paths]
        /\ v15' \in [s : Sessions, ok : BOOLEAN, at : Browser!Paths] /\ v16' \in {None} \cup [s : Sessions, at : Browser!Paths]
        /\ v1' \in Sessions
    BY <1>1, <1>2, <1>5 DEF PanelOK
  <2>2. v5' \in BOOLEAN
    BY <1>2
  <2>3. CASE moved
    <3>1. PICK t \in Browser!Paths : t = l.target
      BY <1>5, Zenon
    <3>2. PICK h \in Seq(Browser!Paths) : h = <<t>>
      <4>1. <<t>> \in Seq(Browser!Paths)
        OBVIOUS
      <4> QED BY <4>1, Zenon
    <3>3. 1 \in 1 .. Len(h) /\ h[1] = t
      BY <3>2
    <3>4. v3' = t /\ v6' = h /\ v7' = 1 /\ v8' = [v8 EXCEPT ![v1'] = t] /\ UNCHANGED <<v2, v13, v14>>
      BY <1>2, <2>3, <3>1, <3>2, Zenon
    <3> HIDE DEF l
    <3> QED BY ONLY <1>1, <2>1, <2>2, <3>3, <3>4, PanelMoves
  <2>4. CASE ~moved
    <3>1. v3' = v3 /\ v6' = v6 /\ v7' = v7 /\ v8' = [v8 EXCEPT ![v1] = v3]
      BY <1>2, <2>4
    <3> QED BY <1>1, <1>2, <2>1, <2>2, <3>1, PanelStays DEF PanelOK
  <2> QED BY <2>3, <2>4
<1> HIDE DEF again
<1>10. v10' \in 0..MaxLoads + 3 /\ v12' \in 0..v10' /\ v10' > 0 /\ v10' \in Browser!Gens
  BY <1>1, <1>2 DEF LoadsOK, Browser!Gens
<1>11. Browser!SpinnerIsNewest'
  <2>1. CASE again
    <3>1. v9'[v10'] = r
      BY <2>1, <1>3, <1>10
    <3> QED BY <2>1, <3>1, <1>4, <1>6, <1>10, RequestsAreReal, Zenon DEF Browser!SpinnerIsNewest
  <2>2. CASE ~again
    <3>1. v9'[v10'] = None
      BY <2>2, <1>2, <1>3, <1>7, <1>10
    <3> QED BY <2>2, <3>1, <1>4, <1>10, Zenon DEF Browser!SpinnerIsNewest
  <2> QED BY <2>1, <2>2
<1>12. v11' \in BOOLEAN
  BY <1>4
<1> QED BY <1>8, <1>9, <1>10, <1>11, <1>12, BrowserWhole DEF LoadsOK

LEMMA BrowserFallBack == ASSUME Browser!Inv, NEW g \in Browser!Gens, Browser!FallBack(g) PROVE Browser!Inv'
<1> USE FilesConstants
<1> DEFINE r == Browser!Request(v9[g].s, v9[g].at, "/home", FALSE)
<1>1. PanelOK /\ LoadsOK /\ v12 \in 0..v10
  BY BrowserHalves
<1>2. /\ v9[g] # None /\ g = v10 /\ v10 + 1 \in Browser!Gens /\ v10' = v10 + 1
      /\ UNCHANGED <<v1, v2, v3, v4, v5, v6, v7, v8, v11, v12, v13, v14, v15, v16>>
  BY DEF Browser!FallBack, Browser!Stale, Browser!viewVars
<1>3. v9' = [Browser!Answer(g) EXCEPT ![v10 + 1] = r]
  BY <1>2 DEF Browser!FallBack
<1>4. v9[g] \in Requests
  BY <1>1, <1>2 DEF LoadsOK
<1>5. r \in Requests
  BY <1>4, HomePath, RequestTyped DEF Requests
<1> HIDE DEF r
<1>6. Browser!Answer(g) \in [Browser!Gens -> {None} \cup Requests]
  BY <1>1 DEF LoadsOK, Browser!Answer
<1>7. v9' \in [Browser!Gens -> {None} \cup Requests] /\ v9'[v10'] = r
  BY <1>2, <1>3, <1>5, <1>6
<1>8. v10' \in 0..MaxLoads + 3 /\ v12' \in 0..v10' /\ v10' > 0 /\ v10 > 0
  BY <1>1, <1>2 DEF LoadsOK, Browser!Gens
<1>9. v11 = TRUE /\ v11 \in BOOLEAN
  BY <1>1, <1>2, <1>8 DEF LoadsOK, Browser!SpinnerIsNewest
<1>10. Browser!SpinnerIsNewest'
  BY <1>2, <1>5, <1>7, <1>8, <1>9, RequestsAreReal, Zenon DEF Browser!SpinnerIsNewest
<1>11. PanelOK'
  BY <1>1, <1>2, PanelStays DEF PanelOK
<1>12. v11' \in BOOLEAN
  BY <1>2, <1>9
<1> QED BY <1>7, <1>8, <1>10, <1>11, <1>12, BrowserWhole DEF LoadsOK

LEMMA BrowserFails == ASSUME Browser!Inv, NEW g \in Browser!Gens, Browser!Fails(g) PROVE Browser!Inv'
<1> USE FilesConstants
<1>1. PanelOK /\ LoadsOK /\ v12 \in 0..v10
  BY BrowserHalves
<1>2. /\ g = v10 /\ v9' = [v9 EXCEPT ![g] = None] /\ v4' \in {v4, None} /\ v8' = [v8 EXCEPT ![v1] = v3]
      /\ UNCHANGED <<v1, v2, v3, v5, v6, v7, v10, v12, v13, v14, v15, v16>>
  BY DEF Browser!Fails, Browser!Stale, Browser!Answer, Browser!Cached
<1>3. v11' = FALSE
  BY DEF Browser!Fails
<1>4. v9' \in [Browser!Gens -> {None} \cup Requests] /\ v9'[v10'] = None
  BY <1>1, <1>2 DEF LoadsOK
<1>5. v10' \in 0..MaxLoads + 3 /\ v12' \in 0..v10'
  BY <1>1, <1>2 DEF LoadsOK
<1>6. Browser!SpinnerIsNewest' /\ v11' \in BOOLEAN
  BY <1>3, <1>4, Zenon DEF Browser!SpinnerIsNewest
<1>7. PanelOK'
  BY <1>1, <1>2, PanelStays DEF PanelOK
<1> QED BY <1>4, <1>5, <1>6, <1>7, BrowserWhole DEF LoadsOK

LEMMA BrowserNext == Browser!Inv /\ [Browser!Next]_(Browser!vars) => Browser!Inv'
<1> SUFFICES ASSUME Browser!Inv, [Browser!Next]_(Browser!vars) PROVE Browser!Inv'
  OBVIOUS
<1>1. CASE UNCHANGED Browser!vars
  BY <1>1 DEF Browser!vars, Browser!viewVars, Browser!loadVars, Browser!Inv, Browser!TypeOK, Browser!SpinnerIsNewest,
     Browser!HistoryPointsAtPath, Browser!ActiveIsCached
<1>2. CASE \E g \in Browser!Gens : Browser!Answers(g)
  BY <1>2, BrowserDropped, BrowserListed, BrowserFallBack, BrowserFails DEF Browser!Answers
<1> QED BY <1>1, <1>2, BrowserSwitch, BrowserConnected, BrowserDisconnected, BrowserCd, BrowserRemount, BrowserToggle,
           BrowserNavigate, BrowserWalk, BrowserRefresh, BrowserSelect, BrowserOperate, BrowserOpDone, BrowserTransferDone
           DEF Browser!Next

(***************************************************************************)
(* Listings go forward                                                     *)
(***************************************************************************)
LEMMA BrowserForward == Browser!Inv /\ Browser!Next => Browser!NeverOlder /\ Browser!SelectionStaysBehind
<1> SUFFICES ASSUME Browser!Inv, Browser!Next PROVE Browser!NeverOlder /\ Browser!SelectionStaysBehind
  OBVIOUS
<1>1. LoadsOK /\ v12 \in 0..v10
  BY BrowserHalves
<1>2. ASSUME NEW g \in Browser!Gens, Browser!Listed(g) PROVE Browser!NeverOlder /\ Browser!SelectionStaysBehind
  <2>1. g = v10 /\ v12' = g
    BY <1>2 DEF Browser!Listed, Browser!Stale
  <2>2. v12' >= v12
    BY <1>1, <2>1, FilesConstants DEF LoadsOK
  <2>3. v3' # v3 => ~v5'
    BY <1>2 DEF Browser!Listed
  <2> QED BY <2>2, <2>3 DEF Browser!NeverOlder, Browser!SelectionStaysBehind
<1>3. ASSUME v12' = v12 PROVE Browser!NeverOlder
  <2>1. v12 \in Int
    BY <1>1, FilesConstants DEF LoadsOK
  <2> QED BY <1>3, <2>1 DEF Browser!NeverOlder
<1>4. CASE \E s \in Sessions : Browser!Switch(s)
  BY <1>3, <1>4 DEF Browser!Switch, Browser!SelectionStaysBehind, Browser!viewVars
<1>5. CASE \E s \in Sessions : Browser!Connected(s) \/ Browser!Disconnected(s) \/ \E p \in Browser!Paths : Browser!Cd(s, p)
  BY <1>3, <1>5 DEF Browser!Connected, Browser!Disconnected, Browser!Cd, Browser!SelectionStaysBehind,
     Browser!viewVars, Browser!loadVars
<1>6. CASE Browser!Remount
  BY <1>3, <1>6 DEF Browser!Remount, Browser!SelectionStaysBehind
<1>7. CASE Browser!ToggleFollow \/ Browser!Refresh \/ Browser!Select
  BY <1>3, <1>7 DEF Browser!ToggleFollow, Browser!Refresh, Browser!Select, Browser!SelectionStaysBehind,
     Browser!viewVars, Browser!loadVars
<1>8. CASE (\E p \in Browser!Paths : Browser!Navigate(p)) \/ Browser!Back \/ Browser!Forward
  BY <1>3, <1>8 DEF Browser!Navigate, Browser!Back, Browser!Forward, Browser!GoTo, Browser!SelectionStaysBehind
<1>9. CASE Browser!Operate \/ Browser!OpDone \/ Browser!OpFails \/ Browser!TransferDone
  BY <1>3, <1>9 DEF Browser!Operate, Browser!OpDone, Browser!OpFails, Browser!TransferDone, Browser!SelectionStaysBehind,
     Browser!viewVars, Browser!loadVars
<1>10. CASE \E g \in Browser!Gens : Browser!Dropped(g) \/ Browser!FallBack(g) \/ Browser!Fails(g)
  BY <1>3, <1>10 DEF Browser!Dropped, Browser!FallBack, Browser!Fails, Browser!SelectionStaysBehind, Browser!viewVars
<1> QED BY <1>2, <1>4, <1>5, <1>6, <1>7, <1>8, <1>9, <1>10 DEF Browser!Next, Browser!Answers

LEMMA FtpForward == Ftp!Inv /\ Ftp!Next => Ftp!SelectionBelongsToListing
<1> SUFFICES ASSUME Ftp!Inv, Ftp!Next PROVE Ftp!SelectionBelongsToListing
  OBVIOUS
<1>1. v2 \in [FtpPanels -> Ftp!Paths] /\ v4 \in [FtpPanels -> BOOLEAN]
  BY DEF Ftp!Inv, Ftp!TypeOK, Ftp!PanelsOK
<1>2. CASE v2' = v2
  BY <1>2 DEF Ftp!SelectionBelongsToListing
<1>3. ASSUME NEW p \in FtpPanels, NEW at \in Ftp!Paths, Ftp!Loaded(p, at) PROVE Ftp!SelectionBelongsToListing
  <2>1. v4' = [v4 EXCEPT ![p] = FALSE] /\ v2' = [v2 EXCEPT ![p] = at]
    BY <1>3 DEF Ftp!Loaded
  <2> QED BY <1>1, <2>1 DEF Ftp!SelectionBelongsToListing
<1>4. CASE Ftp!Disconnect \/ Ftp!Connected
  BY <1>4 DEF Ftp!Disconnect, Ftp!Connected, Ftp!NewPanels, Ftp!SelectionBelongsToListing
<1>5. CASE Ftp!Panel
  <2>1. ASSUME NEW p \in FtpPanels, Ftp!Select(p) \/ Ftp!Start(p) \/ Ftp!Transfer(p) PROVE v2' = v2
    BY <2>1 DEF Ftp!Select, Ftp!Start, Ftp!Transfer, Ftp!panelVars
  <2>2. ASSUME NEW p \in FtpPanels, NEW at \in Ftp!Paths, Ftp!Navigate(p, at) \/ Ftp!LoadFails(p, at) PROVE v2' = v2
    BY <2>2 DEF Ftp!Navigate, Ftp!LoadFails, Ftp!Load
  <2> QED BY <1>2, <1>3, <1>5, <2>1, <2>2 DEF Ftp!Panel
<1>6. CASE Ftp!Queue
  <2>1. ASSUME NEW i, Ftp!Cancel(i) \/ Ftp!Retry(i) PROVE v2' = v2
    BY <2>1 DEF Ftp!Cancel, Ftp!Retry, Ftp!panelVars
  <2>2. ASSUME NEW f, Ftp!Completes(f) \/ Ftp!Fails(f) \/ Ftp!Ignored(f) PROVE v2' = v2
    BY <2>2 DEF Ftp!Completes, Ftp!Fails, Ftp!Ignored, Ftp!panelVars, Ftp!Load
  <2>3. ASSUME Ftp!Clear \/ Ftp!Effects PROVE v2' = v2
    BY <2>3 DEF Ftp!Clear, Ftp!Effects, Ftp!panelVars
  <2> QED BY <1>2, <1>6, <2>1, <2>2, <2>3 DEF Ftp!Queue
<1>7. CASE Ftp!OpDone \/ Ftp!OpFails \/ Ftp!Dropped \/ Ftp!Connecting
  BY <1>2, <1>7 DEF Ftp!OpDone, Ftp!OpFails, Ftp!Dropped, Ftp!Connecting, Ftp!panelVars, Ftp!Load
<1> QED BY <1>4, <1>5, <1>6, <1>7 DEF Ftp!Next

(***************************************************************************)
(* Drops and uploads                                                       *)
(***************************************************************************)
LEMMA EmptyMap == ASSUME NEW S, NEW T PROVE <<>> \in Upload!PartialMaps(S, T)
<1>1. <<>> \in [{} -> T]
  OBVIOUS
<1> QED BY <1>1 DEF Upload!PartialMaps

LEMMA MapExtended ==
  ASSUME NEW S, NEW T, NEW f \in Upload!PartialMaps(S, T), NEW p \in S, NEW t \in T,
         NEW g, g = [q \in {p} \cup DOMAIN f |-> IF q = p THEN t ELSE f[q]]
  PROVE  g \in Upload!PartialMaps(S, T) /\ DOMAIN f \subseteq S
<1>1. PICK P \in SUBSET S : f \in [P -> T]
  BY DEF Upload!PartialMaps
<1>2. g \in [{p} \cup P -> T] /\ {p} \cup P \in SUBSET S
  BY <1>1
<1> QED BY <1>1, <1>2 DEF Upload!PartialMaps

(* The same plan, of a run on its own. *)
PlanDirs(run) ==
  {d \in Seq(STRING) : \E p \in Upload!Folders(run) :
     \/ d = Upload!Root(p, run.target)
     \/ \E e \in run.entries[p].dirs : d = Upload!Root(p, run.target) \o e}
IsPlanned(r, run, q) ==
  \/ \E p \in Upload!Folders(run) : \E f \in run.entries[p].files : q = Upload!Item(r, p, f, run.target)
  \/ \E p \in Upload!Files(run) : q = Upload!Item(r, p, <<>>, run.target)
LEMMA UploadInit == Upload!Init => Upload!Inv
<1> SUFFICES ASSUME Upload!Init PROVE Upload!Inv
  OBVIOUS
<1> USE FilesConstants DEF Upload!Init
<1>1. \A r \in Upload!Ids : v4[r] = Upload!Idle
  OBVIOUS
<1>2. Upload!Idle \in Upload!Runs
  <2>1. <<>> \in Seq(STRING)
    OBVIOUS
  <2> QED BY <2>1, EmptyMap DEF Upload!Idle, Upload!Runs
<1>3. Upload!TypeOK
  BY <1>2 DEF Upload!TypeOK
<1>4. Upload!FoldersBeforeFiles /\ Upload!DropGoesWhereItFell
  BY <1>1 DEF Upload!FoldersBeforeFiles, Upload!DropGoesWhereItFell, Upload!InPhase, Upload!Idle
<1>5. Upload!PhasesAreBacked
  BY <1>1 DEF Upload!PhasesAreBacked, Upload!Idle
<1> QED BY <1>3, <1>4, <1>5 DEF Upload!Inv

(* The names of a remote path: its front, and the directories it lies below. *)
LEMMA PathFront ==
  ASSUME NEW a \in Seq(STRING), NEW f \in Seq(STRING), f # <<>>
  PROVE  Upload!Front(a \o f) = a \o Upload!Front(f) /\ Upload!Front(f) \in Seq(STRING)
<1>1. Len(f) \in Nat \ {0} /\ Len(a) \in Nat
  BY EmptySeq
<1>2. a \o f \in Seq(STRING) /\ Len(a \o f) = Len(a) + Len(f)
  OBVIOUS
<1>3. PICK n : n = Len(f) - 1
  OBVIOUS
<1>4. PICK g : g = SubSeq(f, 1, n)
  OBVIOUS
<1>5. PICK c, k, h : c = a \o f /\ k = Len(a) + n /\ h = SubSeq(c, 1, k)
  OBVIOUS
<1>6. g \in Seq(STRING) /\ Len(g) = n /\ \A i \in 1 .. n : g[i] = f[i]
  <2>1. \A i \in 1 .. n : f[i] \in STRING
    BY <1>1, <1>3
  <2>2. n \in Nat
    BY <1>1, <1>3
  <2> QED BY <1>4, <2>1, <2>2, SubSeqProperties
<1>7. h \in Seq(STRING) /\ Len(h) = k /\ \A i \in 1 .. k : h[i] = c[i]
  <2>1. k \in Nat /\ Len(c) = k + 1 /\ c \in Seq(STRING)
    BY <1>1, <1>2, <1>3, <1>5
  <2>2. \A i \in 1 .. k : c[i] \in STRING
    BY <2>1
  <2> QED BY <1>5, <2>1, <2>2, SubSeqProperties
<1>8. h = a \o g
  <2>1. a \o g \in Seq(STRING) /\ Len(a \o g) = Len(h)
    BY <1>5, <1>6, <1>7
  <2>2. \A i \in 1 .. k : c[i] = IF i <= Len(a) THEN a[i] ELSE f[i - Len(a)]
    BY <1>1, <1>3, <1>5, ConcatProperties
  <2>3. \A i \in 1 .. k : (a \o g)[i] = IF i <= Len(a) THEN a[i] ELSE g[i - Len(a)]
    BY <1>5, <1>6, ConcatProperties
  <2>4. \A i \in 1 .. k : i <= Len(a) \/ i - Len(a) \in 1 .. n
    BY <1>1, <1>3, <1>5
  <2>5. \A i \in 1 .. Len(h) : h[i] = (a \o g)[i]
    BY <1>6, <1>7, <2>2, <2>3, <2>4
  <2> QED BY <1>7, <2>1, <2>5, SeqEqual
<1>9. Upload!Front(a \o f) = h /\ Upload!Front(f) = g
  <2>1. Len(c) - 1 = k
    BY <1>1, <1>2, <1>3, <1>5
  <2> QED BY <1>3, <1>4, <1>5, <2>1 DEF Upload!Front
<1> QED BY <1>6, <1>8, <1>9

LEMMA PathBelow ==
  ASSUME NEW a \in Seq(STRING), NEW f \in Seq(STRING)
  PROVE  Upload!IsPrefix(a, a \o f)
<1>1. Len(a) \in Nat /\ Len(f) \in Nat /\ a \o f \in Seq(STRING) /\ Len(a \o f) = Len(a) + Len(f)
  OBVIOUS
<1>2. PICK g : g = SubSeq(a \o f, 1, Len(a))
  OBVIOUS
<1>3. g \in Seq(STRING) /\ Len(g) = Len(a) /\ \A i \in 1 .. Len(a) : g[i] = (a \o f)[i]
  <2>1. \A i \in 1 .. Len(a) : (a \o f)[i] \in STRING
    BY <1>1, SMTT(20)
  <2> QED BY <1>1, <1>2, <2>1, SubSeqProperties
<1>4. g = a
  <2>1. \A i \in 1 .. Len(a) : g[i] = a[i]
    BY <1>1, <1>3, SMTT(20)
  <2> QED BY <1>3, <2>1, SeqEqual
<1>5. SubSeq(a, 1, Len(a)) = a
  BY SubSeqFull
<1>6. Len(a) <= Len(a \o f)
  BY <1>1
<1> QED BY <1>2, <1>4, <1>5, <1>6 DEF Upload!IsPrefix

LEMMA PathMade ==
  ASSUME NEW d \in Seq(STRING), d # <<>> PROVE d \in {SubSeq(d, 1, n) : n \in 1 .. Len(d)}
<1>1. Len(d) \in 1 .. Len(d)
  BY EmptySeq
<1>2. SubSeq(d, 1, Len(d)) = d
  BY SubSeqFull
<1> QED BY <1>1, <1>2

(* The remote directory of a dropped folder, and what goes into it. *)
LEMMA UploadRoot ==
  ASSUME NEW p \in Local, NEW target \in Seq(STRING)
  PROVE  /\ Upload!Root(p, target) \in Seq(STRING) \ {<<>>} /\ Upload!Front(Upload!Root(p, target)) = target
         /\ \A f \in Seq(STRING) : Upload!Root(p, target) \o f \in Seq(STRING) \ {<<>>}
         /\ \A f \in Seq(STRING) : Upload!IsPrefix(target, Upload!Root(p, target) \o f)
<1>1. PICK s \in Seq(STRING) : s = <<Tree[p].name>>
  <2>1. Tree[p].name \in STRING
    BY FilesConstants
  <2>2. <<Tree[p].name>> \in Seq(STRING)
    BY <2>1
  <2> QED BY <2>2, Zenon
<1>2. s # <<>> /\ Len(s) = 1
  BY <1>1
<1>3. PICK root : root = Upload!Root(p, target)
  OBVIOUS
<1>4. root = target \o s
  BY <1>1, <1>3 DEF Upload!Root, Upload!joinRemotePath
<1>5. root \in Seq(STRING) /\ root # <<>>
  <2>1. root \in Seq(STRING) /\ Len(root) = Len(target) + Len(s)
    BY <1>4, ConcatProperties
  <2>2. Len(root) # 0
    BY <1>2, <2>1, LenProperties
  <2> QED BY <2>1, <2>2, EmptySeq
<1>6. Upload!Front(root) = target
  <2>1. Upload!Front(s) = <<>>
    <3>1. Len(s) - 1 = 0
      BY <1>2
    <3>2. SubSeq(s, 1, 0) = <<>>
      BY SubSeqEmpty
    <3> QED BY <3>1, <3>2 DEF Upload!Front
  <2>2. Upload!Front(root) = target \o <<>>
    BY <1>2, <1>4, <2>1, PathFront
  <2> QED BY <2>2, ConcatEmptySeq
<1>7. ASSUME NEW f \in Seq(STRING) PROVE root \o f \in Seq(STRING) \ {<<>>} /\ Upload!IsPrefix(target, root \o f)
  <2>1. root \o f = target \o (s \o f) /\ s \o f \in Seq(STRING)
    BY <1>4, ConcatAssociative, ConcatProperties
  <2>2. Upload!IsPrefix(target, root \o f)
    BY <2>1, PathBelow
  <2>3. root \o f \in Seq(STRING) /\ root \o f # <<>>
    <3>1. root \o f \in Seq(STRING) /\ Len(root \o f) = Len(root) + Len(f) /\ Len(f) \in Nat
      BY <1>5
    <3>2. Len(root) \in Nat \ {0}
      BY <1>5, EmptySeq
    <3>3. Len(root \o f) # 0
      BY <3>1, <3>2
    <3> QED BY <3>1, <3>3, EmptySeq
  <2> QED BY <2>2, <2>3
<1> QED BY <1>3, <1>5, <1>6, <1>7

Listed(run) ==
  /\ Upload!Folders(run) \subseteq DOMAIN run.entries
  /\ \A p \in DOMAIN run.entries : run.entries[p] \in {Upload!NoEntries, Upload!Entries(p)}

LEMMA UploadEntries ==
  ASSUME NEW run \in Upload!Runs, Listed(run), NEW p \in Upload!Folders(run)
  PROVE  /\ p \in Local /\ run.entries[p].dirs \subseteq Seq(STRING) /\ run.entries[p].files \subseteq Seq(STRING)
         /\ \A f \in run.entries[p].files : f # <<>> /\ Upload!Front(f) \in {<<>>} \cup run.entries[p].dirs
<1>1. p \in Local
  BY DEF Upload!Folders, Upload!Runs
<1>2. run.entries[p] = Upload!NoEntries \/ run.entries[p] = Upload!Entries(p)
  BY DEF Listed
<1>3. CASE run.entries[p] = Upload!NoEntries
  BY <1>1, <1>3 DEF Upload!NoEntries
<1>4. CASE run.entries[p] = Upload!Entries(p)
  <2>1. run.entries[p].dirs = Tree[p].dirs /\ run.entries[p].files = Tree[p].files
    BY <1>4 DEF Upload!Entries
  <2>2. /\ Tree[p].dirs \subseteq Seq(STRING) /\ Tree[p].files \subseteq Seq(STRING)
        /\ \A f \in Tree[p].files : f # <<>> /\ SubSeq(f, 1, Len(f) - 1) \in {<<>>} \cup Tree[p].dirs
    BY <1>1, FilesConstants
  <2> QED BY <1>1, <2>1, <2>2 DEF Upload!Front
<1> QED BY <1>2, <1>3, <1>4

(* The plan of a run makes every directory its transfers go into. *)
LEMMA UploadPlanned ==
  ASSUME NEW r \in Upload!Ids, v4[r] \in Upload!Runs, Listed(v4[r])
  PROVE  /\ Upload!Plan(r).directories = PlanDirs(v4[r]) /\ PlanDirs(v4[r]) \subseteq Seq(STRING) \ {<<>>}
         /\ \A q : q \in Upload!Plan(r).items <=> IsPlanned(r, v4[r], q)
<1> DEFINE run == v4[r]
           root(p) == Upload!Root(p, run.target)
           dirs(p) == {root(p)} \cup {root(p) \o e : e \in run.entries[p].dirs}
           items(p) == {Upload!Item(r, p, f, run.target) : f \in run.entries[p].files}
<1>1. run.target \in Seq(STRING)
  BY DEF Upload!Runs
<1>2. ASSUME NEW p \in Upload!Folders(run) PROVE p \in Local /\ dirs(p) \subseteq Seq(STRING) \ {<<>>}
  <2>1. p \in Local /\ run.entries[p].dirs \subseteq Seq(STRING)
    BY UploadEntries
  <2>2. root(p) \in Seq(STRING) \ {<<>>} /\ \A e \in Seq(STRING) : root(p) \o e \in Seq(STRING) \ {<<>>}
    BY <1>1, <2>1, UploadRoot
  <2> QED BY <2>1, <2>2
<1>3. /\ \A d : d \in Upload!Plan(r).directories <=> \E p \in Upload!Folders(run) : d \in dirs(p)
      /\ \A q : q \in Upload!Plan(r).items <=> \/ \E p \in Upload!Folders(run) : q \in items(p)
                                               \/ \E p \in Upload!Files(run) : q = Upload!Item(r, p, <<>>, run.target)
  <2> DEFINE plan(p) == Upload!buildDirectoryUploadPlan(r, p, run.target, run.entries[p])
             plans == {plan(p) : p \in Upload!Folders(run)}
             single == {Upload!Item(r, p, <<>>, run.target) : p \in Upload!Files(run)}
  <2>1. /\ Upload!Plan(r).directories = UNION {x.directories : x \in plans}
        /\ Upload!Plan(r).items = (UNION {x.items : x \in plans}) \cup single
    BY DEF Upload!Plan, Upload!buildMixedDropUploadPlan, Upload!Target, Upload!buildFileUploadItems
  <2>2. \A p : plan(p).directories = dirs(p) /\ plan(p).items = items(p)
    BY DEF Upload!buildDirectoryUploadPlan, Upload!joinRemotePath
  <2> HIDE DEF plan, dirs, items
  <2>3. \A d : d \in UNION {x.directories : x \in plans} <=> \E p \in Upload!Folders(run) : d \in plan(p).directories
    BY Zenon
  <2>4. \A q : q \in UNION {x.items : x \in plans} <=> \E p \in Upload!Folders(run) : q \in plan(p).items
    BY Zenon
  <2>5. \A q : q \in single <=> \E p \in Upload!Files(run) : q = Upload!Item(r, p, <<>>, run.target)
    BY Zenon
  <2>6. \A d : (\E p \in Upload!Folders(run) : d \in plan(p).directories) <=> \E p \in Upload!Folders(run) : d \in dirs(p)
    BY <2>2
  <2>7. \A q : (\E p \in Upload!Folders(run) : q \in plan(p).items) <=> \E p \in Upload!Folders(run) : q \in items(p)
    BY <2>2
  <2>8. \A d : d \in Upload!Plan(r).directories <=> \E p \in Upload!Folders(run) : d \in dirs(p)
    BY <2>1, <2>3, <2>6, Zenon
  <2>9. \A q : q \in Upload!Plan(r).items <=> q \in (UNION {x.items : x \in plans}) \/ q \in single
    <3> SUFFICES ASSUME NEW q PROVE q \in Upload!Plan(r).items <=> q \in (UNION {x.items : x \in plans}) \/ q \in single
      OBVIOUS
    <3>1. Upload!Plan(r).items = (UNION {x.items : x \in plans}) \cup single
      BY <2>1
    <3> HIDE DEF plans, single
    <3> QED BY <3>1, Zenon
  <2> QED BY <2>4, <2>5, <2>7, <2>8, <2>9, Zenon
<1>4. \A d : d \in PlanDirs(run) <=> \E p \in Upload!Folders(run) : d \in dirs(p)
  BY <1>2 DEF PlanDirs
<1>5. Upload!Plan(r).directories = PlanDirs(run)
  <2>1. Upload!Plan(r).directories = UNION {x.directories : x \in
           {Upload!buildDirectoryUploadPlan(r, p, run.target, run.entries[p]) : p \in Upload!Folders(run)}}
    BY DEF Upload!Plan, Upload!buildMixedDropUploadPlan, Upload!Target
  <2> HIDE DEF dirs
  <2> QED BY <1>3, <1>4, <2>1
<1>6. PlanDirs(run) \subseteq Seq(STRING) \ {<<>>}
  BY <1>2, <1>4
<1>7. \A q : q \in Upload!Plan(r).items <=> IsPlanned(r, run, q)
  BY <1>3, Zenon DEF IsPlanned
<1> QED BY <1>5, <1>6, <1>7

LEMMA UploadItems ==
  ASSUME NEW r \in Upload!Ids, NEW run \in Upload!Runs, Listed(run), NEW q, IsPlanned(r, run, q)
  PROVE  /\ q.run = r /\ Upload!IsPrefix(run.target, q.destination)
         /\ Upload!Front(q.destination) \in {run.target} \cup PlanDirs(run)
<1>1. run.target \in Seq(STRING)
  BY DEF Upload!Runs
<1>2. ASSUME NEW p \in Upload!Folders(run), NEW f \in run.entries[p].files, q = Upload!Item(r, p, f, run.target)
      PROVE  /\ q.run = r /\ Upload!IsPrefix(run.target, q.destination)
             /\ Upload!Front(q.destination) \in {run.target} \cup PlanDirs(run)
  <2>1. PICK root : root = Upload!Root(p, run.target)
    OBVIOUS
  <2>2. q.run = r /\ q.destination = root \o f
    BY <1>2, <2>1 DEF Upload!Item, Upload!joinRemotePath
  <2>3. p \in Local /\ f \in Seq(STRING) /\ f # <<>> /\ Upload!Front(f) \in {<<>>} \cup run.entries[p].dirs
        /\ run.entries[p].dirs \subseteq Seq(STRING)
    BY UploadEntries
  <2>4. root \in Seq(STRING) /\ Upload!IsPrefix(run.target, root \o f)
    BY <1>1, <2>1, <2>3, UploadRoot
  <2>5. Upload!Front(root \o f) = root \o Upload!Front(f)
    BY <2>3, <2>4, PathFront
  <2>6. Upload!Front(f) = <<>> => root \o Upload!Front(f) = root
    BY <2>4, ConcatEmptySeq
  <2>7. root \in PlanDirs(run)
    BY <2>1, <2>4 DEF PlanDirs
  <2>8. ASSUME NEW e \in run.entries[p].dirs PROVE root \o e \in PlanDirs(run)
    <3>1. root \o e \in Seq(STRING)
      BY <2>3, <2>4
    <3> QED BY <2>1, <3>1 DEF PlanDirs
  <2> QED BY <2>2, <2>3, <2>4, <2>5, <2>6, <2>7, <2>8
<1>3. ASSUME NEW p \in Upload!Files(run), q = Upload!Item(r, p, <<>>, run.target)
      PROVE  /\ q.run = r /\ Upload!IsPrefix(run.target, q.destination)
             /\ Upload!Front(q.destination) \in {run.target} \cup PlanDirs(run)
  <2>1. PICK root : root = Upload!Root(p, run.target)
    OBVIOUS
  <2>2. q.run = r /\ q.destination = root \o <<>>
    BY <1>3, <2>1 DEF Upload!Item, Upload!joinRemotePath
  <2>3. p \in Local
    BY DEF Upload!Files, Upload!Runs
  <2>4. <<>> \in Seq(STRING)
    OBVIOUS
  <2>5. root \in Seq(STRING) /\ Upload!Front(root) = run.target /\ Upload!IsPrefix(run.target, root \o <<>>)
    BY <1>1, <2>1, <2>3, <2>4, UploadRoot
  <2>6. root \o <<>> = root
    BY <2>5, ConcatEmptySeq
  <2> QED BY <2>2, <2>5, <2>6
<1> QED BY <1>2, <1>3 DEF IsPlanned

(* The invariant, told run by run. *)
RunBacked(run) ==
  /\ run.phase # "none" => run.target \in Shows
  /\ run.phase \in {"list", "mkdir", "done"} => DOMAIN run.stats = run.paths
  /\ run.phase \in {"mkdir", "done"} => Upload!Folders(run) \subseteq DOMAIN run.entries
  /\ \A p \in DOMAIN run.entries : run.entries[p] \in {Upload!NoEntries, Upload!Entries(p)}
RunsBacked ==
  /\ \A r \in Upload!Ids : RunBacked(v4[r])
  /\ \A r \in Upload!Ids : v4[r].phase = "mkdir" => PlanDirs(v4[r]) \subseteq v4[r].todo \cup v3 \cup v4[r].errors
  /\ \A q \in v5 : v4[q.run].phase = "done"

LEMMA UploadBacked == Upload!TypeOK => (Upload!PhasesAreBacked <=> RunsBacked)
<1> SUFFICES ASSUME Upload!TypeOK PROVE Upload!PhasesAreBacked <=> RunsBacked
  OBVIOUS
<1>1. ASSUME NEW r \in Upload!Ids, RunBacked(v4[r]), v4[r].phase = "mkdir"
      PROVE  Upload!Plan(r).directories = PlanDirs(v4[r])
  <2>1. v4[r] \in Upload!Runs
    BY DEF Upload!TypeOK
  <2>2. Listed(v4[r])
    BY <1>1 DEF RunBacked, Listed
  <2> QED BY <2>1, <2>2, UploadPlanned
<1>2. Upload!PhasesAreBacked <=>
        /\ \A r \in Upload!Ids : /\ RunBacked(v4[r])
                                 /\ v4[r].phase = "mkdir" => Upload!Plan(r).directories \subseteq v4[r].todo \cup v3 \cup v4[r].errors
        /\ \A q \in v5 : v4[q.run].phase = "done"
  BY Zenon DEF Upload!PhasesAreBacked, RunBacked, Upload!InPhase
<1> QED BY <1>1, <1>2 DEF RunsBacked

LEMMA UploadParts ==
  Upload!Inv <=> Upload!TypeOK /\ Upload!FoldersBeforeFiles /\ Upload!DropGoesWhereItFell /\ RunsBacked
BY UploadBacked DEF Upload!Inv

(* A step of one run that queues nothing. *)
LEMMA UploadStep ==
  ASSUME Upload!Inv, NEW r \in Upload!Ids, v4' \in [Upload!Ids -> Upload!Runs],
         \A x \in Upload!Ids : x # r => v4'[x] = v4[x], v4[r].phase # "done", v4'[r].phase # "done",
         RunBacked(v4'[r]),
         v4'[r].phase = "mkdir" => PlanDirs(v4'[r]) \subseteq v4'[r].todo \cup v3' \cup v4'[r].errors,
         v3 \subseteq v3', UNCHANGED <<v1, v2, v5>>
  PROVE  Upload!Inv'
<1>1. Upload!TypeOK /\ Upload!FoldersBeforeFiles /\ Upload!DropGoesWhereItFell /\ RunsBacked
  BY UploadParts
<1>2. \A q \in v5 : q.run \in Upload!Ids /\ q.run # r /\ v4'[q.run] = v4[q.run]
  BY <1>1 DEF RunsBacked, Upload!TypeOK
<1>3. Upload!TypeOK'
  BY <1>1 DEF Upload!TypeOK
<1>4. Upload!FoldersBeforeFiles'
  BY <1>1, <1>2 DEF Upload!FoldersBeforeFiles
<1>5. Upload!DropGoesWhereItFell'
  <2> SUFFICES ASSUME NEW x \in Upload!Ids, v4'[x].phase = "done"
               PROVE  /\ \A p \in Upload!Files(v4'[x]) : Upload!Item(x, p, <<>>, v4'[x].target) \in v5
                      /\ \A p \in Upload!Folders(v4'[x]) : \A f \in v4'[x].entries[p].files : Upload!Item(x, p, f, v4'[x].target) \in v5
                      /\ \A q \in v5 : q.run = x => Upload!IsPrefix(v4'[x].target, q.destination)
    BY Zenon DEF Upload!DropGoesWhereItFell, Upload!InPhase
  <2>1. x # r /\ v4'[x] = v4[x]
    OBVIOUS
  <2>2. v4[x].phase = "done"
    BY <2>1
  <2> QED BY <1>1, <2>1, <2>2, Zenon DEF Upload!DropGoesWhereItFell, Upload!InPhase
<1>6. RunsBacked'
  <2>1. \A x \in Upload!Ids : RunBacked(v4'[x])
    BY <1>1, Zenon DEF RunsBacked
  <2>2. \A x \in Upload!Ids : v4'[x].phase = "mkdir" => PlanDirs(v4'[x]) \subseteq v4'[x].todo \cup v3' \cup v4'[x].errors
    BY <1>1 DEF RunsBacked
  <2>3. \A q \in v5' : v4'[q.run].phase = "done"
    BY <1>1, <1>2 DEF RunsBacked
  <2> QED BY <2>1, <2>2, <2>3, Zenon DEF RunsBacked
<1> QED BY <1>3, <1>4, <1>5, <1>6, UploadParts, PTL

(* The step that queues what run r has planned. *)
LEMMA UploadQueued ==
  ASSUME Upload!Inv, NEW r \in Upload!Ids, v4' \in [Upload!Ids -> Upload!Runs],
         \A x \in Upload!Ids : x # r => v4'[x] = v4[x], v4[r].phase # "done", v4'[r].phase = "done",
         RunBacked(v4'[r]),
         v4'[r].errors # {} \/ PlanDirs(v4'[r]) \subseteq v3,
         NEW new, v5' = v5 \cup new, \A q : q \in new <=> IsPlanned(r, v4'[r], q), UNCHANGED <<v1, v2, v3>>
  PROVE  Upload!Inv'
<1>1. Upload!TypeOK /\ Upload!FoldersBeforeFiles /\ Upload!DropGoesWhereItFell /\ RunsBacked
  BY UploadParts
<1>2. \A q \in v5 : q.run \in Upload!Ids /\ q.run # r /\ v4'[q.run] = v4[q.run]
  BY <1>1 DEF RunsBacked, Upload!TypeOK
<1>3. PICK run \in Upload!Runs : run = v4'[r]
  OBVIOUS
<1>4. Listed(run) /\ run.target \in Shows
  BY <1>3 DEF RunBacked, Listed
<1>5. \A q \in new : /\ q.run = r /\ Upload!IsPrefix(run.target, q.destination)
                     /\ Upload!Front(q.destination) \in {run.target} \cup PlanDirs(run)
  BY <1>3, <1>4, UploadItems
<1>6. Upload!TypeOK'
  BY <1>1, <1>5 DEF Upload!TypeOK
<1>7. Upload!FoldersBeforeFiles'
  <2> SUFFICES ASSUME NEW q \in v5' PROVE Upload!Front(q.destination) \in v3 \/ v4'[q.run].errors # {}
    BY DEF Upload!FoldersBeforeFiles
  <2>1. CASE q \in v5
    BY <1>1, <1>2, <2>1 DEF Upload!FoldersBeforeFiles
  <2>2. CASE q \in new
    BY <1>1, <1>3, <1>4, <1>5, <2>2 DEF Upload!TypeOK
  <2> QED BY <2>1, <2>2
<1>8. Upload!DropGoesWhereItFell'
  <2> SUFFICES ASSUME NEW x \in Upload!Ids, v4'[x].phase = "done"
               PROVE  /\ \A p \in Upload!Files(v4'[x]) : Upload!Item(x, p, <<>>, v4'[x].target) \in v5'
                      /\ \A p \in Upload!Folders(v4'[x]) : \A f \in v4'[x].entries[p].files : Upload!Item(x, p, f, v4'[x].target) \in v5'
                      /\ \A q \in v5' : q.run = x => Upload!IsPrefix(v4'[x].target, q.destination)
    BY Zenon DEF Upload!DropGoesWhereItFell, Upload!InPhase
  <2>1. CASE x # r
    <3>1. v4'[x] = v4[x] /\ v4[x].phase = "done"
      BY <2>1
    <3>2. /\ \A p \in Upload!Files(v4[x]) : Upload!Item(x, p, <<>>, v4[x].target) \in v5
          /\ \A p \in Upload!Folders(v4[x]) : \A f \in v4[x].entries[p].files : Upload!Item(x, p, f, v4[x].target) \in v5
          /\ \A q \in v5 : q.run = x => Upload!IsPrefix(v4[x].target, q.destination)
      BY <1>1, <3>1, Zenon DEF Upload!DropGoesWhereItFell, Upload!InPhase
    <3> QED BY <1>5, <2>1, <3>1, <3>2
  <2>2. CASE x = r
    <3>1. \A p \in Upload!Files(run) : Upload!Item(r, p, <<>>, run.target) \in new
      BY <1>3 DEF IsPlanned
    <3>2. \A p \in Upload!Folders(run) : \A f \in run.entries[p].files : Upload!Item(r, p, f, run.target) \in new
      BY <1>3 DEF IsPlanned
    <3>3. \A q \in v5' : q.run = r => Upload!IsPrefix(run.target, q.destination)
      BY <1>2, <1>5
    <3> QED BY <1>3, <2>2, <3>1, <3>2, <3>3
  <2> QED BY <2>1, <2>2
<1>9. RunsBacked'
  <2>1. \A x \in Upload!Ids : RunBacked(v4'[x])
    BY <1>1, Zenon DEF RunsBacked
  <2>2. \A x \in Upload!Ids : v4'[x].phase = "mkdir" => PlanDirs(v4'[x]) \subseteq v4'[x].todo \cup v3' \cup v4'[x].errors
    BY <1>1 DEF RunsBacked
  <2>3. \A q \in v5' : v4'[q.run].phase = "done"
    BY <1>1, <1>2, <1>5 DEF RunsBacked
  <2> QED BY <2>1, <2>2, <2>3, Zenon DEF RunsBacked
<1> QED BY <1>6, <1>7, <1>8, <1>9, UploadParts, PTL

(* A run that begins, of a drop or of the dialog. *)
LEMMA UploadBegins ==
  ASSUME Upload!Inv, NEW r \in Upload!Ids, v4[r].phase = "none", NEW run \in Upload!Runs, run.phase \in {"stat", "dialog"},
         run.target = v1, run.entries = <<>>, v4' = [v4 EXCEPT ![r] = run], UNCHANGED <<v1, v2, v3, v5>>
  PROVE  Upload!Inv'
<1>1. Upload!TypeOK
  BY UploadParts
<1>2. v4' \in [Upload!Ids -> Upload!Runs] /\ v4'[r] = run /\ \A x \in Upload!Ids : x # r => v4'[x] = v4[x]
  BY <1>1 DEF Upload!TypeOK
<1>3. RunBacked(run)
  BY <1>1 DEF RunBacked, Upload!TypeOK
<1> QED BY <1>2, <1>3, UploadStep

LEMMA UploadFresh ==
  ASSUME Upload!Inv
  PROVE  /\ <<>> \in Upload!PartialMaps(Local, {"missing", "folder", "file"})
         /\ <<>> \in Upload!PartialMaps(Local, {Upload!NoEntries} \cup {Upload!Entries(p) : p \in Local})
         /\ v1 \in Seq(STRING)
BY EmptyMap, FilesConstants DEF Upload!Inv, Upload!TypeOK

LEMMA UploadDropped ==
  ASSUME Upload!Inv, NEW r \in Upload!Ids, NEW paths \in SUBSET Local, Upload!handleOsFilesDropped(r, paths)
  PROVE  Upload!Inv'
<1>1. PICK run : run = [Upload!Idle EXCEPT !.phase = "stat", !.target = v1, !.paths = paths]
  OBVIOUS
<1>2. run \in Upload!Runs /\ run.phase = "stat" /\ run.target = v1 /\ run.entries = <<>>
  BY <1>1, UploadFresh DEF Upload!Idle, Upload!Runs
<1> QED BY <1>1, <1>2, UploadBegins DEF Upload!handleOsFilesDropped, Upload!InPhase

LEMMA UploadDialog == ASSUME Upload!Inv, NEW r \in Upload!Ids, Upload!handleUpload(r) PROVE Upload!Inv'
<1>1. PICK run : run = [Upload!Idle EXCEPT !.phase = "dialog", !.target = v1]
  OBVIOUS
<1>2. run \in Upload!Runs /\ run.phase = "dialog" /\ run.target = v1 /\ run.entries = <<>>
  BY <1>1, UploadFresh DEF Upload!Idle, Upload!Runs
<1> QED BY <1>1, <1>2, UploadBegins DEF Upload!handleUpload, Upload!InPhase

LEMMA UploadStat ==
  ASSUME Upload!Inv, NEW r \in Upload!Ids, NEW p \in Local, Upload!stat_local_path(r, p) PROVE Upload!Inv'
<1>1. Upload!TypeOK /\ RunsBacked /\ v4 \in [Upload!Ids -> Upload!Runs] /\ v4[r] \in Upload!Runs /\ RunBacked(v4[r])
  BY UploadParts DEF Upload!TypeOK, RunsBacked
<1>2. PICK kind \in {"missing", "folder", "file"} : kind = IF p \in v2 THEN "missing" ELSE IF Tree[p].folder THEN "folder" ELSE "file"
  OBVIOUS
<1>3. PICK stats : stats = [q \in {p} \cup DOMAIN v4[r].stats |-> IF q = p THEN kind ELSE v4[r].stats[q]]
  OBVIOUS
<1>4. PICK phase \in {"stat", "list"} : phase = IF DOMAIN stats = v4[r].paths THEN "list" ELSE "stat"
  OBVIOUS
<1>5. v4[r].phase = "stat" /\ v4' = [v4 EXCEPT ![r] = [v4[r] EXCEPT !.stats = stats, !.phase = phase]] /\ UNCHANGED <<v1, v2, v3, v5>>
  BY <1>1, <1>2, <1>3, <1>4 DEF Upload!stat_local_path, Upload!InPhase
<1>6. stats \in Upload!PartialMaps(Local, {"missing", "folder", "file"})
  <2>1. PICK f \in Upload!PartialMaps(Local, {"missing", "folder", "file"}) : f = v4[r].stats
    BY <1>1 DEF Upload!Runs
  <2>2. stats = [q \in {p} \cup DOMAIN f |-> IF q = p THEN kind ELSE f[q]]
    BY <1>3, <2>1
  <2> QED BY <2>2, MapExtended
<1>7. PICK run : run = [v4[r] EXCEPT !.stats = stats, !.phase = phase]
  OBVIOUS
<1>8. run \in Upload!Runs /\ run.phase = phase /\ run.stats = stats /\ run.paths = v4[r].paths /\ run.target = v4[r].target
      /\ run.entries = v4[r].entries
  BY <1>1, <1>6, <1>7 DEF Upload!Runs
<1>9. v4' \in [Upload!Ids -> Upload!Runs] /\ v4'[r] = run /\ \A x \in Upload!Ids : x # r => v4'[x] = v4[x]
  BY <1>1, <1>5, <1>7, <1>8
<1>10. RunBacked(run)
  BY <1>1, <1>4, <1>5, <1>8 DEF RunBacked
<1>11. run.phase # "done" /\ run.phase # "mkdir"
  BY <1>8
<1> QED BY <1>5, <1>9, <1>10, <1>11, UploadStep

LEMMA UploadList ==
  ASSUME Upload!Inv, NEW r \in Upload!Ids, NEW p \in Local, NEW result, Upload!list_local_files_recursive(r, p, result)
  PROVE  Upload!Inv'
<1>1. Upload!TypeOK /\ RunsBacked /\ v4 \in [Upload!Ids -> Upload!Runs] /\ v4[r] \in Upload!Runs /\ RunBacked(v4[r])
  BY UploadParts DEF Upload!TypeOK, RunsBacked
<1>2. PICK entries : entries = [q \in {p} \cup DOMAIN v4[r].entries |-> IF q = p THEN result ELSE v4[r].entries[q]]
  OBVIOUS
<1>3. v4[r].phase = "list" /\ v4' = [v4 EXCEPT ![r] = [v4[r] EXCEPT !.entries = entries]] /\ UNCHANGED <<v1, v2, v3, v5>>
  BY <1>1, <1>2 DEF Upload!list_local_files_recursive, Upload!InPhase
<1>4. result \in {Upload!NoEntries, Upload!Entries(p)}
  BY DEF Upload!list_local_files_recursive
<1>5. entries \in Upload!PartialMaps(Local, {Upload!NoEntries} \cup {Upload!Entries(q) : q \in Local})
  <2>1. PICK f \in Upload!PartialMaps(Local, {Upload!NoEntries} \cup {Upload!Entries(q) : q \in Local}) : f = v4[r].entries
    BY <1>1 DEF Upload!Runs
  <2>2. entries = [q \in {p} \cup DOMAIN f |-> IF q = p THEN result ELSE f[q]]
    BY <1>2, <2>1
  <2>3. result \in {Upload!NoEntries} \cup {Upload!Entries(q) : q \in Local}
    BY <1>4
  <2> QED BY <2>2, <2>3, MapExtended
<1>6. \A q \in DOMAIN entries : entries[q] \in {Upload!NoEntries, Upload!Entries(q)}
  BY <1>1, <1>2, <1>4 DEF RunBacked
<1>7. PICK run : run = [v4[r] EXCEPT !.entries = entries]
  OBVIOUS
<1>8. run \in Upload!Runs /\ run.phase = "list" /\ run.stats = v4[r].stats /\ run.paths = v4[r].paths /\ run.target = v4[r].target
      /\ run.entries = entries
  BY <1>1, <1>3, <1>5, <1>7 DEF Upload!Runs
<1>9. v4' \in [Upload!Ids -> Upload!Runs] /\ v4'[r] = run /\ \A x \in Upload!Ids : x # r => v4'[x] = v4[x]
  BY <1>1, <1>3, <1>7, <1>8
<1>10. RunBacked(run)
  BY <1>1, <1>3, <1>6, <1>8 DEF RunBacked
<1> QED BY <1>3, <1>8, <1>9, <1>10, UploadStep

(* Folders and files of a run do not depend on what it still has to do. *)
LEMMA PlanKept ==
  ASSUME NEW a, NEW b, b.paths = a.paths, b.stats = a.stats, b.entries = a.entries, b.target = a.target
  PROVE  /\ PlanDirs(b) = PlanDirs(a) /\ Upload!Folders(b) = Upload!Folders(a) /\ Upload!Files(b) = Upload!Files(a)
         /\ \A r, q : IsPlanned(r, b, q) <=> IsPlanned(r, a, q)
<1>1. Upload!Folders(b) = Upload!Folders(a) /\ Upload!Files(b) = Upload!Files(a)
  BY DEF Upload!Folders, Upload!Files
<1>2. PlanDirs(b) = PlanDirs(a)
  BY <1>1, Zenon DEF PlanDirs
<1>3. \A r, q : IsPlanned(r, b, q) <=> IsPlanned(r, a, q)
  BY <1>1, Zenon DEF IsPlanned
<1> QED BY <1>1, <1>2, <1>3

LEMMA UploadPlanStep == ASSUME Upload!Inv, NEW r \in Upload!Ids, Upload!Planned(r) PROVE Upload!Inv'
<1>1. Upload!TypeOK /\ RunsBacked /\ v4 \in [Upload!Ids -> Upload!Runs] /\ v4[r] \in Upload!Runs /\ RunBacked(v4[r])
  BY UploadParts DEF Upload!TypeOK, RunsBacked
<1>2. Upload!Folders(v4[r]) \subseteq DOMAIN v4[r].entries /\ v4[r].phase = "list"
  BY DEF Upload!Planned, Upload!InPhase
<1>3. Listed(v4[r])
  BY <1>1, <1>2 DEF Listed, RunBacked
<1>4. PICK todo \in SUBSET (Seq(STRING) \ {<<>>}) : todo = Upload!Plan(r).directories /\ todo = PlanDirs(v4[r])
  BY <1>1, <1>3, UploadPlanned
<1>5. v4' = [v4 EXCEPT ![r] = [v4[r] EXCEPT !.phase = "mkdir", !.todo = todo]] /\ UNCHANGED <<v1, v2, v3, v5>>
  BY <1>1, <1>4 DEF Upload!Planned
<1>6. PICK run : run = [v4[r] EXCEPT !.phase = "mkdir", !.todo = todo]
  OBVIOUS
<1>7. run \in Upload!Runs /\ run.phase = "mkdir" /\ run.stats = v4[r].stats /\ run.paths = v4[r].paths /\ run.target = v4[r].target
      /\ run.entries = v4[r].entries /\ run.todo = todo
  BY <1>1, <1>6 DEF Upload!Runs
<1>8. v4' \in [Upload!Ids -> Upload!Runs] /\ v4'[r] = run /\ \A x \in Upload!Ids : x # r => v4'[x] = v4[x]
  BY <1>1, <1>5, <1>6, <1>7
<1>9. PlanDirs(run) = todo /\ Upload!Folders(run) = Upload!Folders(v4[r])
  BY <1>4, <1>7, PlanKept
<1>10. RunBacked(run)
  BY <1>1, <1>2, <1>7, <1>9 DEF RunBacked
<1>11. PlanDirs(run) \subseteq run.todo \cup v3' \cup run.errors
  <2>1. PlanDirs(run) = run.todo
    BY <1>7, <1>9
  <2>2. \A A, B, C, D : A = B => A \subseteq B \cup C \cup D
    OBVIOUS
  <2> QED BY <2>1, <2>2
<1> QED BY <1>2, <1>5, <1>7, <1>8, <1>10, <1>11, UploadStep

LEMMA UploadMkdir ==
  ASSUME Upload!Inv, NEW r \in Upload!Ids, NEW ok \in BOOLEAN, NEW d, Upload!create_directory(r, d, ok) PROVE Upload!Inv'
<1>1. Upload!TypeOK /\ RunsBacked /\ v4 \in [Upload!Ids -> Upload!Runs] /\ v4[r] \in Upload!Runs /\ RunBacked(v4[r])
  BY UploadParts DEF Upload!TypeOK, RunsBacked
<1>2. d \in v4[r].todo /\ v4[r].phase = "mkdir"
  BY DEF Upload!create_directory, Upload!InPhase
<1>3. d \in Seq(STRING) /\ d # <<>>
  BY <1>1, <1>2 DEF Upload!Runs
<1>4. PICK todo, errors : todo = v4[r].todo \ {d} /\ errors = IF ok THEN v4[r].errors ELSE v4[r].errors \cup {d}
  OBVIOUS
<1>5. v4' = [v4 EXCEPT ![r] = [v4[r] EXCEPT !.todo = todo, !.errors = errors]] /\ UNCHANGED <<v1, v2, v5>>
  BY <1>1, <1>4 DEF Upload!create_directory
<1>6. v3' = IF ok THEN v3 \cup {SubSeq(d, 1, n) : n \in 1 .. Len(d)} ELSE v3
  BY DEF Upload!create_directory
<1>7. v3 \subseteq v3' /\ (d \in v3' \/ d \in errors)
  BY <1>3, <1>4, <1>6, PathMade
<1>8. PICK run : run = [v4[r] EXCEPT !.todo = todo, !.errors = errors]
  OBVIOUS
<1>9. run \in Upload!Runs /\ run.phase = "mkdir" /\ run.stats = v4[r].stats /\ run.paths = v4[r].paths /\ run.target = v4[r].target
      /\ run.entries = v4[r].entries /\ run.todo = todo /\ run.errors = errors
  <2>1. todo \subseteq Seq(STRING) \ {<<>>} /\ errors \subseteq Seq(STRING) \ {<<>>}
    BY <1>1, <1>3, <1>4 DEF Upload!Runs
  <2> QED BY <1>1, <1>2, <1>8, <2>1 DEF Upload!Runs
<1>10. v4' \in [Upload!Ids -> Upload!Runs] /\ v4'[r] = run /\ \A x \in Upload!Ids : x # r => v4'[x] = v4[x]
  BY <1>1, <1>5, <1>8, <1>9
<1>11. PlanDirs(run) = PlanDirs(v4[r]) /\ Upload!Folders(run) = Upload!Folders(v4[r])
  BY <1>9, PlanKept
<1>12. RunBacked(run)
  BY <1>1, <1>2, <1>9, <1>11 DEF RunBacked
<1>13. PlanDirs(v4[r]) \subseteq v4[r].todo \cup v3 \cup v4[r].errors
  BY <1>1, <1>2 DEF RunsBacked
<1>14. PlanDirs(run) \subseteq run.todo \cup v3' \cup run.errors
  BY <1>4, <1>7, <1>9, <1>11, <1>13
<1> QED BY <1>2, <1>5, <1>7, <1>9, <1>10, <1>12, <1>14, UploadStep

LEMMA UploadEnqueue == ASSUME Upload!Inv, NEW r \in Upload!Ids, Upload!Enqueue(r) PROVE Upload!Inv'
<1>1. Upload!TypeOK /\ RunsBacked /\ v4 \in [Upload!Ids -> Upload!Runs] /\ v4[r] \in Upload!Runs /\ RunBacked(v4[r])
  BY UploadParts DEF Upload!TypeOK, RunsBacked
<1>2. v4[r].phase = "mkdir" /\ v4[r].todo = {} /\ UNCHANGED <<v1, v2, v3>>
  BY DEF Upload!Enqueue, Upload!InPhase, Upload!EveryDirectoryTried
<1>3. Listed(v4[r])
  BY <1>1, <1>2 DEF Listed, RunBacked
<1>4. PICK new : new = Upload!Plan(r).items
  OBVIOUS
<1>5. v5' = v5 \cup new /\ \A q : q \in new <=> IsPlanned(r, v4[r], q)
  BY <1>1, <1>3, <1>4, UploadPlanned DEF Upload!Enqueue
<1>6. v4' = [v4 EXCEPT ![r] = [v4[r] EXCEPT !.phase = "done", !.todo = {}]]
  BY <1>1 DEF Upload!Enqueue
<1>7. PICK run : run = [v4[r] EXCEPT !.phase = "done", !.todo = {}]
  OBVIOUS
<1>8. run \in Upload!Runs /\ run.phase = "done" /\ run.stats = v4[r].stats /\ run.paths = v4[r].paths /\ run.target = v4[r].target
      /\ run.entries = v4[r].entries /\ run.errors = v4[r].errors
  BY <1>1, <1>7 DEF Upload!Runs
<1>9. v4' \in [Upload!Ids -> Upload!Runs] /\ v4'[r] = run /\ \A x \in Upload!Ids : x # r => v4'[x] = v4[x]
  BY <1>1, <1>6, <1>7, <1>8
<1>10. PlanDirs(run) = PlanDirs(v4[r]) /\ Upload!Folders(run) = Upload!Folders(v4[r])
       /\ \A q : IsPlanned(r, run, q) <=> IsPlanned(r, v4[r], q)
  BY <1>8, PlanKept
<1>11. RunBacked(run)
  BY <1>1, <1>2, <1>8, <1>10 DEF RunBacked
<1>12. run.errors # {} \/ PlanDirs(run) \subseteq v3
  BY <1>1, <1>2, <1>8, <1>10 DEF RunsBacked
<1>13. \A q : q \in new <=> IsPlanned(r, v4'[r], q)
  BY <1>5, <1>9, <1>10
<1> QED BY <1>2, <1>5, <1>8, <1>9, <1>11, <1>12, <1>13, UploadQueued

LEMMA UploadChosen ==
  ASSUME Upload!Inv, NEW r \in Upload!Ids, NEW paths \in SUBSET Local, Upload!Chosen(r, paths) PROVE Upload!Inv'
<1>1. Upload!TypeOK /\ RunsBacked /\ v4 \in [Upload!Ids -> Upload!Runs] /\ v4[r] \in Upload!Runs /\ RunBacked(v4[r])
  BY UploadParts DEF Upload!TypeOK, RunsBacked
<1>2. v4[r].phase = "dialog" /\ UNCHANGED <<v1, v2, v3>>
  BY DEF Upload!Chosen, Upload!InPhase
<1>3. PICK stats : stats = [p \in paths |-> "file"]
  OBVIOUS
<1>4. stats \in Upload!PartialMaps(Local, {"missing", "folder", "file"}) /\ DOMAIN stats = paths
  BY <1>3 DEF Upload!PartialMaps
<1>5. v4' = [v4 EXCEPT ![r] = [v4[r] EXCEPT !.phase = "done", !.paths = paths, !.stats = stats]]
  BY <1>1, <1>3 DEF Upload!Chosen
<1>6. PICK run : run = [v4[r] EXCEPT !.phase = "done", !.paths = paths, !.stats = stats]
  OBVIOUS
<1>7. run \in Upload!Runs /\ run.phase = "done" /\ run.stats = stats /\ run.paths = paths /\ run.target = v4[r].target
      /\ run.entries = v4[r].entries
  BY <1>1, <1>4, <1>6 DEF Upload!Runs
<1>8. v4' \in [Upload!Ids -> Upload!Runs] /\ v4'[r] = run /\ \A x \in Upload!Ids : x # r => v4'[x] = v4[x]
  BY <1>1, <1>5, <1>6, <1>7
<1>9. Upload!Files(run) = paths /\ Upload!Folders(run) = {}
  BY <1>3, <1>7 DEF Upload!Files, Upload!Folders
<1>10. PlanDirs(run) = {}
  BY <1>9 DEF PlanDirs
<1>11. RunBacked(run)
  BY <1>1, <1>2, <1>4, <1>7, <1>9 DEF RunBacked
<1>12. PICK new : new = {Upload!Item(r, p, <<>>, v4[r].target) : p \in paths}
  OBVIOUS
<1>13. v5' = v5 \cup new
  BY <1>12 DEF Upload!Chosen, Upload!buildFileUploadItems, Upload!Target
<1>14. \A q : q \in new <=> IsPlanned(r, v4'[r], q)
  BY <1>7, <1>8, <1>9, <1>12 DEF IsPlanned
<1> QED BY <1>2, <1>7, <1>8, <1>10, <1>11, <1>13, <1>14, UploadQueued

LEMMA UploadNext == Upload!Inv /\ [Upload!Next]_(Upload!vars) => Upload!Inv'
<1> SUFFICES ASSUME Upload!Inv, [Upload!Next]_(Upload!vars) PROVE Upload!Inv'
  OBVIOUS
<1>1. Upload!TypeOK /\ Upload!FoldersBeforeFiles /\ Upload!DropGoesWhereItFell /\ RunsBacked
  BY UploadParts
<1>2. ASSUME UNCHANGED <<v3, v4, v5>>, v1' \in Shows, v2' \subseteq Local PROVE Upload!Inv'
  <2>1. Upload!TypeOK'
    BY <1>1, <1>2 DEF Upload!TypeOK
  <2>2. Upload!FoldersBeforeFiles' /\ Upload!DropGoesWhereItFell' /\ RunsBacked'
    BY <1>1, <1>2 DEF Upload!FoldersBeforeFiles, Upload!DropGoesWhereItFell, Upload!InPhase, RunsBacked
  <2> QED BY <2>1, <2>2, UploadParts, PTL
<1>3. CASE UNCHANGED Upload!vars
  BY <1>1, <1>2, <1>3 DEF Upload!vars, Upload!TypeOK
<1>4. CASE (\E p \in Shows : Upload!Navigate(p)) \/ \E p \in Local : Upload!Vanish(p)
  BY <1>1, <1>2, <1>4 DEF Upload!Navigate, Upload!Vanish, Upload!TypeOK
<1>5. CASE Upload!Next
  BY <1>4, <1>5, UploadDropped, UploadChosen, UploadStat, UploadList, UploadDialog, UploadPlanStep, UploadEnqueue, UploadMkdir
     DEF Upload!Next
<1> QED BY <1>3, <1>5

(***************************************************************************)
(* The parts together                                                      *)
(***************************************************************************)
LEMMA PartsStep ==
  [Next]_vars => /\ part' = part
                 /\ part = "browser" => [Browser!Next]_(Browser!vars)
                 /\ part = "tree" => [Dirs!Next]_(Dirs!vars)
                 /\ part = "upload" => [Upload!Next]_(Upload!vars)
<1> SUFFICES ASSUME [Next]_vars
             PROVE  /\ part' = part
                    /\ part = "browser" => [Browser!Next]_(Browser!vars)
                    /\ part = "tree" => [Dirs!Next]_(Dirs!vars)
                    /\ part = "upload" => [Upload!Next]_(Upload!vars)
  OBVIOUS
<1>1. part' = part
  BY DEF Next, vars
<1>2. ASSUME part = "browser" PROVE [Browser!Next]_(Browser!vars)
  BY <1>2 DEF Next, vars, Browser!vars, Browser!viewVars, Browser!loadVars
<1>3. ASSUME part = "tree" PROVE [Dirs!Next]_(Dirs!vars)
  BY <1>3 DEF Next, vars, Dirs!vars
<1>4. ASSUME part = "upload" PROVE [Upload!Next]_(Upload!vars)
  BY <1>4 DEF Next, vars, Upload!vars
<1> QED BY <1>1, <1>2, <1>3, <1>4

LEMMA PanelsStart == Init => PanelsKnowTheirPlace /\ DropsArriveWhole
<1> SUFFICES ASSUME Init PROVE PanelsKnowTheirPlace /\ DropsArriveWhole
  OBVIOUS
<1>1. /\ part = "browser" => Browser!Init
      /\ part = "tree" => Dirs!Init
      /\ part = "upload" => Upload!Init
  BY DEF Init
<1> QED BY <1>1, BrowserInit, TreeInit, UploadInit DEF PanelsKnowTheirPlace, DropsArriveWhole

LEMMA PlaceStep == PanelsKnowTheirPlace /\ [Next]_vars => PanelsKnowTheirPlace'
<1> SUFFICES ASSUME PanelsKnowTheirPlace, [Next]_vars PROVE PanelsKnowTheirPlace'
  OBVIOUS
<1>1. ASSUME part = "browser" PROVE Browser!Inv'
  BY <1>1, PartsStep, BrowserNext DEF PanelsKnowTheirPlace
<1>2. ASSUME part = "tree" PROVE Dirs!Inv'
  BY <1>2, PartsStep, TreeNext DEF PanelsKnowTheirPlace
<1> QED BY <1>1, <1>2, PartsStep DEF PanelsKnowTheirPlace

LEMMA DropsStep == DropsArriveWhole /\ [Next]_vars => DropsArriveWhole'
<1> SUFFICES ASSUME DropsArriveWhole, [Next]_vars PROVE DropsArriveWhole'
  OBVIOUS
<1>1. ASSUME part = "upload" PROVE Upload!Inv'
  BY <1>1, PartsStep, UploadNext DEF DropsArriveWhole
<1> QED BY <1>1, PartsStep DEF DropsArriveWhole

LEMMA ForwardStep ==
  PanelsKnowTheirPlace /\ OutcomesAreTrue /\ Next
     => /\ part = "browser" => Browser!NeverOlder /\ Browser!SelectionStaysBehind
        /\ part = "ftp" => Ftp!SelectionBelongsToListing
<1> SUFFICES ASSUME PanelsKnowTheirPlace, OutcomesAreTrue, Next
             PROVE  /\ part = "browser" => Browser!NeverOlder /\ Browser!SelectionStaysBehind
                    /\ part = "ftp" => Ftp!SelectionBelongsToListing
  OBVIOUS
<1>1. ASSUME part = "browser" PROVE Browser!NeverOlder /\ Browser!SelectionStaysBehind
  <2>1. Browser!Next /\ Browser!Inv
    BY <1>1 DEF Next, PanelsKnowTheirPlace
  <2> QED BY <2>1, BrowserForward
<1>2. ASSUME part = "ftp" PROVE Ftp!SelectionBelongsToListing
  <2>1. Ftp!Next /\ Ftp!Inv
    BY <1>2 DEF Next, OutcomesAreTrue
  <2> QED BY <2>1, FtpForward
<1> QED BY <1>1, <1>2

(* The remote panel shows a load exactly while its newest request is open, its history   *)
(* points at the directory shown, and the active connection always has a directory to    *)
(* come back to; and a usable tree has, asks for or was refused every ancestor of its    *)
(* path: in integrated-file-browser.tsx and directory-tree.tsx, whatever tab, listing,   *)
(* reconnection or move comes between a request and its answer.                          *)
THEOREM PanelsPlace == Spec => []PanelsKnowTheirPlace
<1>1. Init => PanelsKnowTheirPlace
  BY PanelsStart
<1> QED BY <1>1, PlaceStep, PTL DEF Spec

(* A drop that is done has queued every file of its paths below the directory it fell    *)
(* on, and a transfer is queued only into a remote folder that exists or whose failure    *)
(* the drop has reported: upload-paths.ts, for any files and folders, whatever vanishes   *)
(* or is navigated to during its awaits.                                                  *)
THEOREM DropsWhole == Spec => []DropsArriveWhole
<1>1. Init => DropsArriveWhole
  BY PanelsStart
<1> QED BY <1>1, DropsStep, PTL DEF Spec

(* No step of the remote panel puts the answer of an older request in the place of a      *)
(* newer one, and neither it nor a panel of the two-panel view keeps a selection when it   *)
(* shows another directory.                                                               *)
THEOREM ListingsForward == Spec => ListingsGoForward
<1>1. Spec => []PanelsKnowTheirPlace /\ []OutcomesAreTrue
  BY PanelsPlace, FilesOutcomes, PTL
<1>2. PanelsKnowTheirPlace /\ OutcomesAreTrue /\ [Next]_vars
        => [/\ part = "browser" => Browser!NeverOlder /\ Browser!SelectionStaysBehind
            /\ part = "ftp" => Ftp!SelectionBelongsToListing]_vars
  BY ForwardStep
<1> QED BY <1>1, <1>2, PTL DEF Spec, ListingsGoForward
=============================================================================
