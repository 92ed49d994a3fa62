---------------------------- MODULE WorkspaceProofs ----------------------------
(***************************************************************************)
(* Proofs about the window around the sessions (MCWorkspace): every pane   *)
(* is on one page and every session in one pane (PanesPlacedOnce), only a  *)
(* close ends a session (SessionsStay), a drag leaves nothing marked       *)
(* (DragsEndClean), the drop handlers of the desktop are accounted for     *)
(* (HandlersAccounted), and closed settings show what is stored            *)
(* (ClosedShowsSaved); for any sessions, zones, looks and bounds, and any  *)
(* number of panes and pages.                                              *)
(*                                                                         *)
(* The parts are instances whose variables are v1, v2, ... there:          *)
(*   Layout    v1 layout                                                   *)
(*   Drag      v1 press, v2 held, v3 over, v4 dragged, v5 select,          *)
(*             v6 active, v7 hover, v8 suppress, v9 due, v10 click,        *)
(*             v11 drop, v12 presses                                       *)
(*   Drop      v1 mounted, v2 enabled, v3 unlistenPromise, v4 handlers,    *)
(*             v5 closing, v6 isDragOver, v7 received                      *)
(*   Prefs     v1 open, v2 draft, v3 shown, v4 saved, v5 original,         *)
(*             v6 preserve, v7 opens, v8 halfSaved, v9 busy, v10 found,    *)
(*             v11 dialog                                                  *)
(*                                                                         *)
(* The saved connections and the split trees stay with TLC.                *)
(***************************************************************************)
EXTENDS MCWorkspace, SequenceTheorems, FiniteSetTheorems, TLAPS

(***************************************************************************)
(* Pages and panes: the sequences they are kept in                         *)
(***************************************************************************)
LEMMA Slice ==
  ASSUME NEW S, NEW s \in Seq(S), NEW m \in Nat, NEW n \in Nat, 1 <= m, m <= n + 1, n <= Len(s)
  PROVE  LET w == SubSeq(s, m, n)
         IN  w \in Seq(S) /\ Len(w) = n + 1 - m /\ \A i \in 1 .. (n + 1 - m) : w[i] = s[i + m - 1]
<1>1. Len(s) \in Nat /\ \A i \in 1 .. Len(s) : s[i] \in S
  OBVIOUS
<1>2. m \in Int /\ n \in Int /\ \A i \in m .. n : s[i] \in S
  BY <1>1
<1>3. /\ SubSeq(s, m, n) \in Seq(S) /\ Len(SubSeq(s, m, n)) = IF m <= n THEN n - m + 1 ELSE 0
      /\ \A i \in 1 .. (n - m + 1) : SubSeq(s, m, n)[i] = s[m + i - 1]
  BY <1>2, SubSeqProperties
<1>4. \A i \in 1 .. (n + 1 - m) : i \in 1 .. (n - m + 1) /\ m + i - 1 = i + m - 1
  OBVIOUS
<1> QED BY <1>3, <1>4

LEMMA Joined ==
  ASSUME NEW S, NEW p \in Seq(S), NEW q \in Seq(S)
  PROVE  /\ p \o q \in Seq(S) /\ Len(p \o q) = Len(p) + Len(q)
         /\ \A i \in 1 .. (Len(p) + Len(q)) : (p \o q)[i] = IF i <= Len(p) THEN p[i] ELSE q[i - Len(p)]
BY ConcatProperties

(* Taking one out *)
LEMMA OneLess ==
  ASSUME NEW S, NEW s \in Seq(S), NEW k \in 1 .. Len(s), NEW w, w = Layout!RemoveAt(s, k)
  PROVE  /\ w \in Seq(S) /\ Len(w) = Len(s) - 1 /\ DOMAIN w = 1 .. Len(w)
         /\ \A a \in 1 .. Len(w) : w[a] = IF a < k THEN s[a] ELSE s[a + 1]
<1> DEFINE p == SubSeq(s, 1, k - 1)
           q == SubSeq(s, k + 1, Len(s))
<1>1. Len(s) \in Nat /\ k \in Nat /\ 1 <= k /\ k <= Len(s)
  OBVIOUS
<1>2. p \in Seq(S) /\ Len(p) = k - 1 /\ \A i \in 1 .. (k - 1) : p[i] = s[i]
  <2>1. p \in Seq(S) /\ Len(p) = k - 1 + 1 - 1 /\ \A i \in 1 .. (k - 1 + 1 - 1) : p[i] = s[i + 1 - 1]
    <3>1. 1 \in Nat /\ k - 1 \in Nat /\ 1 <= 1 /\ 1 <= k - 1 + 1 /\ k - 1 <= Len(s)
      BY <1>1
    <3> QED BY <3>1, Slice
  <2>2. k - 1 + 1 - 1 = k - 1 /\ \A i \in 1 .. (k - 1) : i + 1 - 1 = i
    BY <1>1
  <2> QED BY <2>1, <2>2
<1>3. q \in Seq(S) /\ Len(q) = Len(s) - k /\ \A i \in 1 .. (Len(s) - k) : q[i] = s[i + k]
  <2>1. /\ q \in Seq(S) /\ Len(q) = Len(s) + 1 - (k + 1)
        /\ \A i \in 1 .. (Len(s) + 1 - (k + 1)) : q[i] = s[i + (k + 1) - 1]
    <3>1. k + 1 \in Nat /\ 1 <= k + 1 /\ k + 1 <= Len(s) + 1 /\ Len(s) <= Len(s)
      BY <1>1
    <3> QED BY <1>1, <3>1, Slice
  <2>2. Len(s) + 1 - (k + 1) = Len(s) - k /\ \A i \in 1 .. (Len(s) - k) : i + (k + 1) - 1 = i + k
    BY <1>1
  <2> QED BY <2>1, <2>2
<1> HIDE DEF p, q
<1>4. /\ p \o q \in Seq(S) /\ Len(p \o q) = Len(s) - 1
      /\ \A i \in 1 .. (Len(s) - 1) : (p \o q)[i] = IF i <= k - 1 THEN p[i] ELSE q[i - (k - 1)]
  <2>1. /\ p \o q \in Seq(S) /\ Len(p \o q) = Len(p) + Len(q)
        /\ \A i \in 1 .. (Len(p) + Len(q)) : (p \o q)[i] = IF i <= Len(p) THEN p[i] ELSE q[i - Len(p)]
    BY <1>2, <1>3, Joined
  <2>2. Len(p) = k - 1 /\ Len(p) + Len(q) = Len(s) - 1
    BY <1>1, <1>2, <1>3
  <2> QED BY <2>1, <2>2
<1>5. \A a \in 1 .. (Len(s) - 1) : (p \o q)[a] = IF a < k THEN s[a] ELSE s[a + 1]
  <2> SUFFICES ASSUME NEW a \in 1 .. (Len(s) - 1) PROVE (p \o q)[a] = IF a < k THEN s[a] ELSE s[a + 1]
    OBVIOUS
  <2>1. CASE a < k
    <3>1. a <= k - 1 /\ a \in 1 .. (k - 1)
      BY <1>1, <2>1
    <3> QED BY <1>2, <1>4, <2>1, <3>1
  <2>2. CASE ~(a < k)
    <3>1. ~(a <= k - 1) /\ a - (k - 1) \in 1 .. (Len(s) - k) /\ a - (k - 1) + k = a + 1
      BY <1>1, <2>2
    <3> QED BY <1>3, <1>4, <2>2, <3>1
  <2> QED BY <2>1, <2>2
<1>6. DOMAIN (p \o q) = 1 .. (Len(s) - 1)
  BY <1>4
<1>7. w = p \o q
  BY DEF Layout!RemoveAt, p, q
<1> QED BY <1>4, <1>5, <1>6, <1>7

(* Putting one in *)
LEMMA OneMore ==
  ASSUME NEW S, NEW s \in Seq(S), NEW e \in S, NEW k \in 1 .. (Len(s) + 1), NEW w, w = Layout!InsertAt(s, k, e)
  PROVE  /\ w \in Seq(S) /\ Len(w) = Len(s) + 1 /\ DOMAIN w = 1 .. Len(w)
         /\ \A a \in 1 .. Len(w) : w[a] = IF a < k THEN s[a] ELSE IF a = k THEN e ELSE s[a - 1]
<1> DEFINE p == SubSeq(s, 1, k - 1)
           q == SubSeq(s, k, Len(s))
<1>1. Len(s) \in Nat /\ k \in Nat /\ 1 <= k /\ k <= Len(s) + 1
  OBVIOUS
<1>2. p \in Seq(S) /\ Len(p) = k - 1 /\ \A i \in 1 .. (k - 1) : p[i] = s[i]
  <2>1. p \in Seq(S) /\ Len(p) = k - 1 + 1 - 1 /\ \A i \in 1 .. (k - 1 + 1 - 1) : p[i] = s[i + 1 - 1]
    <3>1. 1 \in Nat /\ k - 1 \in Nat /\ 1 <= 1 /\ 1 <= k - 1 + 1 /\ k - 1 <= Len(s)
      BY <1>1
    <3> QED BY <3>1, Slice
  <2>2. k - 1 + 1 - 1 = k - 1 /\ \A i \in 1 .. (k - 1) : i + 1 - 1 = i
    BY <1>1
  <2> QED BY <2>1, <2>2
<1>3. q \in Seq(S) /\ Len(q) = Len(s) + 1 - k /\ \A i \in 1 .. (Len(s) + 1 - k) : q[i] = s[i + k - 1]
  <2>1. Len(s) <= Len(s)
    BY <1>1
  <2> QED BY <1>1, <2>1, Slice
<1> DEFINE o == <<e>>
<1>4. o \in Seq(S) /\ Len(o) = 1 /\ o[1] = e
  OBVIOUS
<1> HIDE DEF p, q, o
<1> DEFINE r == p \o o
<1>5. /\ r \in Seq(S) /\ Len(r) = k
      /\ \A i \in 1 .. k : r[i] = IF i <= k - 1 THEN p[i] ELSE o[i - (k - 1)]
  <2>1. /\ p \o o \in Seq(S) /\ Len(p \o o) = Len(p) + Len(o)
        /\ \A i \in 1 .. (Len(p) + Len(o)) : (p \o o)[i] = IF i <= Len(p) THEN p[i] ELSE o[i - Len(p)]
    <3>1. p \in Seq(S) /\ o \in Seq(S)
      BY <1>2, <1>4
    <3> QED BY <3>1, Joined, Zenon
  <2>2. Len(p) = k - 1 /\ Len(o) = 1
    BY <1>2, <1>4
  <2>3. Len(p) + Len(o) = k
    BY <2>2, <1>1
  <2> HIDE DEF r
  <2>4. r = p \o o
    BY DEF r
  <2> QED BY <2>1, <2>2, <2>3, <2>4, Zenon
<1>6. \A i \in 1 .. k : r[i] = IF i < k THEN s[i] ELSE e
  <2> SUFFICES ASSUME NEW i \in 1 .. k PROVE r[i] = IF i < k THEN s[i] ELSE e
    OBVIOUS
  <2>1. CASE i < k
    <3>1. i <= k - 1 /\ i \in 1 .. (k - 1)
      BY <1>1, <2>1
    <3> QED BY <1>2, <1>5, <2>1, <3>1
  <2>2. CASE ~(i < k)
    <3>1. ~(i <= k - 1) /\ i - (k - 1) = 1
      BY <1>1, <2>2
    <3> QED BY <1>4, <1>5, <2>2, <3>1
  <2> QED BY <2>1, <2>2
<1> HIDE DEF r
<1>7. /\ r \o q \in Seq(S) /\ Len(r \o q) = Len(s) + 1
      /\ \A i \in 1 .. (Len(s) + 1) : (r \o q)[i] = IF i <= k THEN r[i] ELSE q[i - k]
  <2>1. /\ r \o q \in Seq(S) /\ Len(r \o q) = Len(r) + Len(q)
        /\ \A i \in 1 .. (Len(r) + Len(q)) : (r \o q)[i] = IF i <= Len(r) THEN r[i] ELSE q[i - Len(r)]
    BY <1>3, <1>5, Joined
  <2>2. Len(r) = k /\ Len(r) + Len(q) = Len(s) + 1
    BY <1>1, <1>3, <1>5
  <2> QED BY <2>1, <2>2
<1>8. \A a \in 1 .. (Len(s) + 1) : (r \o q)[a] = IF a < k THEN s[a] ELSE IF a = k THEN e ELSE s[a - 1]
  <2> SUFFICES ASSUME NEW a \in 1 .. (Len(s) + 1)
               PROVE  (r \o q)[a] = IF a < k THEN s[a] ELSE IF a = k THEN e ELSE s[a - 1]
    OBVIOUS
  <2>1. CASE a <= k
    <3>1. a \in 1 .. k /\ (~(a < k) => a = k)
      BY <1>1, <2>1
    <3> QED BY <1>6, <1>7, <2>1, <3>1
  <2>2. CASE ~(a <= k)
    <3>1. a - k \in 1 .. (Len(s) + 1 - k) /\ a - k + k - 1 = a - 1 /\ ~(a < k) /\ a # k
      BY <1>1, <2>2
    <3> QED BY <1>3, <1>7, <2>2, <3>1
  <2> QED BY <2>1, <2>2
<1>9. DOMAIN (r \o q) = 1 .. (Len(s) + 1)
  BY <1>7
<1>10. w = r \o q
  BY DEF Layout!InsertAt, p, q, r, o
<1> QED BY <1>7, <1>8, <1>9, <1>10

LEMMA Members == ASSUME NEW S, NEW s \in Seq(S)
                 PROVE  /\ \A e : Layout!Contains(s, e) <=> e \in Layout!ToSet(s)
                        /\ Layout!ToSet(s) = {s[i] : i \in 1 .. Len(s)} /\ Layout!ToSet(s) \subseteq S
                        /\ DOMAIN s = 1 .. Len(s) /\ Len(s) \in Nat
BY DEF Layout!Contains, Layout!ToSet

LEMMA LessOnce ==
  ASSUME NEW S, NEW s \in Seq(S), NEW k \in 1 .. Len(s), Layout!IsInjective(s)
  PROVE  LET w == Layout!RemoveAt(s, k)
         IN  /\ w \in Seq(S) /\ Len(w) = Len(s) - 1 /\ Layout!IsInjective(w)
             /\ Layout!ToSet(w) = Layout!ToSet(s) \ {s[k]}
<1> DEFINE w == Layout!RemoveAt(s, k)
<1>1. /\ w \in Seq(S) /\ Len(w) = Len(s) - 1 /\ DOMAIN w = 1 .. (Len(s) - 1)
      /\ \A a \in 1 .. (Len(s) - 1) : w[a] = IF a < k THEN s[a] ELSE s[a + 1]
  <2>1. w = Layout!RemoveAt(s, k)
    OBVIOUS
  <2> HIDE DEF w
  <2>2. /\ w \in Seq(S) /\ Len(w) = Len(s) - 1 /\ DOMAIN w = 1 .. Len(w)
        /\ \A a \in 1 .. Len(w) : w[a] = IF a < k THEN s[a] ELSE s[a + 1]
    BY <2>1, OneLess
  <2> QED BY <2>2
<1> HIDE DEF w
<1>2. DOMAIN s = 1 .. Len(s) /\ Len(s) \in Nat /\ k \in Nat /\ 1 <= k /\ k <= Len(s)
  OBVIOUS
<1>3. \A a, b \in 1 .. Len(s) : s[a] = s[b] => a = b
  BY <1>2 DEF Layout!IsInjective
<1>4. \A a \in 1 .. (Len(s) - 1) : \E i \in 1 .. Len(s) : i # k /\ w[a] = s[i] /\ (IF a < k THEN i = a ELSE i = a + 1)
  <2> SUFFICES ASSUME NEW a \in 1 .. (Len(s) - 1)
               PROVE  \E i \in 1 .. Len(s) : i # k /\ w[a] = s[i] /\ (IF a < k THEN i = a ELSE i = a + 1)
    OBVIOUS
  <2>1. CASE a < k
    BY <1>1, <1>2, <2>1
  <2>2. CASE ~(a < k)
    <3>1. a + 1 \in 1 .. Len(s) /\ a + 1 # k
      BY <1>2, <2>2
    <3> QED BY <1>1, <2>2, <3>1
  <2> QED BY <2>1, <2>2
<1>5. Layout!IsInjective(w)
  <2> SUFFICES ASSUME NEW a \in 1 .. (Len(s) - 1), NEW b \in 1 .. (Len(s) - 1), w[a] = w[b] PROVE a = b
    BY <1>1 DEF Layout!IsInjective
  <2>1. PICK i \in 1 .. Len(s) : i # k /\ w[a] = s[i] /\ (IF a < k THEN i = a ELSE i = a + 1)
    BY <1>4
  <2>2. PICK j \in 1 .. Len(s) : j # k /\ w[b] = s[j] /\ (IF b < k THEN j = b ELSE j = b + 1)
    BY <1>4
  <2>3. i = j
    BY <1>3, <2>1, <2>2
  <2> QED BY <1>2, <2>1, <2>2, <2>3
<1>6. \A i \in 1 .. Len(s) : i # k => \E a \in 1 .. (Len(s) - 1) : w[a] = s[i]
  <2> SUFFICES ASSUME NEW i \in 1 .. Len(s), i # k PROVE \E a \in 1 .. (Len(s) - 1) : w[a] = s[i]
    OBVIOUS
  <2>1. CASE i < k
    <3>1. i \in 1 .. (Len(s) - 1)
      BY <1>2, <2>1
    <3> QED BY <1>1, <2>1, <3>1
  <2>2. CASE ~(i < k)
    <3>1. i - 1 \in 1 .. (Len(s) - 1) /\ ~(i - 1 < k) /\ i - 1 + 1 = i
      BY <1>2, <2>2
    <3> QED BY <1>1, <3>1
  <2> QED BY <2>1, <2>2
<1>7. Layout!ToSet(w) = Layout!ToSet(s) \ {s[k]}
  <2>1. ASSUME NEW e \in Layout!ToSet(w) PROVE e \in Layout!ToSet(s) \ {s[k]}
    <3>1. PICK a \in 1 .. (Len(s) - 1) : e = w[a]
      BY <1>1, <2>1 DEF Layout!ToSet
    <3>2. PICK i \in 1 .. Len(s) : i # k /\ w[a] = s[i]
      BY <1>4
    <3> QED BY <1>2, <1>3, <3>1, <3>2 DEF Layout!ToSet
  <2>2. ASSUME NEW e \in Layout!ToSet(s) \ {s[k]} PROVE e \in Layout!ToSet(w)
    <3>1. PICK i \in 1 .. Len(s) : e = s[i]
      BY <1>2, <2>2 DEF Layout!ToSet
    <3>2. PICK a \in 1 .. (Len(s) - 1) : w[a] = s[i]
      BY <1>6, <2>2, <3>1
    <3> QED BY <1>1, <3>1, <3>2 DEF Layout!ToSet
  <2> QED BY <2>1, <2>2
<1>8. w = Layout!RemoveAt(s, k)
  BY DEF w
<1> QED BY <1>1, <1>5, <1>7, <1>8

LEMMA MoreOnce ==
  ASSUME NEW S, NEW s \in Seq(S), NEW e \in S, NEW k \in 1 .. (Len(s) + 1)
  PROVE  LET w == Layout!InsertAt(s, k, e)
         IN  /\ w \in Seq(S) /\ Len(w) = Len(s) + 1 /\ Layout!ToSet(w) = Layout!ToSet(s) \cup {e}
             /\ Layout!IsInjective(s) /\ e \notin Layout!ToSet(s) => Layout!IsInjective(w)
<1> DEFINE w == Layout!InsertAt(s, k, e)
<1>1. /\ w \in Seq(S) /\ Len(w) = Len(s) + 1 /\ DOMAIN w = 1 .. (Len(s) + 1)
      /\ \A a \in 1 .. (Len(s) + 1) : w[a] = IF a < k THEN s[a] ELSE IF a = k THEN e ELSE s[a - 1]
  <2>1. w = Layout!InsertAt(s, k, e)
    OBVIOUS
  <2> HIDE DEF w
  <2>2. /\ w \in Seq(S) /\ Len(w) = Len(s) + 1 /\ DOMAIN w = 1 .. Len(w)
        /\ \A a \in 1 .. Len(w) : w[a] = IF a < k THEN s[a] ELSE IF a = k THEN e ELSE s[a - 1]
    BY <2>1, OneMore
  <2> QED BY <2>2
<1> HIDE DEF w
<1>2. DOMAIN s = 1 .. Len(s) /\ Len(s) \in Nat /\ k \in Nat /\ 1 <= k /\ k <= Len(s) + 1
  OBVIOUS
<1>3. \A a \in 1 .. (Len(s) + 1) : a # k =>
        \E i \in 1 .. Len(s) : w[a] = s[i] /\ (IF a < k THEN i = a ELSE i = a - 1)
  <2> SUFFICES ASSUME NEW a \in 1 .. (Len(s) + 1), a # k
               PROVE  \E i \in 1 .. Len(s) : w[a] = s[i] /\ (IF a < k THEN i = a ELSE i = a - 1)
    OBVIOUS
  <2>1. CASE a < k
    <3>1. a \in 1 .. Len(s)
      BY <1>2, <2>1
    <3> QED BY <1>1, <2>1, <3>1
  <2>2. CASE ~(a < k)
    <3>1. a - 1 \in 1 .. Len(s)
      BY <1>2, <2>2
    <3> QED BY <1>1, <2>2, <3>1
  <2> QED BY <2>1, <2>2
<1>4. w[k] = e
  BY <1>1, <1>2
<1>5. \A i \in 1 .. Len(s) : \E a \in 1 .. (Len(s) + 1) : w[a] = s[i]
  <2> SUFFICES ASSUME NEW i \in 1 .. Len(s) PROVE \E a \in 1 .. (Len(s) + 1) : w[a] = s[i]
    OBVIOUS
  <2>1. CASE i < k
    BY <1>1, <1>2, <2>1
  <2>2. CASE ~(i < k)
    <3>1. i + 1 \in 1 .. (Len(s) + 1) /\ ~(i + 1 < k) /\ i + 1 # k /\ i + 1 - 1 = i
      BY <1>2, <2>2
    <3> QED BY <1>1, <3>1
  <2> QED BY <2>1, <2>2
<1>6. Layout!ToSet(w) = Layout!ToSet(s) \cup {e}
  <2>1. ASSUME NEW x \in Layout!ToSet(w) PROVE x \in Layout!ToSet(s) \cup {e}
    BY <1>1, <1>2, <1>3, <1>4, <2>1 DEF Layout!ToSet
  <2>2. ASSUME NEW x \in Layout!ToSet(s) \cup {e} PROVE x \in Layout!ToSet(w)
    BY <1>1, <1>2, <1>4, <1>5, <2>2 DEF Layout!ToSet
  <2> QED BY <2>1, <2>2
<1>7. ASSUME Layout!IsInjective(s), e \notin Layout!ToSet(s) PROVE Layout!IsInjective(w)
  <2> SUFFICES ASSUME NEW a \in 1 .. (Len(s) + 1), NEW b \in 1 .. (Len(s) + 1), w[a] = w[b] PROVE a = b
    BY <1>1 DEF Layout!IsInjective
  <2>1. \A i \in 1 .. Len(s) : s[i] # e
    BY <1>2, <1>7 DEF Layout!ToSet
  <2>2. a = k <=> b = k
    BY <1>3, <1>4, <2>1
  <2>3. CASE a # k
    <3>1. PICK i \in 1 .. Len(s) : w[a] = s[i] /\ (IF a < k THEN i = a ELSE i = a - 1)
      BY <1>3, <2>3
    <3>2. PICK j \in 1 .. Len(s) : w[b] = s[j] /\ (IF b < k THEN j = b ELSE j = b - 1)
      BY <1>3, <2>2, <2>3
    <3>3. i = j
      BY <1>2, <1>7, <3>1, <3>2 DEF Layout!IsInjective
    <3> QED BY <1>2, <2>2, <2>3, <3>1, <3>2, <3>3
  <2> QED BY <2>2, <2>3
<1>8. w = Layout!InsertAt(s, k, e)
  BY DEF w
<1> QED BY <1>1, <1>6, <1>7, <1>8

(* The place of what a sequence holds once *)
LEMMA PlaceOf ==
  ASSUME NEW S, NEW s \in Seq(S), Layout!IsInjective(s), NEW i \in 1 .. Len(s)
  PROVE  Layout!At(s, s[i]) = i
<1>1. \A a, b \in 1 .. Len(s) : s[a] = s[b] => a = b
  BY DEF Layout!IsInjective
<1>2. {j \in 1 .. Len(s) : s[j] = s[i]} = {i}
  BY <1>1
<1>3. Layout!Min({i}) = i
  BY DEF Layout!Min
<1> QED BY <1>2, <1>3 DEF Layout!At, Layout!SelectInSeq

LEMMA TakenOut ==
  ASSUME NEW S, NEW s \in Seq(S), Layout!IsInjective(s), NEW e \in Layout!ToSet(s)
  PROVE  LET w == Layout!Minus(s, e)
         IN  /\ w \in Seq(S) /\ Layout!IsInjective(w) /\ Layout!ToSet(w) = Layout!ToSet(s) \ {e}
             /\ Layout!At(s, e) \in 1 .. Len(s) /\ s[Layout!At(s, e)] = e /\ Len(w) = Len(s) - 1
<1>1. PICK i \in 1 .. Len(s) : e = s[i]
  BY DEF Layout!ToSet
<1>2. Layout!At(s, e) = i
  BY <1>1, PlaceOf
<1> QED BY <1>1, <1>2, LessOnce DEF Layout!Minus

(***************************************************************************)
(* Pages and panes: what is placed where                                   *)
(***************************************************************************)
LayoutPage == [id : Nat, gridLayout : Seq(Nat), activeGroupId : Nat]
(* A set of pages shows the panes of G: each once, on one page, and every page one of *)
(* its own as the focus to return to.                                                  *)
Shows(G, T) ==
  /\ T \subseteq LayoutPage
  /\ \A p \in T : /\ Layout!IsInjective(p.gridLayout) /\ Layout!ToSet(p.gridLayout) \subseteq G
                  /\ p.activeGroupId \in Layout!ToSet(p.gridLayout)
  /\ \A p, q \in T : p # q => /\ p.id # q.id
                              /\ \A g \in Layout!ToSet(p.gridLayout) : g \notin Layout!ToSet(q.gridLayout)
  /\ \A g \in G : \E p \in T : g \in Layout!ToSet(p.gridLayout)
Placed(G, P) == P \in Seq(LayoutPage) /\ Layout!IsInjective(P) /\ Shows(G, Layout!ToSet(P))
(* The page under the name it has, with these panes and this focus *)
Fits(p, G) == /\ p \in LayoutPage /\ Layout!IsInjective(p.gridLayout)
              /\ p.activeGroupId \in Layout!ToSet(p.gridLayout)
              /\ \A g \in Layout!ToSet(p.gridLayout) : g \notin G

LEMMA ShowsLess == ASSUME NEW G, NEW T, Shows(G, T), NEW q \in T
                   PROVE  Shows(G \ Layout!ToSet(q.gridLayout), T \ {q})
<1> DEFINE H == G \ Layout!ToSet(q.gridLayout)
           U == T \ {q}
<1>1. U \subseteq LayoutPage
  BY DEF Shows
<1>2. ASSUME NEW p \in U
      PROVE  /\ Layout!IsInjective(p.gridLayout) /\ Layout!ToSet(p.gridLayout) \subseteq H
             /\ p.activeGroupId \in Layout!ToSet(p.gridLayout)
  BY DEF Shows
<1>3. ASSUME NEW p \in U, NEW r \in U, p # r
      PROVE  p.id # r.id /\ \A g \in Layout!ToSet(p.gridLayout) : g \notin Layout!ToSet(r.gridLayout)
  BY <1>3 DEF Shows
<1>4. ASSUME NEW g \in H PROVE \E p \in U : g \in Layout!ToSet(p.gridLayout)
  BY DEF Shows
<1> HIDE DEF H, U
<1>5. Shows(H, U)
  BY <1>1, <1>2, <1>3, <1>4 DEF Shows
<1> QED BY <1>5 DEF H, U

LEMMA ShowsMore == ASSUME NEW G, NEW T, Shows(G, T), NEW p, Fits(p, G), \A q \in T : q.id # p.id
                   PROVE  Shows(G \cup Layout!ToSet(p.gridLayout), T \cup {p})
<1> DEFINE H == G \cup Layout!ToSet(p.gridLayout)
           U == T \cup {p}
<1>1. U \subseteq LayoutPage
  BY DEF Shows, Fits
<1>2. ASSUME NEW q \in U
      PROVE  /\ Layout!IsInjective(q.gridLayout) /\ Layout!ToSet(q.gridLayout) \subseteq H
             /\ q.activeGroupId \in Layout!ToSet(q.gridLayout)
  BY DEF Shows, Fits
<1>3. ASSUME NEW q \in U, NEW r \in U, q # r
      PROVE  q.id # r.id /\ \A g \in Layout!ToSet(q.gridLayout) : g \notin Layout!ToSet(r.gridLayout)
  <2>1. CASE q \in T /\ r \in T
    BY <1>3, <2>1 DEF Shows
  <2>2. CASE q = p /\ r \in T
    BY <2>2 DEF Shows, Fits
  <2>3. CASE q \in T /\ r = p
    BY <2>3 DEF Shows, Fits
  <2> QED BY <1>3, <2>1, <2>2, <2>3
<1>4. ASSUME NEW g \in H PROVE \E q \in U : g \in Layout!ToSet(q.gridLayout)
  BY DEF Shows
<1> HIDE DEF H, U
<1>5. Shows(H, U)
  BY <1>1, <1>2, <1>3, <1>4 DEF Shows
<1> QED BY <1>5 DEF H, U

LEMMA Replaced ==
  ASSUME NEW S, NEW s \in Seq(S), Layout!IsInjective(s), NEW i \in 1 .. Len(s), NEW e \in S, e \notin Layout!ToSet(s) \ {s[i]},
         NEW w \in Seq(S), Len(w) = Len(s), w[i] = e, \A a \in 1 .. Len(s) : a # i => w[a] = s[a]
  PROVE  /\ Layout!IsInjective(w)
         /\ Layout!ToSet(w) = (Layout!ToSet(s) \ {s[i]}) \cup {e}
<1>1. DOMAIN w = 1 .. Len(s) /\ DOMAIN s = 1 .. Len(s)
  OBVIOUS
<1>2. \A a, b \in 1 .. Len(s) : s[a] = s[b] => a = b
  BY <1>1 DEF Layout!IsInjective
<1>3. \A a \in 1 .. Len(s) : a # i => s[a] # e
  BY <1>1, <1>2 DEF Layout!ToSet
<1>4. Layout!IsInjective(w)
  BY <1>1, <1>2, <1>3 DEF Layout!IsInjective
<1>5. ASSUME NEW x \in Layout!ToSet(w) PROVE x \in (Layout!ToSet(s) \ {s[i]}) \cup {e}
  BY <1>1, <1>2, <1>5 DEF Layout!ToSet
<1>6. ASSUME NEW x \in (Layout!ToSet(s) \ {s[i]}) \cup {e} PROVE x \in Layout!ToSet(w)
  BY <1>1, <1>2, <1>6 DEF Layout!ToSet
<1>7. Layout!ToSet(w) = (Layout!ToSet(s) \ {s[i]}) \cup {e}
  BY <1>5, <1>6
<1> QED BY <1>1, <1>4, <1>7

(* One page rearranged, gone, added or moved *)
LEMMA PlacedAnew ==
  ASSUME NEW G, NEW P, Placed(G, P), NEW i \in 1 .. Len(P), NEW Q \in Seq(LayoutPage), Len(Q) = Len(P),
         Q[i].id = P[i].id, Fits(Q[i], G \ Layout!ToSet(P[i].gridLayout)), \A a \in 1 .. Len(P) : a # i => Q[a] = P[a]
  PROVE  Placed((G \ Layout!ToSet(P[i].gridLayout)) \cup Layout!ToSet(Q[i].gridLayout), Q)
<1> DEFINE T == Layout!ToSet(P)
           p == Q[i]
<1>1. P \in Seq(LayoutPage) /\ Layout!IsInjective(P) /\ Shows(G, T) /\ P[i] \in T /\ p \in LayoutPage
  BY DEF Placed, Fits, Layout!ToSet
<1>2. p.id = P[i].id /\ Fits(p, G \ Layout!ToSet(P[i].gridLayout)) /\ Q[i] = p
  OBVIOUS
<1> HIDE DEF T, p
<1>3. Shows(G \ Layout!ToSet(P[i].gridLayout), T \ {P[i]})
  BY <1>1, ShowsLess
<1>4. \A q \in T \ {P[i]} : q.id # p.id
  BY <1>1, <1>2 DEF Shows
<1>5. Shows((G \ Layout!ToSet(P[i].gridLayout)) \cup Layout!ToSet(p.gridLayout), (T \ {P[i]}) \cup {p})
  BY <1>2, <1>3, <1>4, ShowsMore
<1>6. p \notin Layout!ToSet(P) \ {P[i]}
  BY <1>4 DEF T
<1>7. Layout!IsInjective(Q) /\ Layout!ToSet(Q) = (Layout!ToSet(P) \ {P[i]}) \cup {p}
  <2>1. P \in Seq(LayoutPage) /\ Layout!IsInjective(P) /\ p \in LayoutPage
    BY <1>1
  <2> QED BY <1>2, <1>6, <2>1, Replaced
<1>8. Placed((G \ Layout!ToSet(P[i].gridLayout)) \cup Layout!ToSet(p.gridLayout), Q)
  BY <1>5, <1>7 DEF Placed, T
<1> QED BY <1>2, <1>8

LEMMA PlacedLess ==
  ASSUME NEW G, NEW P, Placed(G, P), NEW i \in 1 .. Len(P)
  PROVE  Placed(G \ Layout!ToSet(P[i].gridLayout), Layout!RemoveAt(P, i))
<1>1. P \in Seq(LayoutPage) /\ Layout!IsInjective(P) /\ Shows(G, Layout!ToSet(P)) /\ P[i] \in Layout!ToSet(P)
  BY DEF Placed, Layout!ToSet
<1>2. /\ Layout!RemoveAt(P, i) \in Seq(LayoutPage) /\ Layout!IsInjective(Layout!RemoveAt(P, i))
      /\ Layout!ToSet(Layout!RemoveAt(P, i)) = Layout!ToSet(P) \ {P[i]}
  BY <1>1, LessOnce
<1>3. Shows(G \ Layout!ToSet(P[i].gridLayout), Layout!ToSet(P) \ {P[i]})
  BY <1>1, ShowsLess
<1> QED BY <1>2, <1>3 DEF Placed

LEMMA PlacedMore ==
  ASSUME NEW G, NEW P, Placed(G, P), NEW p, Fits(p, G), \A i \in 1 .. Len(P) : P[i].id # p.id
  PROVE  Placed(G \cup Layout!ToSet(p.gridLayout), Append(P, p))
<1>1. P \in Seq(LayoutPage) /\ Layout!IsInjective(P) /\ Shows(G, Layout!ToSet(P)) /\ p \in LayoutPage
  BY DEF Placed, Fits
<1> DEFINE w == Append(P, p)
<1>2. /\ w \in Seq(LayoutPage) /\ Len(w) = Len(P) + 1 /\ DOMAIN w = 1 .. (Len(P) + 1) /\ DOMAIN P = 1 .. Len(P)
      /\ w[Len(P) + 1] = p /\ \A a \in 1 .. Len(P) : w[a] = P[a]
      /\ Len(P) \in Nat
  BY <1>1
<1> HIDE DEF w
<1>3. \A q \in Layout!ToSet(P) : q.id # p.id
  BY <1>2 DEF Layout!ToSet
<1>4. Layout!IsInjective(w)
  <2> SUFFICES ASSUME NEW a \in 1 .. (Len(P) + 1), NEW b \in 1 .. (Len(P) + 1), w[a] = w[b] PROVE a = b
    BY <1>2 DEF Layout!IsInjective
  <2>1. CASE a \in 1 .. Len(P) /\ b \in 1 .. Len(P)
    BY <1>1, <1>2, <2>1 DEF Layout!IsInjective
  <2>2. CASE a = Len(P) + 1 \/ b = Len(P) + 1
    <3>1. \A c \in 1 .. Len(P) : w[c] # p
      BY <1>2
    <3> QED BY <1>2, <2>2, <3>1
  <2> QED BY <1>2, <2>1, <2>2
<1>5. Layout!ToSet(w) = Layout!ToSet(P) \cup {p}
  <2>1. ASSUME NEW x \in Layout!ToSet(w) PROVE x \in Layout!ToSet(P) \cup {p}
    BY <1>2, <2>1 DEF Layout!ToSet
  <2>2. ASSUME NEW x \in Layout!ToSet(P) \cup {p} PROVE x \in Layout!ToSet(w)
    BY <1>2, <2>2 DEF Layout!ToSet
  <2> QED BY <2>1, <2>2
<1>6. Shows(G \cup Layout!ToSet(p.gridLayout), Layout!ToSet(P) \cup {p})
  BY <1>1, <1>3, ShowsMore
<1>7. Placed(G \cup Layout!ToSet(p.gridLayout), w)
  BY <1>2, <1>4, <1>5, <1>6 DEF Placed
<1> QED BY <1>7 DEF w

LEMMA PlacedMoved ==
  ASSUME NEW G, NEW P, Placed(G, P), NEW i \in 1 .. Len(P), NEW k \in 1 .. Len(P)
  PROVE  Placed(G, Layout!InsertAt(Layout!RemoveAt(P, i), k, P[i]))
<1> DEFINE r == Layout!RemoveAt(P, i)
           w == Layout!InsertAt(r, k, P[i])
<1>1. P \in Seq(LayoutPage) /\ Layout!IsInjective(P) /\ Shows(G, Layout!ToSet(P)) /\ P[i] \in LayoutPage
      /\ P[i] \in Layout!ToSet(P) /\ Len(P) \in Nat
  BY DEF Placed, Layout!ToSet
<1>2. r \in Seq(LayoutPage) /\ Len(r) = Len(P) - 1 /\ Layout!IsInjective(r) /\ Layout!ToSet(r) = Layout!ToSet(P) \ {P[i]}
  BY <1>1, LessOnce
<1> HIDE DEF r
<1>3. k \in 1 .. (Len(r) + 1) /\ P[i] \notin Layout!ToSet(r)
  BY <1>1, <1>2
<1>4. w \in Seq(LayoutPage) /\ Layout!IsInjective(w) /\ Layout!ToSet(w) = Layout!ToSet(r) \cup {P[i]}
  BY <1>1, <1>2, <1>3, MoreOnce
<1>5. Layout!ToSet(w) = Layout!ToSet(P)
  BY <1>1, <1>2, <1>4
<1> HIDE DEF w
<1>6. Placed(G, w)
  BY <1>1, <1>4, <1>5 DEF Placed
<1> QED BY <1>6 DEF w, r

(***************************************************************************)
(* Pages and panes: which pane has which sessions                          *)
(***************************************************************************)
LayoutGroup == [tabs : Seq(Tabs), activeTabId : Tabs \cup {None}]
LayoutGroups == UNION {[G -> LayoutGroup] : G \in SUBSET Nat}
LayoutMaps == UNION {[T -> Nat] : T \in SUBSET Tabs}
(* A pane has each session once and shows one of its own. *)
GoodGroup(r) ==
  /\ r \in LayoutGroup /\ Layout!IsInjective(r.tabs)
  /\ IF r.tabs = <<>> THEN r.activeTabId = None ELSE r.activeTabId \in Layout!ToSet(r.tabs)
(* The map names, for each session, the one pane that has it. *)
Keeps(gr, map) ==
  /\ gr \in LayoutGroups /\ map \in LayoutMaps
  /\ \A g \in DOMAIN gr : GoodGroup(gr[g])
  /\ \A t \in DOMAIN map : map[t] \in DOMAIN gr /\ t \in Layout!ToSet(gr[map[t]].tabs)
  /\ \A g \in DOMAIN gr : \A t \in Layout!ToSet(gr[g].tabs) : t \in DOMAIN map /\ map[t] = g

LEMMA WithIs == ASSUME NEW f, NEW x, NEW v, NEW w, w = Layout!With(f, x, v)
                PROVE  /\ DOMAIN w = DOMAIN f \cup {x} /\ w[x] = v
                       /\ \A y \in DOMAIN f : y # x => w[y] = f[y]
BY DEF Layout!With

LEMMA WithAgain == ASSUME NEW f, NEW x \in DOMAIN f, NEW v PROVE DOMAIN Layout!With(f, x, v) = DOMAIN f
BY DEF Layout!With

LEMMA WithType == ASSUME NEW f, NEW x, NEW v, NEW S, NEW R, f \in [S -> R], v \in R
                  PROVE  Layout!With(f, x, v) \in [S \cup {x} -> R]
BY DEF Layout!With
LEMMA DropIs == ASSUME NEW f, NEW X
                PROVE  /\ DOMAIN Layout!Drop(f, X) = DOMAIN f \ X
                       /\ \A y \in DOMAIN f \ X : Layout!Drop(f, X)[y] = f[y]
                       /\ \A S, R : f \in [S -> R] => Layout!Drop(f, X) \in [S \ X -> R]
BY DEF Layout!Drop, Layout!Restrict

LEMMA GroupsAre == /\ \A gr \in LayoutGroups : /\ DOMAIN gr \subseteq Nat /\ gr \in [DOMAIN gr -> LayoutGroup]
                                               /\ \A g \in DOMAIN gr : gr[g] \in LayoutGroup
                   /\ \A G \in SUBSET Nat : [G -> LayoutGroup] \subseteq LayoutGroups
                   /\ \A map \in LayoutMaps : /\ DOMAIN map \subseteq Tabs /\ map \in [DOMAIN map -> Nat]
                                              /\ \A t \in DOMAIN map : map[t] \in Nat
                   /\ \A T \in SUBSET Tabs : [T -> Nat] \subseteq LayoutMaps
BY DEF LayoutGroups, LayoutMaps

LEMMA TabsOfGroup == ASSUME NEW r \in LayoutGroup
                     PROVE  /\ r.tabs \in Seq(Tabs) /\ Layout!ToSet(r.tabs) \subseteq Tabs
                            /\ Layout!ToSet(r.tabs) = {} <=> r.tabs = <<>>
<1>1. r.tabs \in Seq(Tabs)
  BY DEF LayoutGroup
<1>2. Layout!ToSet(r.tabs) = {r.tabs[i] : i \in 1 .. Len(r.tabs)} /\ Len(r.tabs) \in Nat
  BY <1>1 DEF Layout!ToSet
<1>3. r.tabs = <<>> <=> Len(r.tabs) = 0
  BY <1>1
<1>4. Len(r.tabs) # 0 => 1 \in 1 .. Len(r.tabs)
  BY <1>2
<1>5. Len(r.tabs) = 0 => 1 .. Len(r.tabs) = {}
  OBVIOUS
<1>6. \A i \in 1 .. Len(r.tabs) : r.tabs[i] \in Tabs
  BY <1>1
<1> QED BY <1>1, <1>2, <1>3, <1>4, <1>5, <1>6

LEMMA TypesWith == /\ \A gr \in LayoutGroups, g \in Nat, r \in LayoutGroup : Layout!With(gr, g, r) \in LayoutGroups
                   /\ \A map \in LayoutMaps, t \in Tabs, g \in Nat : Layout!With(map, t, g) \in LayoutMaps
                   /\ \A gr \in LayoutGroups : \A X : Layout!Drop(gr, X) \in LayoutGroups
                   /\ \A map \in LayoutMaps : \A X : Layout!Drop(map, X) \in LayoutMaps
<1>1. ASSUME NEW gr \in LayoutGroups, NEW g \in Nat, NEW r \in LayoutGroup PROVE Layout!With(gr, g, r) \in LayoutGroups
  <2>1. gr \in [DOMAIN gr -> LayoutGroup] /\ DOMAIN gr \cup {g} \in SUBSET Nat
    BY GroupsAre
  <2>2. Layout!With(gr, g, r) \in [DOMAIN gr \cup {g} -> LayoutGroup]
    BY <2>1, WithType
  <2> QED BY <2>1, <2>2, GroupsAre
<1>2. ASSUME NEW map \in LayoutMaps, NEW t \in Tabs, NEW g \in Nat PROVE Layout!With(map, t, g) \in LayoutMaps
  <2>1. map \in [DOMAIN map -> Nat] /\ DOMAIN map \cup {t} \in SUBSET Tabs
    BY GroupsAre
  <2>2. Layout!With(map, t, g) \in [DOMAIN map \cup {t} -> Nat]
    BY <2>1, WithType
  <2> QED BY <2>1, <2>2, GroupsAre
<1>3. ASSUME NEW gr \in LayoutGroups, NEW X PROVE Layout!Drop(gr, X) \in LayoutGroups
  <2>1. gr \in [DOMAIN gr -> LayoutGroup] /\ DOMAIN gr \ X \in SUBSET Nat
    BY GroupsAre
  <2>2. Layout!Drop(gr, X) \in [DOMAIN gr \ X -> LayoutGroup]
    BY <2>1, DropIs
  <2> QED BY <2>1, <2>2, GroupsAre
<1>4. ASSUME NEW map \in LayoutMaps, NEW X PROVE Layout!Drop(map, X) \in LayoutMaps
  <2>1. map \in [DOMAIN map -> Nat] /\ DOMAIN map \ X \in SUBSET Tabs
    BY GroupsAre
  <2>2. Layout!Drop(map, X) \in [DOMAIN map \ X -> Nat]
    BY <2>1, DropIs
  <2> QED BY <2>1, <2>2, GroupsAre
<1> QED BY <1>1, <1>2, <1>3, <1>4

LEMMA KeepsAnew ==
  ASSUME NEW gr, NEW map, Keeps(gr, map), NEW g \in Nat, NEW r, GoodGroup(r), NEW map2 \in LayoutMaps,
         \A t \in Tabs : t \in DOMAIN map2 <=> t \in Layout!ToSet(r.tabs) \/ (t \in DOMAIN map /\ map[t] # g),
         \A t \in DOMAIN map2 : map2[t] = IF t \in Layout!ToSet(r.tabs) THEN g ELSE map[t],
         \A t \in Layout!ToSet(r.tabs) : t \in DOMAIN map => map[t] = g
  PROVE  Keeps(Layout!With(gr, g, r), map2)
<1> DEFINE h == Layout!With(gr, g, r)
<1>1. h \in LayoutGroups
  BY TypesWith DEF Keeps, GoodGroup
<1>2. DOMAIN h = DOMAIN gr \cup {g} /\ h[g] = r /\ \A y \in DOMAIN gr : y # g => h[y] = gr[y]
  BY DEF Layout!With
<1> HIDE DEF h
<1>3. \A x \in DOMAIN h : GoodGroup(h[x])
  BY <1>2 DEF Keeps
<1>4. /\ \A x \in DOMAIN h : Layout!ToSet(h[x].tabs) \subseteq Tabs
      /\ DOMAIN map2 \subseteq Tabs /\ DOMAIN map \subseteq Tabs
  BY <1>3, TabsOfGroup, GroupsAre DEF Keeps, GoodGroup
<1>5. ASSUME NEW t \in DOMAIN map2 PROVE map2[t] \in DOMAIN h /\ t \in Layout!ToSet(h[map2[t]].tabs)
  <2>1. CASE t \in Layout!ToSet(r.tabs)
    BY <1>2, <2>1
  <2>2. CASE t \notin Layout!ToSet(r.tabs)
    <3>1. t \in DOMAIN map /\ map[t] # g /\ map2[t] = map[t]
      BY <1>4, <2>2
    <3> QED BY <1>2, <3>1 DEF Keeps
  <2> QED BY <2>1, <2>2
<1>6. ASSUME NEW x \in DOMAIN h, NEW t \in Layout!ToSet(h[x].tabs) PROVE t \in DOMAIN map2 /\ map2[t] = x
  <2>1. t \in Tabs
    BY <1>4
  <2>2. CASE x = g
    BY <1>2, <2>1, <2>2
  <2>3. CASE x # g
    <3>1. x \in DOMAIN gr /\ h[x] = gr[x] /\ t \in DOMAIN map /\ map[t] = x
      BY <1>2, <2>3 DEF Keeps
    <3>2. t \in DOMAIN map2 /\ t \notin Layout!ToSet(r.tabs)
      BY <2>1, <2>3, <3>1
    <3> QED BY <3>1, <3>2
  <2> QED BY <2>2, <2>3
<1>7. Keeps(h, map2)
  BY <1>1, <1>3, <1>5, <1>6 DEF Keeps
<1> QED BY <1>7 DEF h

LEMMA KeepsLess ==
  ASSUME NEW gr, NEW map, Keeps(gr, map), NEW g \in DOMAIN gr
  PROVE  Keeps(Layout!Drop(gr, {g}), Layout!Drop(map, Layout!ToSet(gr[g].tabs)))
<1> DEFINE h == Layout!Drop(gr, {g})
           m == Layout!Drop(map, Layout!ToSet(gr[g].tabs))
<1>1. h \in LayoutGroups /\ m \in LayoutMaps
  BY TypesWith DEF Keeps
<1>2. DOMAIN h = DOMAIN gr \ {g} /\ \A x \in DOMAIN gr \ {g} : h[x] = gr[x]
  BY DropIs
<1>3. /\ DOMAIN m = DOMAIN map \ Layout!ToSet(gr[g].tabs)
      /\ \A t \in DOMAIN map \ Layout!ToSet(gr[g].tabs) : m[t] = map[t]
  BY DropIs
<1> HIDE DEF h, m
<1>4. \A x \in DOMAIN h : GoodGroup(h[x])
  BY <1>2 DEF Keeps
<1>5. ASSUME NEW t \in DOMAIN m PROVE m[t] \in DOMAIN h /\ t \in Layout!ToSet(h[m[t]].tabs)
  <2>1. t \in DOMAIN map /\ t \notin Layout!ToSet(gr[g].tabs) /\ m[t] = map[t]
    BY <1>3
  <2>2. map[t] \in DOMAIN gr /\ t \in Layout!ToSet(gr[map[t]].tabs) /\ map[t] # g
    BY <2>1 DEF Keeps
  <2> QED BY <1>2, <2>1, <2>2
<1>6. ASSUME NEW x \in DOMAIN h, NEW t \in Layout!ToSet(h[x].tabs) PROVE t \in DOMAIN m /\ m[t] = x
  <2>1. x \in DOMAIN gr /\ x # g /\ t \in DOMAIN map /\ map[t] = x
    BY <1>2 DEF Keeps
  <2>2. t \notin Layout!ToSet(gr[g].tabs)
    BY <2>1 DEF Keeps
  <2> QED BY <1>3, <2>1, <2>2
<1>7. Keeps(h, m)
  BY <1>1, <1>4, <1>5, <1>6 DEF Keeps
<1> QED BY <1>7 DEF h, m

LEMMA GroupIs == ASSUME NEW s \in Seq(Tabs), NEW a \in Tabs \cup {None}
                 PROVE  /\ Layout!Group(s, a) \in LayoutGroup
                        /\ Layout!Group(s, a).tabs = s /\ Layout!Group(s, a).activeTabId = a
BY DEF Layout!Group, LayoutGroup

LEMMA SeqTabs == ASSUME NEW s \in Seq(Tabs)
                 PROVE  /\ Layout!ToSet(s) = {s[i] : i \in 1 .. Len(s)} /\ Len(s) \in Nat
                        /\ Layout!ToSet(s) = {} <=> s = <<>>
                        /\ Layout!ToSet(s) \subseteq Tabs
<1>1. Layout!ToSet(s) = {s[i] : i \in 1 .. Len(s)} /\ Len(s) \in Nat
  BY DEF Layout!ToSet
<1>2. s = <<>> <=> Len(s) = 0
  OBVIOUS
<1>3. Len(s) # 0 => 1 \in 1 .. Len(s)
  BY <1>1
<1>4. Len(s) = 0 => 1 .. Len(s) = {}
  OBVIOUS
<1>5. \A i \in 1 .. Len(s) : s[i] \in Tabs
  OBVIOUS
<1> QED BY <1>1, <1>2, <1>3, <1>4, <1>5

LEMMA NoneIsNoTab == None \notin Tabs
BY WorkspaceConstants

LEMMA GoodWith == ASSUME NEW s \in Seq(Tabs), Layout!IsInjective(s), NEW a \in Layout!ToSet(s)
                  PROVE  GoodGroup(Layout!Group(s, a))
<1>1. a \in Tabs /\ s # <<>>
  BY SeqTabs
<1> QED BY <1>1, GroupIs DEF GoodGroup

LEMMA GoodEmpty == GoodGroup(Layout!Group(<<>>, None)) /\ Layout!ToSet(Layout!Group(<<>>, None).tabs) = {}
<1>1. <<>> \in Seq(Tabs) /\ None \in Tabs \cup {None}
  OBVIOUS
<1>2. Layout!Group(<<>>, None) \in LayoutGroup /\ Layout!Group(<<>>, None).tabs = <<>> /\ Layout!Group(<<>>, None).activeTabId = None
  BY <1>1, GroupIs
<1>3. Layout!IsInjective(<<>>) /\ Layout!ToSet(<<>>) = {}
  BY DEF Layout!IsInjective, Layout!ToSet
<1> QED BY <1>2, <1>3 DEF GoodGroup

LEMMA OneTab == ASSUME NEW t \in Tabs
                PROVE  <<t>> \in Seq(Tabs) /\ Layout!IsInjective(<<t>>) /\ Layout!ToSet(<<t>>) = {t}
BY DEF Layout!IsInjective, Layout!ToSet

LEMMA GoodSingle == ASSUME NEW t \in Tabs
                    PROVE  GoodGroup(Layout!Group(<<t>>, t)) /\ Layout!ToSet(Layout!Group(<<t>>, t).tabs) = {t}
<1>1. <<t>> \in Seq(Tabs) /\ Layout!IsInjective(<<t>>) /\ Layout!ToSet(<<t>>) = {t} /\ t \in Tabs \cup {None}
  BY OneTab
<1>2. Layout!Group(<<t>>, t).tabs = <<t>>
  BY <1>1, GroupIs
<1> QED BY <1>1, <1>2, GoodWith

LEMMA GoodWithout ==
  ASSUME NEW r, GoodGroup(r), NEW t \in Layout!ToSet(r.tabs)
  PROVE  /\ GoodGroup(Layout!Without(r, t)) /\ Layout!Without(r, t).tabs = Layout!Minus(r.tabs, t)
         /\ Layout!ToSet(Layout!Without(r, t).tabs) = Layout!ToSet(r.tabs) \ {t}
<1> DEFINE rest == Layout!Minus(r.tabs, t)
           i == Layout!At(r.tabs, t)
           a == IF r.activeTabId = t THEN Layout!Adjacent(rest, i) ELSE r.activeTabId
<1>1. r \in LayoutGroup /\ r.tabs \in Seq(Tabs) /\ Layout!IsInjective(r.tabs) /\ r.activeTabId \in Layout!ToSet(r.tabs)
  <2>1. r \in LayoutGroup /\ r.tabs \in Seq(Tabs) /\ Layout!IsInjective(r.tabs) /\ r.tabs # <<>>
    BY TabsOfGroup DEF GoodGroup
  <2> QED BY <2>1 DEF GoodGroup
<1>2. /\ rest \in Seq(Tabs) /\ Layout!IsInjective(rest) /\ Layout!ToSet(rest) = Layout!ToSet(r.tabs) \ {t}
      /\ i \in 1 .. Len(r.tabs)
  BY <1>1, TakenOut
<1>3. Layout!Without(r, t) = Layout!Group(rest, a)
  BY DEF Layout!Without
<1> HIDE DEF rest, i
<1>4. /\ Layout!ToSet(rest) = {rest[j] : j \in 1 .. Len(rest)} /\ Len(rest) \in Nat
      /\ Layout!ToSet(rest) = {} <=> rest = <<>>
      /\ Layout!ToSet(rest) \subseteq Tabs
  BY <1>2, SeqTabs
<1>5. IF rest = <<>> THEN a = None ELSE a \in Layout!ToSet(rest)
  <2>1. CASE r.activeTabId # t
    BY <1>1, <1>2, <1>4, <2>1
  <2>2. CASE r.activeTabId = t /\ rest = <<>>
    BY <2>2 DEF Layout!Adjacent
  <2>3. CASE r.activeTabId = t /\ rest # <<>>
    <3>1. Len(rest) \in 1 .. Len(rest) /\ (i <= Len(rest) => i \in 1 .. Len(rest))
      BY <1>2, <1>4, <2>3
    <3>2. Layout!Adjacent(rest, i) = IF i <= Len(rest) THEN rest[i] ELSE rest[Len(rest)]
      BY <2>3 DEF Layout!Adjacent, Layout!Last
    <3> QED BY <1>4, <2>3, <3>1, <3>2
  <2> QED BY <2>1, <2>2, <2>3
<1>6. a \in Tabs \cup {None}
  BY <1>4, <1>5
<1> HIDE DEF a
<1>7. Layout!Group(rest, a) \in LayoutGroup /\ Layout!Group(rest, a).tabs = rest /\ Layout!Group(rest, a).activeTabId = a
  BY <1>2, <1>6, GroupIs
<1>8. GoodGroup(Layout!Group(rest, a))
  BY <1>2, <1>5, <1>7 DEF GoodGroup
<1> QED BY <1>2, <1>3, <1>7, <1>8 DEF rest

LEMMA GoodPut ==
  ASSUME NEW s \in Seq(Tabs), Layout!IsInjective(s), NEW t \in Tabs, t \notin Layout!ToSet(s), NEW k \in 1 .. (Len(s) + 1)
  PROVE  LET r == Layout!Group(Layout!InsertAt(s, k, t), t)
         IN  GoodGroup(r) /\ Layout!ToSet(r.tabs) = Layout!ToSet(s) \cup {t}
<1> DEFINE w == Layout!InsertAt(s, k, t)
<1>1. w \in Seq(Tabs) /\ Layout!IsInjective(w) /\ Layout!ToSet(w) = Layout!ToSet(s) \cup {t}
  BY MoreOnce
<1> HIDE DEF w
<1>2. GoodGroup(Layout!Group(w, t)) /\ Layout!Group(w, t).tabs = w
  BY <1>1, GoodWith, GroupIs
<1> QED BY <1>1, <1>2 DEF w

(* A run of the sessions around a pivot *)
LEMMA GoodRun ==
  ASSUME NEW r, GoodGroup(r), NEW m \in Nat, NEW n \in Nat, 1 <= m, m <= n, n <= Len(r.tabs)
  PROVE  LET w == SubSeq(r.tabs, m, n)
         IN  /\ w \in Seq(Tabs) /\ Layout!IsInjective(w) /\ Layout!ToSet(w) \subseteq Layout!ToSet(r.tabs)
             /\ r.tabs[m] \in Layout!ToSet(w) /\ r.tabs[n] \in Layout!ToSet(w)
<1> DEFINE w == SubSeq(r.tabs, m, n)
<1>1. r.tabs \in Seq(Tabs) /\ \A a, b \in 1 .. Len(r.tabs) : r.tabs[a] = r.tabs[b] => a = b
  BY TabsOfGroup DEF GoodGroup, Layout!IsInjective
<1>2. /\ w \in Seq(Tabs) /\ Len(w) = n + 1 - m /\ \A i \in 1 .. (n + 1 - m) : w[i] = r.tabs[i + m - 1]
  BY <1>1, Slice
<1> HIDE DEF w
<1>3. DOMAIN w = 1 .. (n + 1 - m) /\ DOMAIN r.tabs = 1 .. Len(r.tabs) /\ Len(r.tabs) \in Nat
  BY <1>1, <1>2
<1>4. \A i \in 1 .. (n + 1 - m) : i + m - 1 \in 1 .. Len(r.tabs)
  BY <1>3
<1>5. Layout!IsInjective(w)
  <2> SUFFICES ASSUME NEW i \in 1 .. (n + 1 - m), NEW j \in 1 .. (n + 1 - m), w[i] = w[j] PROVE i = j
    BY <1>3 DEF Layout!IsInjective
  <2>1. i + m - 1 = j + m - 1
    BY <1>1, <1>2, <1>4
  <2> QED BY <2>1
<1>6. ASSUME NEW x \in Layout!ToSet(w) PROVE x \in Layout!ToSet(r.tabs)
  <2>1. PICK i \in 1 .. (n + 1 - m) : x = w[i]
    BY <1>3 DEF Layout!ToSet
  <2> QED BY <1>2, <1>3, <1>4, <2>1 DEF Layout!ToSet
<1>7. r.tabs[m] \in Layout!ToSet(w) /\ r.tabs[n] \in Layout!ToSet(w)
  <2>1. 1 \in 1 .. (n + 1 - m) /\ n + 1 - m \in 1 .. (n + 1 - m) /\ 1 + m - 1 = m /\ n + 1 - m + m - 1 = n
    OBVIOUS
  <2>2. w[1] = r.tabs[m] /\ w[n + 1 - m] = r.tabs[n]
    BY <1>2, <2>1
  <2> QED BY <1>3, <2>1, <2>2 DEF Layout!ToSet
<1> QED BY <1>2, <1>5, <1>6, <1>7 DEF w

(***************************************************************************)
(* Pages and panes: states of the reducer                                  *)
(***************************************************************************)
LayoutStates ==
  [groups : LayoutGroups, activeGroupId : Nat, gridLayout : Seq(Nat), nextGroupId : Nat, tabToGroupMap : LayoutMaps,
   pages : Seq(LayoutPage), activePageId : Nat, nextPageId : Nat]
(* The pages as they are once the live grid and focus are written onto theirs *)
View(s) ==
  [i \in DOMAIN s.pages |-> IF s.pages[i].id = s.activePageId
                            THEN Layout!Page(s.pages[i].id, s.gridLayout, s.activeGroupId) ELSE s.pages[i]]
Arranged(s) ==
  /\ Placed(DOMAIN s.groups, View(s))
  /\ \E l \in 1 .. Len(s.pages) : s.pages[l].id = s.activePageId
Counted(s) ==
  /\ \A g \in DOMAIN s.groups : g < s.nextGroupId /\ 0 < g
  /\ \A i \in 1 .. Len(s.pages) : s.pages[i].id < s.nextPageId /\ 0 < s.pages[i].id
LayoutGood(s) == s \in LayoutStates /\ Arranged(s) /\ Counted(s) /\ Keeps(s.groups, s.tabToGroupMap)

LEMMA PageIs == \A id, f \in Nat, grid \in Seq(Nat) :
                  /\ Layout!Page(id, grid, f) \in LayoutPage /\ Layout!Page(id, grid, f).id = id
                  /\ Layout!Page(id, grid, f).gridLayout = grid /\ Layout!Page(id, grid, f).activeGroupId = f
BY DEF Layout!Page, LayoutPage

LEMMA PageAgain == \A p \in LayoutPage : p = Layout!Page(p.id, p.gridLayout, p.activeGroupId)
BY DEF Layout!Page, LayoutPage

LEMMA SameSeq == ASSUME NEW S, NEW s \in Seq(S), NEW t \in Seq(S), Len(s) = Len(t), \A i \in 1 .. Len(s) : s[i] = t[i]
                 PROVE  s = t
<1>1. s \in [1 .. Len(s) -> S] /\ t \in [1 .. Len(s) -> S]
  OBVIOUS
<1> QED BY <1>1

LEMMA ViewIs ==
  ASSUME NEW s \in LayoutStates
  PROVE  LET V == View(s)
         IN  /\ V \in Seq(LayoutPage) /\ Len(V) = Len(s.pages)
             /\ \A i \in 1 .. Len(s.pages) :
                  /\ s.pages[i] \in LayoutPage /\ V[i].id = s.pages[i].id
                  /\ V[i] = IF s.pages[i].id = s.activePageId
                            THEN Layout!Page(s.activePageId, s.gridLayout, s.activeGroupId) ELSE s.pages[i]
<1> DEFINE P == s.pages
           V == View(s)
<1>1. P \in Seq(LayoutPage) /\ s.activePageId \in Nat /\ s.gridLayout \in Seq(Nat) /\ s.activeGroupId \in Nat
  BY DEF LayoutStates
<1>2. Len(P) \in Nat /\ DOMAIN P = 1 .. Len(P) /\ \A i \in 1 .. Len(P) : P[i] \in LayoutPage
  BY <1>1
<1>3. V = [i \in 1 .. Len(P) |-> IF P[i].id = s.activePageId THEN Layout!Page(P[i].id, s.gridLayout, s.activeGroupId)
                                 ELSE P[i]]
  BY <1>2 DEF View
<1>4. \A i \in 1 .. Len(P) : V[i] = IF P[i].id = s.activePageId
                                     THEN Layout!Page(s.activePageId, s.gridLayout, s.activeGroupId) ELSE P[i]
  BY <1>3
<1> DEFINE p == Layout!Page(s.activePageId, s.gridLayout, s.activeGroupId)
<1>5. p \in LayoutPage /\ p.id = s.activePageId
  BY <1>1, PageIs
<1> HIDE DEF p
<1>6. \A i \in 1 .. Len(P) : V[i] \in LayoutPage /\ V[i].id = P[i].id
  BY <1>2, <1>4, <1>5 DEF p
<1>7. V \in Seq(LayoutPage) /\ Len(V) = Len(P)
  <2> HIDE DEF V, P
  <2>1. V \in [1 .. Len(P) -> LayoutPage]
    BY <1>3, <1>6
  <2> QED BY <1>2, <2>1
<1> QED BY <1>2, <1>4, <1>6, <1>7

LEMMA RememberIs ==
  ASSUME NEW s \in LayoutStates
  PROVE  LET r == Layout!Remember(s)
         IN  /\ r \in LayoutStates /\ r.pages = View(s)
             /\ r.groups = s.groups /\ r.activeGroupId = s.activeGroupId /\ r.gridLayout = s.gridLayout
             /\ r.nextGroupId = s.nextGroupId /\ r.tabToGroupMap = s.tabToGroupMap
             /\ r.activePageId = s.activePageId /\ r.nextPageId = s.nextPageId
<1>1. View(s) \in Seq(LayoutPage)
  BY ViewIs
<1>2. Layout!Remember(s) = [s EXCEPT !.pages = View(s)]
  BY DEF Layout!Remember, View, LayoutStates
<1> QED BY <1>1, <1>2 DEF LayoutStates

(* What a good state says of the pages as viewed *)
LEMMA ArrangedIs ==
  ASSUME NEW s \in LayoutStates, Arranged(s)
  PROVE  LET P == View(s)
         IN  /\ P \in Seq(LayoutPage) /\ Len(P) = Len(s.pages) /\ s.pages \in Seq(LayoutPage)
             /\ \A i \in 1 .. Len(P) :
                  /\ P[i] \in LayoutPage /\ s.pages[i] \in LayoutPage /\ P[i].id = s.pages[i].id
                  /\ P[i] = IF s.pages[i].id = s.activePageId
                            THEN Layout!Page(s.activePageId, s.gridLayout, s.activeGroupId) ELSE s.pages[i]
                  /\ Layout!IsInjective(P[i].gridLayout) /\ Layout!ToSet(P[i].gridLayout) \subseteq DOMAIN s.groups
                  /\ P[i].activeGroupId \in Layout!ToSet(P[i].gridLayout) /\ P[i].gridLayout \in Seq(Nat)
             /\ \A i, j \in 1 .. Len(P) : i # j =>
                  /\ P[i].id # P[j].id
                  /\ \A g \in Layout!ToSet(P[i].gridLayout) : g \notin Layout!ToSet(P[j].gridLayout)
             /\ \A g \in DOMAIN s.groups : \E i \in 1 .. Len(P) : g \in Layout!ToSet(P[i].gridLayout)
             /\ \E l \in 1 .. Len(P) : P[l].id = s.activePageId
<1> DEFINE P == View(s)
<1>1. s.pages \in Seq(LayoutPage) /\ s.activePageId \in Nat /\ s.gridLayout \in Seq(Nat) /\ s.activeGroupId \in Nat
  BY DEF LayoutStates
<1>2. /\ P \in Seq(LayoutPage) /\ Len(P) = Len(s.pages)
      /\ \A i \in 1 .. Len(s.pages) :
           /\ s.pages[i] \in LayoutPage /\ P[i].id = s.pages[i].id
           /\ P[i] = IF s.pages[i].id = s.activePageId
                     THEN Layout!Page(s.activePageId, s.gridLayout, s.activeGroupId) ELSE s.pages[i]
  BY ViewIs
<1>3. /\ Layout!IsInjective(P) /\ Shows(DOMAIN s.groups, Layout!ToSet(P))
      /\ \E l \in 1 .. Len(s.pages) : s.pages[l].id = s.activePageId
  BY DEF Arranged, Placed
<1> HIDE DEF P
<1>4. DOMAIN P = 1 .. Len(P) /\ Layout!ToSet(P) = {P[i] : i \in 1 .. Len(P)} /\ \A i \in 1 .. Len(P) : P[i] \in LayoutPage
  BY <1>2 DEF Layout!ToSet
<1>5. \A i, j \in 1 .. Len(P) : i # j => P[i] # P[j]
  BY <1>3, <1>4 DEF Layout!IsInjective
<1>6. \A i \in 1 .. Len(P) :
           /\ Layout!IsInjective(P[i].gridLayout) /\ Layout!ToSet(P[i].gridLayout) \subseteq DOMAIN s.groups
           /\ P[i].activeGroupId \in Layout!ToSet(P[i].gridLayout) /\ P[i].gridLayout \in Seq(Nat)
  BY <1>3, <1>4 DEF Shows, LayoutPage
<1>7. \A i, j \in 1 .. Len(P) : i # j =>
           /\ P[i].id # P[j].id
           /\ \A g \in Layout!ToSet(P[i].gridLayout) : g \notin Layout!ToSet(P[j].gridLayout)
  BY <1>3, <1>4, <1>5 DEF Shows
<1>8. \A g \in DOMAIN s.groups : \E i \in 1 .. Len(P) : g \in Layout!ToSet(P[i].gridLayout)
  BY <1>3, <1>4 DEF Shows
<1>9. \E l \in 1 .. Len(P) : P[l].id = s.activePageId
  BY <1>2, <1>3
<1>10. /\ P \in Seq(LayoutPage) /\ Len(P) = Len(s.pages) /\ s.pages \in Seq(LayoutPage)
       /\ \A i \in 1 .. Len(P) :
            /\ P[i] \in LayoutPage /\ s.pages[i] \in LayoutPage /\ P[i].id = s.pages[i].id
            /\ P[i] = IF s.pages[i].id = s.activePageId
                      THEN Layout!Page(s.activePageId, s.gridLayout, s.activeGroupId) ELSE s.pages[i]
  BY <1>1, <1>2, <1>4
<1> QED BY <1>6, <1>7, <1>8, <1>9, <1>10 DEF P

LEMMA PageAtIs == ASSUME NEW s \in LayoutStates, Arranged(s), NEW i \in 1 .. Len(s.pages)
                  PROVE  Layout!PageAt(s, s.pages[i].id) = i
<1>1. \A a, b \in 1 .. Len(s.pages) : a # b => s.pages[a].id # s.pages[b].id
  BY ArrangedIs
<1>2. {j \in 1 .. Len(s.pages) : s.pages[j].id = s.pages[i].id} = {i}
  BY <1>1
<1>3. Layout!Min({i}) = i
  BY DEF Layout!Min
<1> QED BY <1>2, <1>3 DEF Layout!PageAt, Layout!SelectInSeq

LEMMA OwnerIs ==
  ASSUME NEW s \in LayoutStates, Arranged(s), NEW i \in 1 .. Len(s.pages), NEW g \in Layout!ToSet(View(s)[i].gridLayout)
  PROVE  Layout!Owner(s, g) = i /\ Layout!GridOf(s, i) = View(s)[i].gridLayout
<1> DEFINE P == View(s)
<1>1. /\ P \in Seq(LayoutPage) /\ Len(P) = Len(s.pages) /\ s.pages \in Seq(LayoutPage)
      /\ \A a \in 1 .. Len(P) :
           /\ P[a].id = s.pages[a].id /\ s.pages[a] \in LayoutPage
           /\ P[a] = IF s.pages[a].id = s.activePageId
                     THEN Layout!Page(s.activePageId, s.gridLayout, s.activeGroupId) ELSE s.pages[a]
      /\ \A a, b \in 1 .. Len(P) : a # b =>
           P[a].id # P[b].id /\ \A h \in Layout!ToSet(P[a].gridLayout) : h \notin Layout!ToSet(P[b].gridLayout)
      /\ \E l \in 1 .. Len(P) : P[l].id = s.activePageId
  BY ArrangedIs
<1>2. s.gridLayout \in Seq(Nat) /\ s.activePageId \in Nat /\ s.activeGroupId \in Nat
  BY DEF LayoutStates
<1> HIDE DEF P
<1>3. \A a \in 1 .. Len(P) : P[a].gridLayout = IF s.pages[a].id = s.activePageId THEN s.gridLayout ELSE s.pages[a].gridLayout
  BY <1>1, <1>2, PageIs
<1>4. \A a \in 1 .. Len(P) : g \in Layout!ToSet(P[a].gridLayout) <=> a = i
  BY <1>1 DEF P
<1>5. PICK l \in 1 .. Len(P) : s.pages[l].id = s.activePageId
  BY <1>1
<1>6. \A a \in 1 .. Len(P) : s.pages[a].id = s.activePageId <=> a = l
  BY <1>1, <1>5
<1>7. Layout!Contains(s.gridLayout, g) <=> i = l
  <2>1. Layout!Contains(s.gridLayout, g) <=> g \in Layout!ToSet(s.gridLayout)
    BY <1>2, Members
  <2>2. P[l].gridLayout = s.gridLayout
    BY <1>3, <1>5
  <2> QED BY <1>4, <2>1, <2>2
<1>8. s.activePageId \in Layout!PageIds(s)
  BY <1>1, <1>5 DEF Layout!PageIds, Layout!ToSet
<1>9. CASE i = l
  <2>1. Layout!PageAt(s, s.activePageId) = i
    BY <1>1, <1>5, <1>9, PageAtIs
  <2> QED BY <1>3, <1>5, <1>7, <1>8, <1>9, <2>1, <1>1 DEF Layout!Owner, Layout!GridOf, P
<1>10. CASE i # l
  <2>1. \A a \in 1 .. Len(s.pages) : s.pages[a].id # s.activePageId /\ Layout!Contains(s.pages[a].gridLayout, g) <=> a = i
    <3> SUFFICES ASSUME NEW a \in 1 .. Len(s.pages)
                 PROVE  s.pages[a].id # s.activePageId /\ Layout!Contains(s.pages[a].gridLayout, g) <=> a = i
      OBVIOUS
    <3>1. s.pages[a].gridLayout \in Seq(Nat)
      BY <1>1 DEF LayoutPage
    <3>2. Layout!Contains(s.pages[a].gridLayout, g) <=> g \in Layout!ToSet(s.pages[a].gridLayout)
      BY <3>1, Members
    <3>3. s.pages[a].id # s.activePageId => s.pages[a].gridLayout = P[a].gridLayout
      BY <1>1, <1>3
    <3> QED BY <1>1, <1>4, <1>6, <1>10, <3>2, <3>3
  <2>2. {a \in 1 .. Len(s.pages) : s.pages[a].id # s.activePageId /\ Layout!Contains(s.pages[a].gridLayout, g)} = {i}
    BY <1>1, <2>1
  <2>3. Layout!Min({i}) = i
    BY DEF Layout!Min
  <2>4. Layout!Owner(s, g) = i
    BY <1>7, <1>10, <2>2, <2>3 DEF Layout!Owner, Layout!SelectInSeq
  <2>5. Layout!GridOf(s, i) = P[i].gridLayout
    BY <1>1, <1>3, <1>6, <1>10 DEF Layout!GridOf
  <2> QED BY <2>4, <2>5 DEF P
<1> QED BY <1>9, <1>10

(* A group and what it had leave the records. *)
LEMMA Dropping ==
  ASSUME NEW s, LayoutGood(s), NEW g \in DOMAIN s.groups
  PROVE  LET r == [s EXCEPT !.groups = Layout!Drop(@, {g}), !.tabToGroupMap = Layout!Drop(@, Layout!ToSet(s.groups[g].tabs))]
         IN  /\ r \in LayoutStates /\ Keeps(r.groups, r.tabToGroupMap) /\ DOMAIN r.groups = DOMAIN s.groups \ {g}
             /\ r.activeGroupId = s.activeGroupId /\ r.gridLayout = s.gridLayout /\ r.nextGroupId = s.nextGroupId
             /\ r.pages = s.pages /\ r.activePageId = s.activePageId /\ r.nextPageId = s.nextPageId
<1> DEFINE gr == Layout!Drop(s.groups, {g})
           map == Layout!Drop(s.tabToGroupMap, Layout!ToSet(s.groups[g].tabs))
<1>1. s \in LayoutStates /\ s.groups \in LayoutGroups /\ s.tabToGroupMap \in LayoutMaps
  BY DEF LayoutGood, LayoutStates
<1>2. Keeps(gr, map) /\ DOMAIN gr = DOMAIN s.groups \ {g}
  BY KeepsLess, DropIs DEF LayoutGood
<1>3. gr \in LayoutGroups /\ map \in LayoutMaps
  BY <1>2 DEF Keeps
<1> DEFINE r == [s EXCEPT !.groups = Layout!Drop(@, {g}), !.tabToGroupMap = Layout!Drop(@, Layout!ToSet(s.groups[g].tabs))]
<1>4. r = [s EXCEPT !.groups = gr, !.tabToGroupMap = map]
  BY <1>1
<1> HIDE DEF gr, map, r
<1>5. /\ r \in LayoutStates /\ r.groups = gr /\ r.tabToGroupMap = map
      /\ r.activeGroupId = s.activeGroupId /\ r.gridLayout = s.gridLayout /\ r.nextGroupId = s.nextGroupId
      /\ r.pages = s.pages /\ r.activePageId = s.activePageId /\ r.nextPageId = s.nextPageId
  BY <1>1, <1>3, <1>4 DEF LayoutStates
<1> QED BY <1>2, <1>5 DEF r

(* What follows for the whole state *)
LEMMA GoodAgain ==
  ASSUME NEW s, LayoutGood(s), NEW r \in LayoutStates, Keeps(r.groups, r.tabToGroupMap),
         DOMAIN r.groups \subseteq DOMAIN s.groups, r.nextGroupId = s.nextGroupId, r.nextPageId = s.nextPageId,
         Placed(DOMAIN r.groups, View(r)), \E l \in 1 .. Len(r.pages) : r.pages[l].id = r.activePageId,
         \A a \in 1 .. Len(r.pages) : \E b \in 1 .. Len(s.pages) : r.pages[a].id = s.pages[b].id
  PROVE  LayoutGood(r)
<1>1. Arranged(r)
  BY DEF Arranged
<1>2. Counted(r)
  BY DEF Counted, LayoutGood
<1> QED BY <1>1, <1>2 DEF LayoutGood

LEMMA Dropped ==
  ASSUME NEW s, LayoutGood(s), NEW g \in DOMAIN s.groups, \E h \in DOMAIN s.groups : h # g,
         \A a \in 1 .. Len(s.pages) : s.pages[a].id = s.activePageId =>
                                        s.pages[a].activeGroupId \in Layout!ToSet(s.gridLayout)
  PROVE  LayoutGood(Layout!DropGroup(s, g))
<1> DEFINE P == View(s)
           G == DOMAIN s.groups
           live == s.activePageId
<1>1. /\ s \in LayoutStates /\ Arranged(s) /\ s.pages \in Seq(LayoutPage) /\ s.gridLayout \in Seq(Nat)
      /\ live \in Nat /\ s.activeGroupId \in Nat /\ G \subseteq Nat
  BY GroupsAre DEF LayoutGood, LayoutStates
<1>2. /\ P \in Seq(LayoutPage) /\ Len(P) = Len(s.pages)
      /\ \A a \in 1 .. Len(P) :
           /\ P[a] \in LayoutPage /\ s.pages[a] \in LayoutPage /\ P[a].id = s.pages[a].id
           /\ P[a] = IF s.pages[a].id = live THEN Layout!Page(live, s.gridLayout, s.activeGroupId) ELSE s.pages[a]
           /\ Layout!IsInjective(P[a].gridLayout) /\ Layout!ToSet(P[a].gridLayout) \subseteq G
           /\ P[a].activeGroupId \in Layout!ToSet(P[a].gridLayout) /\ P[a].gridLayout \in Seq(Nat)
      /\ \A a, b \in 1 .. Len(P) : a # b =>
           P[a].id # P[b].id /\ \A h \in Layout!ToSet(P[a].gridLayout) : h \notin Layout!ToSet(P[b].gridLayout)
      /\ \A h \in G : \E a \in 1 .. Len(P) : h \in Layout!ToSet(P[a].gridLayout)
      /\ \E l \in 1 .. Len(P) : P[l].id = live
  BY <1>1, ArrangedIs
<1>3. Placed(G, P)
  BY <1>1 DEF Arranged
<1>4. PICK i \in 1 .. Len(P) : g \in Layout!ToSet(P[i].gridLayout)
  BY <1>2
<1>5. Layout!Owner(s, g) = i /\ Layout!GridOf(s, i) = P[i].gridLayout /\ i # 0
  <2>1. i \in 1 .. Len(s.pages) /\ i # 0
    BY <1>2
  <2> QED BY <1>1, <1>4, <2>1, OwnerIs
<1> DEFINE grid == Layout!Minus(P[i].gridLayout, g)
           kept == Layout!RemoveAt(s.pages, i)
           focus == IF s.pages[i].activeGroupId = g THEN Head(grid) ELSE s.pages[i].activeGroupId
           rest == [s EXCEPT !.groups = Layout!Drop(@, {g}),
                             !.tabToGroupMap = Layout!Drop(@, Layout!ToSet(s.groups[g].tabs))]
           next == kept[IF i <= Len(kept) THEN i ELSE Len(kept)]
           r == Layout!DropGroup(s, g)
<1>6. grid \in Seq(Nat) /\ Layout!IsInjective(grid) /\ Layout!ToSet(grid) = Layout!ToSet(P[i].gridLayout) \ {g}
  BY <1>2, <1>4, TakenOut
<1>7. /\ rest \in LayoutStates /\ Keeps(rest.groups, rest.tabToGroupMap) /\ DOMAIN rest.groups = G \ {g}
      /\ rest.activeGroupId = s.activeGroupId /\ rest.gridLayout = s.gridLayout /\ rest.nextGroupId = s.nextGroupId
      /\ rest.pages = s.pages /\ rest.activePageId = live /\ rest.nextPageId = s.nextPageId
  BY Dropping
<1>8. r = IF grid # <<>> THEN
            IF s.pages[i].id = live
            THEN [rest EXCEPT !.gridLayout = grid, !.activeGroupId = IF @ = g THEN focus ELSE @]
            ELSE [rest EXCEPT !.pages[i] = Layout!Page(@.id, grid, focus)]
          ELSE IF kept = <<>> THEN r
          ELSE IF ~(s.pages[i].id = live) THEN [rest EXCEPT !.pages = kept]
          ELSE [rest EXCEPT !.pages = kept, !.activePageId = next.id, !.gridLayout = next.gridLayout,
                  !.activeGroupId = IF next.activeGroupId \in DOMAIN rest.groups
                                    THEN next.activeGroupId ELSE Head(next.gridLayout)]
  BY <1>5 DEF Layout!DropGroup
<1>9. \E a \in 1 .. Len(P) : P[a].id = live /\ s.pages[a].id = live
  BY <1>2
<1> HIDE DEF P, grid, kept, focus, rest, next, r
<1>11. CASE grid # <<>> /\ s.pages[i].id = live
  <2> DEFINE f == IF s.activeGroupId = g THEN focus ELSE s.activeGroupId
  <2>1. r = [rest EXCEPT !.gridLayout = grid, !.activeGroupId = f]
    BY <1>7, <1>8, <1>11
  <2>2. P[i] = Layout!Page(live, s.gridLayout, s.activeGroupId) /\ P[i].gridLayout = s.gridLayout /\ P[i].activeGroupId = s.activeGroupId
    BY <1>1, <1>2, <1>11, PageIs
  <2>3. f \in Layout!ToSet(grid)
    <3>1. CASE s.activeGroupId # g
      BY <1>2, <1>6, <2>2, <3>1
    <3>2. CASE s.activeGroupId = g /\ s.pages[i].activeGroupId # g
      BY <1>2, <1>6, <1>11, <2>2, <3>2 DEF focus
    <3>3. CASE s.activeGroupId = g /\ s.pages[i].activeGroupId = g
      <4>1. f = Head(grid)
        BY <3>3 DEF focus
      <4>2. Head(grid) = grid[1] /\ 1 \in DOMAIN grid
        BY <1>6, <1>11
      <4> QED BY <4>1, <4>2 DEF Layout!ToSet
    <3> QED BY <3>1, <3>2, <3>3
  <2>4. f \in Nat
    BY <1>6, <2>3, Members
  <2> HIDE DEF f
  <2>5. /\ r \in LayoutStates /\ r.groups = rest.groups /\ r.tabToGroupMap = rest.tabToGroupMap /\ r.pages = s.pages
        /\ r.gridLayout = grid /\ r.activeGroupId = f /\ r.activePageId = live
        /\ r.nextGroupId = s.nextGroupId /\ r.nextPageId = s.nextPageId
    BY <1>6, <1>7, <2>1, <2>4 DEF LayoutStates
  <2>6. /\ View(r) \in Seq(LayoutPage) /\ Len(View(r)) = Len(P)
        /\ \A a \in 1 .. Len(P) : View(r)[a] = IF s.pages[a].id = live THEN Layout!Page(live, grid, f) ELSE s.pages[a]
    BY <1>2, <2>5, ViewIs
  <2>7. \A a \in 1 .. Len(P) : a # i => View(r)[a] = P[a]
    BY <1>2, <1>11, <2>6
  <2>8. View(r)[i] = Layout!Page(live, grid, f) /\ View(r)[i].gridLayout = grid /\ View(r)[i].id = live
        /\ View(r)[i].activeGroupId = f /\ View(r)[i] \in LayoutPage
    <3>1. View(r)[i] = Layout!Page(live, grid, f)
      BY <1>2, <1>11, <2>6
    <3>2. /\ Layout!Page(live, grid, f) \in LayoutPage /\ Layout!Page(live, grid, f).id = live
          /\ Layout!Page(live, grid, f).gridLayout = grid /\ Layout!Page(live, grid, f).activeGroupId = f
      <4>1. live \in Nat /\ grid \in Seq(Nat) /\ f \in Nat
        BY <1>1, <1>6, <2>4
      <4> QED BY <4>1, PageIs
    <3> QED BY <3>1, <3>2
  <2>9. Fits(View(r)[i], G \ Layout!ToSet(P[i].gridLayout)) /\ View(r)[i].id = P[i].id
    BY <1>2, <1>6, <1>11, <2>3, <2>8 DEF Fits
  <2>10. Placed((G \ Layout!ToSet(P[i].gridLayout)) \cup Layout!ToSet(View(r)[i].gridLayout), View(r))
    BY <1>3, <2>6, <2>7, <2>9, PlacedAnew
  <2>11. (G \ Layout!ToSet(P[i].gridLayout)) \cup Layout!ToSet(View(r)[i].gridLayout) = DOMAIN r.groups
    BY <1>2, <1>4, <1>6, <1>7, <2>5, <2>8
  <2>12. /\ \E l \in 1 .. Len(r.pages) : r.pages[l].id = r.activePageId
         /\ \A a \in 1 .. Len(r.pages) : \E b \in 1 .. Len(s.pages) : r.pages[a].id = s.pages[b].id
    BY <1>2, <1>9, <2>5
  <2>13. Keeps(r.groups, r.tabToGroupMap) /\ DOMAIN r.groups \subseteq G /\ Placed(DOMAIN r.groups, View(r))
    BY <1>7, <2>5, <2>10, <2>11
  <2>14. LayoutGood(r)
    BY <2>5, <2>12, <2>13, GoodAgain
  <2> QED BY <2>14 DEF r
<1>12. CASE grid # <<>> /\ s.pages[i].id # live
  <2>1. r = [rest EXCEPT !.pages[i] = Layout!Page(@.id, grid, focus)]
    BY <1>8, <1>12
  <2>2. P[i] = s.pages[i]
    BY <1>2, <1>12
  <2>3. focus \in Layout!ToSet(grid)
    <3>1. CASE s.pages[i].activeGroupId # g
      BY <1>2, <1>6, <2>2, <3>1 DEF focus
    <3>2. CASE s.pages[i].activeGroupId = g
      <4>1. focus = Head(grid)
        BY <3>2 DEF focus
      <4>2. Head(grid) = grid[1] /\ 1 \in DOMAIN grid
        BY <1>6, <1>12
      <4> QED BY <4>1, <4>2 DEF Layout!ToSet
    <3> QED BY <3>1, <3>2
  <2>4. focus \in Nat
    BY <1>6, <2>3, Members
  <2> DEFINE p == Layout!Page(s.pages[i].id, grid, focus)
  <2>5. p \in LayoutPage /\ p.id = P[i].id /\ p.gridLayout = grid /\ p.activeGroupId = focus
    <3>1. s.pages[i].id \in Nat /\ P[i].id = s.pages[i].id
      BY <1>2, <2>2 DEF LayoutPage
    <3> QED BY <1>6, <2>4, <3>1, PageIs
  <2>6. r = [rest EXCEPT !.pages = [s.pages EXCEPT ![i] = p]]
    BY <1>7, <2>1 DEF LayoutStates
  <2> DEFINE pages == [s.pages EXCEPT ![i] = p]
  <2>7. /\ pages \in Seq(LayoutPage) /\ Len(pages) = Len(P) /\ pages[i] = p
        /\ \A a \in 1 .. Len(P) : a # i => pages[a] = s.pages[a]
    BY <1>1, <1>2, <2>5
  <2> HIDE DEF p, pages
  <2>8. /\ r \in LayoutStates /\ r.groups = rest.groups /\ r.tabToGroupMap = rest.tabToGroupMap /\ r.pages = pages
        /\ r.gridLayout = s.gridLayout /\ r.activeGroupId = s.activeGroupId /\ r.activePageId = live
        /\ r.nextGroupId = s.nextGroupId /\ r.nextPageId = s.nextPageId
    BY <1>7, <2>6, <2>7 DEF LayoutStates, pages
  <2>9. /\ View(r) \in Seq(LayoutPage) /\ Len(View(r)) = Len(P)
        /\ \A a \in 1 .. Len(P) : View(r)[a] = IF pages[a].id = live
                                               THEN Layout!Page(live, s.gridLayout, s.activeGroupId) ELSE pages[a]
    BY <2>7, <2>8, ViewIs
  <2>10. \A a \in 1 .. Len(P) : a # i => View(r)[a] = P[a]
    BY <1>2, <2>7, <2>9
  <2>11. View(r)[i] = p
    BY <1>2, <1>12, <2>5, <2>7, <2>9
  <2>12. Fits(View(r)[i], G \ Layout!ToSet(P[i].gridLayout)) /\ View(r)[i].id = P[i].id
    BY <1>6, <2>3, <2>5, <2>11 DEF Fits
  <2>13. Placed((G \ Layout!ToSet(P[i].gridLayout)) \cup Layout!ToSet(View(r)[i].gridLayout), View(r))
    BY <1>3, <2>9, <2>10, <2>12, PlacedAnew
  <2>14. (G \ Layout!ToSet(P[i].gridLayout)) \cup Layout!ToSet(View(r)[i].gridLayout) = DOMAIN r.groups
    BY <1>2, <1>4, <1>6, <1>7, <2>5, <2>8, <2>11
  <2>15. \A a \in 1 .. Len(P) : pages[a].id = s.pages[a].id
    BY <1>2, <2>5, <2>7
  <2>16. /\ \E l \in 1 .. Len(r.pages) : r.pages[l].id = r.activePageId
         /\ \A a \in 1 .. Len(r.pages) : \E b \in 1 .. Len(s.pages) : r.pages[a].id = s.pages[b].id
    BY <1>2, <1>9, <2>7, <2>8, <2>15
  <2>17. Keeps(r.groups, r.tabToGroupMap) /\ DOMAIN r.groups \subseteq G /\ Placed(DOMAIN r.groups, View(r))
    BY <1>7, <2>8, <2>13, <2>14
  <2>18. LayoutGood(r)
    BY <2>8, <2>16, <2>17, GoodAgain
  <2> QED BY <2>18 DEF r
<1>13. ASSUME grid = <<>> PROVE LayoutGood(r)
  <2>1. Layout!ToSet(P[i].gridLayout) = {g}
    <3>1. Layout!ToSet(grid) = {}
      BY <1>13 DEF Layout!ToSet
    <3> QED BY <1>4, <1>6, <3>1
  <2>2. /\ kept \in Seq(LayoutPage) /\ Len(kept) = Len(P) - 1
        /\ \A a \in 1 .. (Len(P) - 1) : kept[a] = IF a < i THEN s.pages[a] ELSE s.pages[a + 1]
    <3>1. i \in 1 .. Len(s.pages) /\ kept = Layout!RemoveAt(s.pages, i)
      BY <1>2 DEF kept
    <3>2. /\ kept \in Seq(LayoutPage) /\ Len(kept) = Len(s.pages) - 1
          /\ \A a \in 1 .. Len(kept) : kept[a] = IF a < i THEN s.pages[a] ELSE s.pages[a + 1]
      BY <1>1, <3>1, OneLess
    <3> QED BY <1>2, <3>2
  <2> DEFINE Q == Layout!RemoveAt(P, i)
  <2>3. /\ Q \in Seq(LayoutPage) /\ Len(Q) = Len(P) - 1
        /\ \A a \in 1 .. (Len(P) - 1) : Q[a] = IF a < i THEN P[a] ELSE P[a + 1]
    <3>1. Q = Layout!RemoveAt(P, i)
      OBVIOUS
    <3> HIDE DEF Q
    <3>2. P \in Seq(LayoutPage) /\ i \in 1 .. Len(P)
      BY <1>2
    <3>3. /\ Q \in Seq(LayoutPage) /\ Len(Q) = Len(P) - 1
          /\ \A a \in 1 .. Len(Q) : Q[a] = IF a < i THEN P[a] ELSE P[a + 1]
      BY <3>1, <3>2, OneLess
    <3> QED BY <3>3
  <2>4. Placed(G \ {g}, Q)
    BY <1>3, <2>1, PlacedLess
  <2> HIDE DEF Q
  <2>5. Len(P) \in Nat /\ i \in Nat /\ 1 <= i /\ i <= Len(P)
    BY <1>2
  <2>6. \A a \in 1 .. Len(P) : a # i => \E b \in 1 .. (Len(P) - 1) : kept[b] = s.pages[a] /\ Q[b] = P[a]
    <3> SUFFICES ASSUME NEW a \in 1 .. Len(P), a # i
                 PROVE  \E b \in 1 .. (Len(P) - 1) : kept[b] = s.pages[a] /\ Q[b] = P[a]
      OBVIOUS
    <3>1. CASE a < i
      <4>1. a \in 1 .. (Len(P) - 1)
        BY <2>5, <3>1
      <4> QED BY <2>2, <2>3, <3>1, <4>1
    <3>2. CASE ~(a < i)
      <4>1. a - 1 \in 1 .. (Len(P) - 1) /\ ~(a - 1 < i) /\ a - 1 + 1 = a
        BY <2>5, <3>2
      <4> QED BY <2>2, <2>3, <4>1
    <3> QED BY <3>1, <3>2
  <2>7. \A b \in 1 .. (Len(P) - 1) : \E a \in 1 .. Len(P) : a # i /\ kept[b] = s.pages[a] /\ Q[b] = P[a]
    <3> SUFFICES ASSUME NEW b \in 1 .. (Len(P) - 1)
                 PROVE  \E a \in 1 .. Len(P) : a # i /\ kept[b] = s.pages[a] /\ Q[b] = P[a]
      OBVIOUS
    <3>1. CASE b < i
      BY <2>2, <2>3, <2>5, <3>1
    <3>2. CASE ~(b < i)
      <4>1. b + 1 \in 1 .. Len(P) /\ b + 1 # i
        BY <2>5, <3>2
      <4> QED BY <2>2, <2>3, <3>2, <4>1
    <3> QED BY <3>1, <3>2
  <2>8. \E b \in 1 .. (Len(P) - 1) : TRUE
    <3>1. PICK h \in G : h # g
      OBVIOUS
    <3>2. PICK a \in 1 .. Len(P) : h \in Layout!ToSet(P[a].gridLayout)
      BY <1>2
    <3>3. a # i
      BY <2>1, <3>1, <3>2
    <3> QED BY <2>6, <3>3
  <2>9. kept # <<>> /\ Len(kept) \in Nat /\ Len(kept) # 0
    BY <2>2, <2>5, <2>8
  <2>11. ASSUME r \in LayoutStates, r.groups = rest.groups, r.tabToGroupMap = rest.tabToGroupMap, r.pages = kept,
                r.nextGroupId = s.nextGroupId, r.nextPageId = s.nextPageId,
                \E l \in 1 .. (Len(P) - 1) : kept[l].id = r.activePageId,
                \A b \in 1 .. (Len(P) - 1) : View(r)[b] = Q[b]
         PROVE  LayoutGood(r)
    <3>1. View(r) \in Seq(LayoutPage) /\ Len(View(r)) = Len(Q)
      BY <2>2, <2>3, <2>11, ViewIs
    <3>2. View(r) = Q
      BY <2>3, <2>11, <3>1, SameSeq
    <3>5. Len(r.pages) = Len(P) - 1 /\ Len(P) = Len(s.pages)
      BY <1>2, <2>2, <2>11
    <3>6. \E l \in 1 .. Len(r.pages) : r.pages[l].id = r.activePageId
      BY <2>11, <3>5
    <3>7. ASSUME NEW a \in 1 .. Len(r.pages) PROVE \E b \in 1 .. Len(s.pages) : r.pages[a].id = s.pages[b].id
      <4>1. a \in 1 .. (Len(P) - 1)
        BY <3>5
      <4>2. PICK b \in 1 .. Len(P) : b # i /\ kept[a] = s.pages[b] /\ Q[a] = P[b]
        BY <2>7, <4>1
      <4> QED BY <2>11, <3>5, <4>2
    <3>4. Keeps(r.groups, r.tabToGroupMap) /\ DOMAIN r.groups \subseteq G /\ Placed(DOMAIN r.groups, View(r))
      BY <1>7, <2>4, <2>11, <3>2
    <3> QED BY <2>11, <3>4, <3>6, <3>7, GoodAgain
  <2>12. CASE s.pages[i].id # live
    <3>1. r = [rest EXCEPT !.pages = kept]
      BY <1>8, <1>13, <2>9, <2>12
    <3>2. /\ r \in LayoutStates /\ r.groups = rest.groups /\ r.tabToGroupMap = rest.tabToGroupMap /\ r.pages = kept
          /\ r.gridLayout = s.gridLayout /\ r.activeGroupId = s.activeGroupId /\ r.activePageId = live
          /\ r.nextGroupId = s.nextGroupId /\ r.nextPageId = s.nextPageId
      BY <1>7, <2>2, <3>1 DEF LayoutStates
    <3>3. \A b \in 1 .. Len(kept) : View(r)[b] = IF kept[b].id = live
                                               THEN Layout!Page(live, s.gridLayout, s.activeGroupId) ELSE kept[b]
      BY <3>2, ViewIs
    <3>4. ASSUME NEW b \in 1 .. (Len(P) - 1) PROVE View(r)[b] = Q[b]
      <4>1. PICK a \in 1 .. Len(P) : a # i /\ kept[b] = s.pages[a] /\ Q[b] = P[a]
        BY <2>7
      <4>2. b \in 1 .. Len(kept)
        BY <2>2
      <4>3. View(r)[b] = IF kept[b].id = live THEN Layout!Page(live, s.gridLayout, s.activeGroupId) ELSE kept[b]
        BY <3>3, <4>2
      <4>4. P[a] = IF s.pages[a].id = live THEN Layout!Page(live, s.gridLayout, s.activeGroupId) ELSE s.pages[a]
        BY <1>2
      <4> QED BY <4>1, <4>3, <4>4
    <3>5. \E l \in 1 .. (Len(P) - 1) : kept[l].id = r.activePageId
      BY <1>2, <1>9, <2>6, <2>12, <3>2
    <3> QED BY <2>11, <3>2, <3>4, <3>5
  <2>13. CASE s.pages[i].id = live
    <3> DEFINE n == IF i <= Len(kept) THEN i ELSE Len(kept)
    <3>1. n \in 1 .. (Len(P) - 1) /\ next = kept[n]
      BY <2>2, <2>5, <2>9 DEF next
    <3> HIDE DEF n
    <3>2. PICK m \in 1 .. Len(P) : m # i /\ kept[n] = s.pages[m] /\ Q[n] = P[m]
      BY <2>7, <3>1
    <3>11. next = s.pages[m] /\ s.pages[m].id # live
      <4>1. P[m].id # P[i].id /\ P[m].id = s.pages[m].id /\ P[i].id = s.pages[i].id
        BY <1>2, <3>2
      <4> QED BY <2>13, <3>1, <3>2, <4>1
    <3>12. next = P[m]
      <4>1. P[m] = IF s.pages[m].id = live THEN Layout!Page(live, s.gridLayout, s.activeGroupId) ELSE s.pages[m]
        BY <1>2
      <4> QED BY <3>11, <4>1
    <3>13. /\ P[m] \in LayoutPage /\ P[m].activeGroupId \in Layout!ToSet(P[m].gridLayout)
           /\ Layout!ToSet(P[m].gridLayout) \subseteq G /\ g \notin Layout!ToSet(P[m].gridLayout)
      BY <1>2, <1>4, <3>2
    <3>3. /\ next = P[m] /\ next \in LayoutPage /\ next.id # live /\ next.activeGroupId \in Layout!ToSet(next.gridLayout)
          /\ next.activeGroupId \in G \ {g}
      BY <3>11, <3>12, <3>13
    <3>4. next.gridLayout \in Seq(Nat) /\ next.id \in Nat /\ next.activeGroupId \in Nat
      BY <3>3 DEF LayoutPage
    <3>5. r = [rest EXCEPT !.pages = kept, !.activePageId = next.id, !.gridLayout = next.gridLayout,
                           !.activeGroupId = next.activeGroupId]
      BY <1>7, <1>8, <1>13, <2>9, <2>13, <3>3
    <3>6. /\ r \in LayoutStates /\ r.groups = rest.groups /\ r.tabToGroupMap = rest.tabToGroupMap /\ r.pages = kept
          /\ r.gridLayout = next.gridLayout /\ r.activeGroupId = next.activeGroupId /\ r.activePageId = next.id
          /\ r.nextGroupId = s.nextGroupId /\ r.nextPageId = s.nextPageId
      BY <1>7, <2>2, <3>4, <3>5 DEF LayoutStates
    <3>7. \A b \in 1 .. Len(kept) : View(r)[b] = IF kept[b].id = next.id
                                    THEN Layout!Page(next.id, next.gridLayout, next.activeGroupId) ELSE kept[b]
      BY <3>6, ViewIs
    <3>8. next = Layout!Page(next.id, next.gridLayout, next.activeGroupId)
      BY <3>3, PageAgain
    <3>9. ASSUME NEW b \in 1 .. (Len(P) - 1) PROVE View(r)[b] = Q[b]
      <4>1. PICK a \in 1 .. Len(P) : a # i /\ kept[b] = s.pages[a] /\ Q[b] = P[a]
        BY <2>7
      <4>2. kept[b] = P[a]
        BY <1>2, <2>13, <4>1
      <4>3. kept[b].id = next.id => kept[b] = next
        BY <1>2, <3>2, <3>3, <4>2
      <4>4. View(r)[b] = kept[b]
        BY <2>2, <3>7, <3>8, <4>3
      <4> QED BY <4>1, <4>2, <4>4
    <3>10. \E l \in 1 .. (Len(P) - 1) : kept[l].id = r.activePageId
      BY <3>1, <3>6
    <3> QED BY <2>11, <3>6, <3>9, <3>10
  <2> QED BY <2>12, <2>13
<1> QED BY <1>11, <1>12, <1>13 DEF r

(* A pane that goes takes its own sessions along and no focus but its own. *)
LEMMA DropTakes ==
  ASSUME NEW s, LayoutGood(s), NEW g \in DOMAIN s.groups, \E h \in DOMAIN s.groups : h # g
  PROVE  LET r == Layout!DropGroup(s, g)
         IN  /\ r.tabToGroupMap = Layout!Drop(s.tabToGroupMap, Layout!ToSet(s.groups[g].tabs))
             /\ DOMAIN r.groups = DOMAIN s.groups \ {g}
             /\ s.activeGroupId # g => r.activeGroupId = s.activeGroupId
<1> DEFINE P == View(s)
           G == DOMAIN s.groups
           live == s.activePageId
           map == Layout!Drop(s.tabToGroupMap, Layout!ToSet(s.groups[g].tabs))
<1>1. /\ s \in LayoutStates /\ Arranged(s) /\ s.pages \in Seq(LayoutPage)
      /\ live \in Nat /\ s.activeGroupId \in Nat /\ s.gridLayout \in Seq(Nat)
  BY DEF LayoutGood, LayoutStates
<1>2. /\ P \in Seq(LayoutPage) /\ Len(P) = Len(s.pages)
      /\ \A a \in 1 .. Len(P) :
           /\ P[a].id = s.pages[a].id
           /\ P[a] = IF s.pages[a].id = live THEN Layout!Page(live, s.gridLayout, s.activeGroupId) ELSE s.pages[a]
           /\ Layout!IsInjective(P[a].gridLayout)
           /\ P[a].activeGroupId \in Layout!ToSet(P[a].gridLayout) /\ P[a].gridLayout \in Seq(Nat)
      /\ \A h \in G : \E a \in 1 .. Len(P) : h \in Layout!ToSet(P[a].gridLayout)
  BY <1>1, ArrangedIs
<1>3. PICK i \in 1 .. Len(P) : g \in Layout!ToSet(P[i].gridLayout)
  BY <1>2
<1>4. Layout!Owner(s, g) = i /\ Layout!GridOf(s, i) = P[i].gridLayout /\ i # 0
  <2>1. i \in 1 .. Len(s.pages) /\ i # 0
    BY <1>2
  <2> QED BY <1>1, <1>3, <2>1, OwnerIs
<1> DEFINE grid == Layout!Minus(P[i].gridLayout, g)
           kept == Layout!RemoveAt(s.pages, i)
           focus == IF s.pages[i].activeGroupId = g THEN Head(grid) ELSE s.pages[i].activeGroupId
           rest == [s EXCEPT !.groups = Layout!Drop(@, {g}),
                             !.tabToGroupMap = Layout!Drop(@, Layout!ToSet(s.groups[g].tabs))]
           next == kept[IF i <= Len(kept) THEN i ELSE Len(kept)]
           r == Layout!DropGroup(s, g)
<1>5. Layout!ToSet(grid) = Layout!ToSet(P[i].gridLayout) \ {g}
  BY <1>2, <1>3, TakenOut
<1>6. /\ rest \in LayoutStates /\ DOMAIN rest.groups = G \ {g} /\ rest.activeGroupId = s.activeGroupId
      /\ rest.tabToGroupMap = map
  <2>1. rest \in LayoutStates /\ DOMAIN rest.groups = G \ {g} /\ rest.activeGroupId = s.activeGroupId
    BY Dropping
  <2>2. rest.tabToGroupMap = map
    BY <1>1 DEF LayoutStates
  <2> QED BY <2>1, <2>2
<1>7. r = IF grid # <<>> THEN
            IF s.pages[i].id = live
            THEN [rest EXCEPT !.gridLayout = grid, !.activeGroupId = IF @ = g THEN focus ELSE @]
            ELSE [rest EXCEPT !.pages[i] = Layout!Page(@.id, grid, focus)]
          ELSE IF kept = <<>> THEN r
          ELSE IF ~(s.pages[i].id = live) THEN [rest EXCEPT !.pages = kept]
          ELSE [rest EXCEPT !.pages = kept, !.activePageId = next.id, !.gridLayout = next.gridLayout,
                  !.activeGroupId = IF next.activeGroupId \in DOMAIN rest.groups
                                    THEN next.activeGroupId ELSE Head(next.gridLayout)]
  BY <1>4 DEF Layout!DropGroup
<1>8. grid = <<>> => /\ kept # <<>>
                     /\ s.pages[i].id = live => s.activeGroupId = g
  <2> SUFFICES ASSUME grid = <<>>
               PROVE  kept # <<>> /\ (s.pages[i].id = live => s.activeGroupId = g)
    OBVIOUS
  <2>1. Layout!ToSet(P[i].gridLayout) = {g}
    <3>1. Layout!ToSet(<<>>) = {}
      BY DEF Layout!ToSet
    <3> HIDE DEF grid
    <3> QED BY <1>3, <1>5, <3>1
  <2>2. kept # <<>>
    <3>1. PICK h \in G : h # g
      OBVIOUS
    <3>2. PICK a \in 1 .. Len(P) : h \in Layout!ToSet(P[a].gridLayout)
      BY <1>2
    <3>3. a # i
      BY <2>1, <3>1, <3>2
    <3>4. i \in 1 .. Len(s.pages) /\ a \in 1 .. Len(s.pages)
      BY <1>2
    <3>5. Len(kept) = Len(s.pages) - 1
      BY <1>1, <3>4, OneLess
    <3> HIDE DEF kept, P
    <3>6. Len(s.pages) \in Nat
      BY <1>1
    <3>7. Len(kept) # 0
      <4> DEFINE n == Len(s.pages)
      <4>1. n \in Nat /\ i \in 1 .. n /\ a \in 1 .. n /\ Len(kept) = n - 1
        BY <3>4, <3>5, <3>6
      <4> HIDE DEF n
      <4>2. i \in Nat /\ a \in Nat /\ 1 <= i /\ i <= n /\ 1 <= a /\ a <= n
        BY <4>1
      <4>3. n # 1
        BY <3>3, <4>1, <4>2
      <4> QED BY <4>1, <4>3
    <3> QED BY <3>7
  <2>3. ASSUME s.pages[i].id = live PROVE s.activeGroupId = g
    <3>1. P[i] = Layout!Page(live, s.gridLayout, s.activeGroupId)
      BY <1>2, <2>3
    <3>2. P[i].activeGroupId = s.activeGroupId
      BY <1>1, <3>1, PageIs
    <3> HIDE DEF P
    <3> QED BY <1>2, <2>1, <3>2
  <2> QED BY <2>2, <2>3
<1>9. G = DOMAIN s.groups
  OBVIOUS
<1> HIDE DEF P, G, map, grid, kept, focus, rest, next, r
<1>10. /\ r.tabToGroupMap = rest.tabToGroupMap /\ r.groups = rest.groups
       /\ s.activeGroupId # g => r.activeGroupId = rest.activeGroupId
  <2>1. CASE grid # <<>> /\ s.pages[i].id = live
    <3> DEFINE f == IF rest.activeGroupId = g THEN focus ELSE rest.activeGroupId
    <3>1. r = [rest EXCEPT !.gridLayout = grid, !.activeGroupId = f]
      BY <1>6, <1>7, <2>1
    <3> HIDE DEF f
    <3>2. r.tabToGroupMap = rest.tabToGroupMap /\ r.groups = rest.groups /\ r.activeGroupId = f
      BY <1>6, <3>1 DEF LayoutStates
    <3> QED BY <1>6, <3>2 DEF f
  <2>2. CASE grid # <<>> /\ s.pages[i].id # live
    <3>1. r = [rest EXCEPT !.pages[i] = Layout!Page(@.id, grid, focus)]
      BY <1>7, <2>2
    <3> QED BY <1>6, <3>1 DEF LayoutStates
  <2>3. CASE grid = <<>> /\ s.pages[i].id # live
    <3>1. r = [rest EXCEPT !.pages = kept]
      BY <1>7, <1>8, <2>3
    <3> QED BY <1>6, <3>1 DEF LayoutStates
  <2>4. CASE grid = <<>> /\ s.pages[i].id = live
    <3> DEFINE f == IF next.activeGroupId \in DOMAIN rest.groups THEN next.activeGroupId ELSE Head(next.gridLayout)
    <3>1. r = [rest EXCEPT !.pages = kept, !.activePageId = next.id, !.gridLayout = next.gridLayout, !.activeGroupId = f]
      BY <1>7, <1>8, <2>4
    <3> HIDE DEF f
    <3>2. r.tabToGroupMap = rest.tabToGroupMap /\ r.groups = rest.groups
      BY <1>6, <3>1 DEF LayoutStates
    <3> QED BY <1>8, <2>4, <3>2
  <2> QED BY <2>1, <2>2, <2>3, <2>4
<1> QED BY <1>6, <1>9, <1>10 DEF r, map

(***************************************************************************)
(* Pages and panes: between two dispatches                                 *)
(***************************************************************************)
(* Every action ends by writing the live grid onto its page. *)
Settled(s) == LayoutGood(s) /\ s.pages = View(s)
(* The same sessions are open. *)
Stays(s, n) == DOMAIN n.tabToGroupMap = DOMAIN s.tabToGroupMap
(* Focus moves only if its pane goes. *)
FocusStays(s, n) == s.activeGroupId \in DOMAIN n.groups => n.activeGroupId = s.activeGroupId

LEMMA SettledIs ==
  ASSUME NEW s, Settled(s)
  PROVE  /\ s \in LayoutStates /\ LayoutGood(s) /\ Arranged(s) /\ Counted(s) /\ Keeps(s.groups, s.tabToGroupMap)
         /\ DOMAIN s.groups \subseteq Nat /\ s.activeGroupId \in Nat /\ s.activePageId \in Nat /\ s.gridLayout \in Seq(Nat)
         /\ s.nextGroupId \in Nat /\ s.nextPageId \in Nat
         /\ s.pages \in Seq(LayoutPage) /\ Len(s.pages) \in Nat /\ Placed(DOMAIN s.groups, s.pages)
         /\ Layout!IsInjective(s.gridLayout) /\ Layout!ToSet(s.gridLayout) \subseteq DOMAIN s.groups
         /\ s.activeGroupId \in Layout!ToSet(s.gridLayout)
         /\ \A i \in 1 .. Len(s.pages) :
              /\ s.pages[i] \in LayoutPage /\ Layout!IsInjective(s.pages[i].gridLayout)
              /\ Layout!ToSet(s.pages[i].gridLayout) \subseteq DOMAIN s.groups
              /\ s.pages[i].activeGroupId \in Layout!ToSet(s.pages[i].gridLayout)
              /\ s.pages[i].id = s.activePageId =>
                   /\ s.pages[i].gridLayout = s.gridLayout /\ s.pages[i].activeGroupId = s.activeGroupId
         /\ \A i, j \in 1 .. Len(s.pages) : i # j => s.pages[i].id # s.pages[j].id
         /\ \E l \in 1 .. Len(s.pages) : s.pages[l].id = s.activePageId
<1> DEFINE P == s.pages
<1>1. /\ s \in LayoutStates /\ LayoutGood(s) /\ Arranged(s) /\ Counted(s) /\ Keeps(s.groups, s.tabToGroupMap)
      /\ s.activeGroupId \in Nat /\ s.activePageId \in Nat /\ s.gridLayout \in Seq(Nat)
      /\ s.nextGroupId \in Nat /\ s.nextPageId \in Nat /\ s.groups \in LayoutGroups
  BY DEF Settled, LayoutGood, LayoutStates
<1>2. DOMAIN s.groups \subseteq Nat
  BY <1>1, GroupsAre
<1>3. View(s) = P
  BY DEF Settled
<1>4. /\ P \in Seq(LayoutPage)
      /\ \A i \in 1 .. Len(P) :
           /\ P[i] \in LayoutPage
           /\ P[i] = IF P[i].id = s.activePageId THEN Layout!Page(s.activePageId, s.gridLayout, s.activeGroupId) ELSE P[i]
           /\ Layout!IsInjective(P[i].gridLayout) /\ Layout!ToSet(P[i].gridLayout) \subseteq DOMAIN s.groups
           /\ P[i].activeGroupId \in Layout!ToSet(P[i].gridLayout)
      /\ \A i, j \in 1 .. Len(P) : i # j => P[i].id # P[j].id
      /\ \E l \in 1 .. Len(P) : P[l].id = s.activePageId
  <2> DEFINE V == View(s)
  <2>1. /\ V \in Seq(LayoutPage)
        /\ \A i \in 1 .. Len(V) :
             /\ V[i] \in LayoutPage
             /\ V[i] = IF s.pages[i].id = s.activePageId
                       THEN Layout!Page(s.activePageId, s.gridLayout, s.activeGroupId) ELSE s.pages[i]
             /\ Layout!IsInjective(V[i].gridLayout) /\ Layout!ToSet(V[i].gridLayout) \subseteq DOMAIN s.groups
             /\ V[i].activeGroupId \in Layout!ToSet(V[i].gridLayout)
        /\ \A i, j \in 1 .. Len(V) : i # j => V[i].id # V[j].id
        /\ \E l \in 1 .. Len(V) : V[l].id = s.activePageId
    BY <1>1, ArrangedIs
  <2>2. V = P
    BY <1>3
  <2> HIDE DEF V
  <2> QED BY <2>1, <2>2
<1>5. Len(P) \in Nat
  BY <1>4
<1>6. \A i \in 1 .. Len(P) : P[i].id = s.activePageId =>
           P[i].gridLayout = s.gridLayout /\ P[i].activeGroupId = s.activeGroupId
  <2> SUFFICES ASSUME NEW i \in 1 .. Len(P), P[i].id = s.activePageId
               PROVE  P[i].gridLayout = s.gridLayout /\ P[i].activeGroupId = s.activeGroupId
    OBVIOUS
  <2>1. P[i] = Layout!Page(s.activePageId, s.gridLayout, s.activeGroupId)
    BY <1>4
  <2>2. Layout!Page(s.activePageId, s.gridLayout, s.activeGroupId).gridLayout = s.gridLayout
        /\ Layout!Page(s.activePageId, s.gridLayout, s.activeGroupId).activeGroupId = s.activeGroupId
    BY <1>1, PageIs
  <2> QED BY <2>1, <2>2
<1>7. PICK l \in 1 .. Len(P) : P[l].id = s.activePageId
  BY <1>4
<1>8. /\ Layout!IsInjective(s.gridLayout) /\ Layout!ToSet(s.gridLayout) \subseteq DOMAIN s.groups
      /\ s.activeGroupId \in Layout!ToSet(s.gridLayout)
  <2>1. P[l].gridLayout = s.gridLayout /\ P[l].activeGroupId = s.activeGroupId
    BY <1>6, <1>7
  <2> QED BY <1>4, <2>1
<1>9. Placed(DOMAIN s.groups, P)
  BY <1>1, <1>3 DEF Arranged
<1> QED BY <1>1, <1>2, <1>4, <1>5, <1>6, <1>8, <1>9

(* A change of the live page only *)
LEMMA Rearranged ==
  ASSUME NEW s, Settled(s), NEW r \in LayoutStates, r.pages = s.pages, r.activePageId = s.activePageId,
         r.nextPageId = s.nextPageId, s.nextGroupId <= r.nextGroupId,
         Layout!IsInjective(r.gridLayout), r.activeGroupId \in Layout!ToSet(r.gridLayout),
         \A g \in Layout!ToSet(r.gridLayout) : g \in Layout!ToSet(s.gridLayout) \/ g \notin DOMAIN s.groups,
         DOMAIN r.groups = (DOMAIN s.groups \ Layout!ToSet(s.gridLayout)) \cup Layout!ToSet(r.gridLayout),
         \A g \in DOMAIN r.groups : g \in DOMAIN s.groups \/ (0 < g /\ g < r.nextGroupId),
         Keeps(r.groups, r.tabToGroupMap)
  PROVE  LayoutGood(r)
<1> DEFINE P == s.pages
           G == DOMAIN s.groups
           p == Layout!Page(s.activePageId, r.gridLayout, r.activeGroupId)
<1>1. /\ P \in Seq(LayoutPage) /\ Len(P) \in Nat /\ Placed(G, P) /\ G \subseteq Nat /\ Counted(s)
      /\ s.activePageId \in Nat /\ s.nextGroupId \in Nat
      /\ \A i, j \in 1 .. Len(P) : i # j => P[i].id # P[j].id
      /\ \A i \in 1 .. Len(P) : P[i].id = s.activePageId => P[i].gridLayout = s.gridLayout
      /\ \E l \in 1 .. Len(P) : P[l].id = s.activePageId
  BY SettledIs
<1>2. PICK l \in 1 .. Len(P) : P[l].id = s.activePageId
  BY <1>1
<1>3. r.gridLayout \in Seq(Nat) /\ r.activeGroupId \in Nat /\ r.nextGroupId \in Nat
  BY DEF LayoutStates
<1>4. /\ p \in LayoutPage /\ p.id = P[l].id /\ p.gridLayout = r.gridLayout /\ p.activeGroupId = r.activeGroupId
  BY <1>1, <1>2, <1>3, PageIs
<1> HIDE DEF p
<1>5. /\ View(r) \in Seq(LayoutPage) /\ Len(View(r)) = Len(P)
      /\ \A i \in 1 .. Len(P) : View(r)[i] = IF P[i].id = s.activePageId
                                             THEN Layout!Page(s.activePageId, r.gridLayout, r.activeGroupId) ELSE P[i]
  BY ViewIs
<1>6. View(r)[l] = p
  BY <1>2, <1>5 DEF p
<1>7. \A i \in 1 .. Len(P) : i # l => View(r)[i] = P[i]
  BY <1>1, <1>2, <1>5
<1>8. Fits(View(r)[l], G \ Layout!ToSet(P[l].gridLayout)) /\ View(r)[l].id = P[l].id
  BY <1>1, <1>2, <1>4, <1>6 DEF Fits
<1>9. Placed((G \ Layout!ToSet(P[l].gridLayout)) \cup Layout!ToSet(View(r)[l].gridLayout), View(r))
  BY <1>1, <1>5, <1>7, <1>8, PlacedAnew
<1>10. (G \ Layout!ToSet(P[l].gridLayout)) \cup Layout!ToSet(View(r)[l].gridLayout) = DOMAIN r.groups
  BY <1>1, <1>2, <1>4, <1>6
<1>11. Arranged(r)
  BY <1>1, <1>9, <1>10 DEF Arranged
<1>12. \A g \in DOMAIN r.groups : g < r.nextGroupId /\ 0 < g
  BY <1>1, <1>3 DEF Counted
<1>13. Counted(r)
  BY <1>1, <1>12 DEF Counted
<1> QED BY <1>11, <1>13 DEF LayoutGood

(* The pages as they were, the sessions regrouped *)
Regroup(s, gr, map) == [s EXCEPT !.groups = gr, !.tabToGroupMap = map]
LEMMA Regrouped ==
  ASSUME NEW s, Settled(s), NEW gr, NEW map, Keeps(gr, map), DOMAIN gr = DOMAIN s.groups,
         NEW r, r = Regroup(s, gr, map)
  PROVE  LayoutGood(r) /\ r.groups = gr /\ r.tabToGroupMap = map /\ r.pages = s.pages /\ r.gridLayout = s.gridLayout
         /\ r.activePageId = s.activePageId /\ r.activeGroupId = s.activeGroupId
<1>1. gr \in LayoutGroups /\ map \in LayoutMaps
  BY DEF Keeps
<1>2. /\ s \in LayoutStates /\ Layout!IsInjective(s.gridLayout) /\ s.activeGroupId \in Layout!ToSet(s.gridLayout)
      /\ s.nextGroupId \in Nat /\ Layout!ToSet(s.gridLayout) \subseteq DOMAIN s.groups
  BY SettledIs
<1>3. /\ r \in LayoutStates /\ r.groups = gr /\ r.tabToGroupMap = map /\ r.pages = s.pages
      /\ r.gridLayout = s.gridLayout /\ r.activeGroupId = s.activeGroupId /\ r.activePageId = s.activePageId
      /\ r.nextGroupId = s.nextGroupId /\ r.nextPageId = s.nextPageId
  BY <1>1, <1>2 DEF LayoutStates, Regroup
<1>4. DOMAIN r.groups = (DOMAIN s.groups \ Layout!ToSet(s.gridLayout)) \cup Layout!ToSet(r.gridLayout)
  BY <1>2, <1>3
<1>5. LayoutGood(r)
  <2>1. Layout!IsInjective(r.gridLayout) /\ r.activeGroupId \in Layout!ToSet(r.gridLayout) /\ s.nextGroupId <= r.nextGroupId
    BY <1>2, <1>3
  <2>2. /\ \A g \in Layout!ToSet(r.gridLayout) : g \in Layout!ToSet(s.gridLayout) \/ g \notin DOMAIN s.groups
        /\ \A g \in DOMAIN r.groups : g \in DOMAIN s.groups \/ (0 < g /\ g < r.nextGroupId)
        /\ Keeps(r.groups, r.tabToGroupMap)
    BY <1>3
  <2> QED BY <1>3, <1>4, <2>1, <2>2, Rearranged
<1> QED BY <1>3, <1>5

LEMMA LayoutCardinality == ASSUME NEW S PROVE Layout!Cardinality(S) = Cardinality(S)
BY Zenon DEF Layout!Cardinality, Cardinality

(* An emptied pane goes unless it is the last, and takes no session along. *)
LEMMA Emptied ==
  ASSUME NEW s, LayoutGood(s), NEW g \in DOMAIN s.groups,
         \A a \in 1 .. Len(s.pages) : s.pages[a].id = s.activePageId =>
                                        s.pages[a].activeGroupId \in Layout!ToSet(s.gridLayout)
  PROVE  LET r == Layout!DropIfEmpty(s, g) IN LayoutGood(r) /\ Stays(s, r) /\ FocusStays(s, r)
<1>1. CASE Layout!DropIfEmpty(s, g) = s
  BY <1>1 DEF Stays, FocusStays
<1>2. CASE /\ ~(Layout!Cardinality(Layout!GroupIds(s)) <= 1) /\ s.groups[g].tabs = <<>>
           /\ Layout!DropIfEmpty(s, g) = Layout!DropGroup(s, g)
  <2> DEFINE r == Layout!DropGroup(s, g)
             X == Layout!ToSet(s.groups[g].tabs)
             map == Layout!Drop(s.tabToGroupMap, X)
  <2>1. \E h \in DOMAIN s.groups : h # g
    <3> SUFFICES ASSUME \A h \in DOMAIN s.groups : h = g PROVE FALSE
      OBVIOUS
    <3>1. Layout!GroupIds(s) = {g}
      BY DEF Layout!GroupIds
    <3>2. Layout!Cardinality({g}) = 1
      BY LayoutCardinality, FS_Singleton
    <3> QED BY <1>2, <3>1, <3>2
  <2>2. LayoutGood(r)
    BY <2>1, Dropped
  <2>3. r.tabToGroupMap = map /\ DOMAIN r.groups = DOMAIN s.groups \ {g} /\ (s.activeGroupId # g => r.activeGroupId = s.activeGroupId)
    BY <2>1, DropTakes
  <2>4. X = {}
    BY <1>2 DEF Layout!ToSet
  <2>5. DOMAIN map = DOMAIN s.tabToGroupMap \ X
    BY DropIs
  <2> HIDE DEF r, map, X
  <2>6. Stays(s, r) /\ FocusStays(s, r)
    BY <2>3, <2>4, <2>5 DEF Stays, FocusStays
  <2> QED BY <1>2, <2>2, <2>6 DEF r
<1> QED BY <1>1, <1>2 DEF Layout!DropIfEmpty

LEMMA Remembered ==
  ASSUME NEW s, LayoutGood(s)
  PROVE  Settled(Layout!Remember(s))
<1> DEFINE r == Layout!Remember(s)
<1>1. s \in LayoutStates /\ Arranged(s) /\ Counted(s) /\ Keeps(s.groups, s.tabToGroupMap)
  BY DEF LayoutGood
<1>2. /\ r \in LayoutStates /\ r.pages = View(s)
      /\ r.groups = s.groups /\ r.activeGroupId = s.activeGroupId /\ r.gridLayout = s.gridLayout
      /\ r.nextGroupId = s.nextGroupId /\ r.tabToGroupMap = s.tabToGroupMap
      /\ r.activePageId = s.activePageId /\ r.nextPageId = s.nextPageId
  BY <1>1, RememberIs
<1> HIDE DEF r
<1> DEFINE P == View(s)
<1>3. /\ P \in Seq(LayoutPage) /\ Len(P) = Len(s.pages)
      /\ \A i \in 1 .. Len(P) :
           /\ P[i].id = s.pages[i].id
           /\ P[i] = IF s.pages[i].id = s.activePageId
                     THEN Layout!Page(s.activePageId, s.gridLayout, s.activeGroupId) ELSE s.pages[i]
      /\ \E l \in 1 .. Len(P) : P[l].id = s.activePageId
  BY <1>1, ArrangedIs
<1> HIDE DEF P
<1>4. /\ View(r) \in Seq(LayoutPage) /\ Len(View(r)) = Len(P)
      /\ \A i \in 1 .. Len(P) : View(r)[i] = IF P[i].id = s.activePageId
                                             THEN Layout!Page(s.activePageId, s.gridLayout, s.activeGroupId) ELSE P[i]
  <2>1. r.pages = P
    BY <1>2 DEF P
  <2> QED BY <1>2, <2>1, ViewIs
<1>5. \A i \in 1 .. Len(P) : View(r)[i] = P[i]
  BY <1>3, <1>4
<1>6. View(r) = P
  BY <1>3, <1>4, <1>5, SameSeq
<1>7. Arranged(r)
  <2>1. Placed(DOMAIN r.groups, View(r))
    BY <1>1, <1>2, <1>6 DEF Arranged, P
  <2>2. r.pages = P
    BY <1>2 DEF P
  <2> QED BY <1>2, <1>3, <2>1, <2>2 DEF Arranged
<1>8. Counted(r)
  <2>1. r.pages = P
    BY <1>2 DEF P
  <2> QED BY <1>1, <1>2, <1>3, <2>1 DEF Counted
<1>9. r.pages = View(r)
  BY <1>2, <1>6 DEF P
<1>10. Settled(r)
  BY <1>1, <1>2, <1>7, <1>8, <1>9 DEF Settled, LayoutGood
<1> QED BY <1>10 DEF r

(* Sessions that leave their pane, come, or move *)
LEMMA KeepsTabs ==
  ASSUME NEW gr, NEW map, Keeps(gr, map), NEW g \in DOMAIN gr, NEW r, GoodGroup(r),
         Layout!ToSet(r.tabs) \subseteq Layout!ToSet(gr[g].tabs),
         NEW X, X = Layout!ToSet(gr[g].tabs) \ Layout!ToSet(r.tabs)
  PROVE  /\ Keeps(Layout!With(gr, g, r), Layout!Drop(map, X))
         /\ X = {} => Keeps(Layout!With(gr, g, r), map)
<1>1. /\ gr \in LayoutGroups /\ map \in LayoutMaps /\ g \in Nat
      /\ \A t \in DOMAIN map : map[t] \in DOMAIN gr /\ t \in Layout!ToSet(gr[map[t]].tabs)
      /\ \A t \in Layout!ToSet(gr[g].tabs) : t \in DOMAIN map /\ map[t] = g
  BY GroupsAre DEF Keeps
<1>2. \A t \in Tabs : t \in DOMAIN map /\ t \notin X <=> t \in Layout!ToSet(r.tabs) \/ (t \in DOMAIN map /\ map[t] # g)
  BY <1>1
<1>3. \A t \in Layout!ToSet(r.tabs) : t \in DOMAIN map /\ map[t] = g
  BY <1>1
<1>4. Keeps(Layout!With(gr, g, r), Layout!Drop(map, X))
  <2> DEFINE map2 == Layout!Drop(map, X)
  <2>1. map2 \in LayoutMaps
    BY <1>1, TypesWith
  <2>2. DOMAIN map2 = DOMAIN map \ X /\ \A t \in DOMAIN map \ X : map2[t] = map[t]
    BY DEF Layout!Drop, Layout!Restrict
  <2> HIDE DEF map2
  <2>3. \A t \in Tabs : t \in DOMAIN map2 <=> t \in Layout!ToSet(r.tabs) \/ (t \in DOMAIN map /\ map[t] # g)
    BY <1>2, <2>2
  <2>4. \A t \in DOMAIN map2 : map2[t] = IF t \in Layout!ToSet(r.tabs) THEN g ELSE map[t]
    BY <1>3, <2>2
  <2>5. Keeps(Layout!With(gr, g, r), map2)
    BY <1>1, <1>3, <2>1, <2>3, <2>4, KeepsAnew
  <2> QED BY <2>5 DEF map2
<1>5. ASSUME X = {} PROVE Keeps(Layout!With(gr, g, r), map)
  <2>1. \A t \in Tabs : t \in DOMAIN map <=> t \in Layout!ToSet(r.tabs) \/ (t \in DOMAIN map /\ map[t] # g)
    BY <1>2, <1>5
  <2>2. \A t \in DOMAIN map : map[t] = IF t \in Layout!ToSet(r.tabs) THEN g ELSE map[t]
    BY <1>3
  <2> QED BY <1>1, <1>3, <2>1, <2>2, KeepsAnew
<1> QED BY <1>4, <1>5

LEMMA KeepsEmpty ==
  ASSUME NEW gr, NEW map, Keeps(gr, map), NEW g \in Nat, g \notin DOMAIN gr
  PROVE  Keeps(Layout!With(gr, g, Layout!Group(<<>>, None)), map)
<1> DEFINE r == Layout!Group(<<>>, None)
<1>1. GoodGroup(r) /\ Layout!ToSet(r.tabs) = {}
  BY GoodEmpty
<1> HIDE DEF r
<1>2. map \in LayoutMaps /\ \A t \in DOMAIN map : map[t] # g
  BY DEF Keeps
<1>3. /\ \A t \in Tabs : t \in DOMAIN map <=> t \in Layout!ToSet(r.tabs) \/ (t \in DOMAIN map /\ map[t] # g)
      /\ \A t \in DOMAIN map : map[t] = IF t \in Layout!ToSet(r.tabs) THEN g ELSE map[t]
      /\ \A t \in Layout!ToSet(r.tabs) : t \in DOMAIN map => map[t] = g
  BY <1>1, <1>2
<1>4. Keeps(Layout!With(gr, g, r), map)
  BY <1>1, <1>2, <1>3, KeepsAnew
<1> QED BY <1>4 DEF r

(* A session that no pane has comes to g *)
LEMMA KeepsMore ==
  ASSUME NEW gr, NEW map, Keeps(gr, map), NEW g \in Nat, NEW t \in Tabs, t \notin DOMAIN map, NEW r, GoodGroup(r),
         Layout!ToSet(r.tabs) = {t} \cup (IF g \in DOMAIN gr THEN Layout!ToSet(gr[g].tabs) ELSE {})
  PROVE  Keeps(Layout!With(gr, g, r), Layout!With(map, t, g))
<1> DEFINE map2 == Layout!With(map, t, g)
<1>1. /\ gr \in LayoutGroups /\ map \in LayoutMaps
      /\ \A u \in DOMAIN map : map[u] \in DOMAIN gr /\ u \in Layout!ToSet(gr[map[u]].tabs)
      /\ \A h \in DOMAIN gr : \A u \in Layout!ToSet(gr[h].tabs) : u \in DOMAIN map /\ map[u] = h
  BY DEF Keeps
<1>2. map2 \in LayoutMaps /\ map2 = Layout!With(map, t, g)
  BY <1>1, TypesWith
<1> HIDE DEF map2
<1>8. DOMAIN map2 = DOMAIN map \cup {t} /\ map2[t] = g /\ \A u \in DOMAIN map : map2[u] = map[u]
  BY <1>2 DEF Layout!With
<1>3. \A u \in DOMAIN map : u \in Layout!ToSet(r.tabs) <=> map[u] = g
  BY <1>1
<1>4. \A u \in Tabs : u \in DOMAIN map2 <=> u \in Layout!ToSet(r.tabs) \/ (u \in DOMAIN map /\ map[u] # g)
  BY <1>1, <1>3, <1>8
<1>5. \A u \in DOMAIN map2 : map2[u] = IF u \in Layout!ToSet(r.tabs) THEN g ELSE map[u]
  BY <1>3, <1>8
<1>6. \A u \in Layout!ToSet(r.tabs) : u \in DOMAIN map => map[u] = g
  BY <1>3
<1>7. Keeps(Layout!With(gr, g, r), map2)
  BY <1>2, <1>4, <1>5, <1>6, KeepsAnew
<1> QED BY <1>7 DEF map2

LEMMA KeepsMoved ==
  ASSUME NEW gr, NEW map, Keeps(gr, map), NEW src \in DOMAIN gr, NEW dst \in Nat, dst # src,
         NEW t \in Layout!ToSet(gr[src].tabs), NEW r, GoodGroup(r),
         Layout!ToSet(r.tabs) = {t} \cup (IF dst \in DOMAIN gr THEN Layout!ToSet(gr[dst].tabs) ELSE {})
  PROVE  Keeps(Layout!With(Layout!With(gr, src, Layout!Without(gr[src], t)), dst, r), Layout!With(map, t, dst))
<1> DEFINE left == Layout!Without(gr[src], t)
           gr1 == Layout!With(gr, src, left)
           map1 == Layout!Drop(map, {t})
<1>1. /\ gr \in LayoutGroups /\ map \in LayoutMaps /\ GoodGroup(gr[src]) /\ Layout!ToSet(gr[src].tabs) \subseteq Tabs
      /\ t \in DOMAIN map
  <2>1. gr \in LayoutGroups /\ map \in LayoutMaps /\ GoodGroup(gr[src]) /\ t \in DOMAIN map
    BY DEF Keeps
  <2>2. gr[src] \in LayoutGroup
    BY <2>1, GroupsAre
  <2> QED BY <2>1, <2>2, TabsOfGroup
<1>2. GoodGroup(left) /\ Layout!ToSet(left.tabs) = Layout!ToSet(gr[src].tabs) \ {t}
  BY <1>1, GoodWithout
<1> HIDE DEF left
<1>3. Keeps(gr1, map1)
  <2>1. {t} = Layout!ToSet(gr[src].tabs) \ Layout!ToSet(left.tabs) /\ Layout!ToSet(left.tabs) \subseteq Layout!ToSet(gr[src].tabs)
    BY <1>2
  <2> QED BY <1>2, <2>1, KeepsTabs
<1>4. /\ DOMAIN gr1 = DOMAIN gr \cup {src} /\ \A h \in DOMAIN gr : h # src => gr1[h] = gr[h]
      /\ DOMAIN map1 = DOMAIN map \ {t} /\ \A u \in DOMAIN map \ {t} : map1[u] = map[u]
  <2>1. DOMAIN map1 = DOMAIN map \ {t} /\ \A u \in DOMAIN map \ {t} : map1[u] = map[u]
    BY DEF Layout!Drop, Layout!Restrict
  <2>2. gr1 = Layout!With(gr, src, left)
    OBVIOUS
  <2> HIDE DEF gr1, map1
  <2> QED BY <2>1, <2>2 DEF Layout!With
<1>5. Layout!With(map1, t, dst) = Layout!With(map, t, dst)
  <2>2. DOMAIN map1 \cup {t} = DOMAIN map \cup {t}
    BY <1>4
  <2> HIDE DEF map1
  <2> QED BY <1>4, <2>2 DEF Layout!With
<1> HIDE DEF gr1, map1
<1>6. Layout!ToSet(r.tabs) = {t} \cup (IF dst \in DOMAIN gr1 THEN Layout!ToSet(gr1[dst].tabs) ELSE {})
  BY <1>4
<1>7. t \in Tabs /\ t \notin DOMAIN map1
  BY <1>1, <1>4
<1>8. Keeps(Layout!With(gr1, dst, r), Layout!With(map1, t, dst))
  BY <1>3, <1>6, <1>7, KeepsMore
<1> QED BY <1>5, <1>8 DEF gr1, left

(***************************************************************************)
(* Pages and panes: the sessions of a pane                                 *)
(***************************************************************************)
LEMMA PaneIs ==
  ASSUME NEW s, Settled(s), NEW g \in DOMAIN s.groups
  PROVE  /\ GoodGroup(s.groups[g]) /\ s.groups[g] \in LayoutGroup /\ s.groups[g].tabs \in Seq(Tabs)
         /\ Layout!IsInjective(s.groups[g].tabs) /\ Layout!ToSet(s.groups[g].tabs) \subseteq Tabs
         /\ g \in Nat /\ s.groups \in LayoutGroups
<1>1. GoodGroup(s.groups[g]) /\ s.groups \in LayoutGroups
  BY SettledIs DEF Keeps
<1>2. s.groups[g] \in LayoutGroup /\ Layout!IsInjective(s.groups[g].tabs)
  BY <1>1 DEF GoodGroup
<1> QED BY <1>1, <1>2, TabsOfGroup, GroupsAre

(* The pane g becomes r, and what it has lost leaves the map. *)
Lose(s, g, r, X) == [Layout!SetGroup(s, g, r) EXCEPT !.tabToGroupMap = Layout!Drop(@, X)]
LEMMA PaneLess ==
  ASSUME NEW s, Settled(s), NEW g \in DOMAIN s.groups, NEW r, GoodGroup(r),
         Layout!ToSet(r.tabs) \subseteq Layout!ToSet(s.groups[g].tabs),
         NEW X, X = Layout!ToSet(s.groups[g].tabs) \ Layout!ToSet(r.tabs),
         NEW n, n = Lose(s, g, r, X)
  PROVE  /\ LayoutGood(n) /\ DOMAIN n.tabToGroupMap = DOMAIN s.tabToGroupMap \ X /\ n.activeGroupId = s.activeGroupId
         /\ LET d == Layout!DropIfEmpty(n, g) IN LayoutGood(d) /\ Stays(n, d) /\ FocusStays(n, d)
<1> DEFINE gr == Layout!With(s.groups, g, r)
           map == Layout!Drop(s.tabToGroupMap, X)
<1>1. Keeps(gr, map) /\ DOMAIN gr = DOMAIN s.groups /\ DOMAIN map = DOMAIN s.tabToGroupMap \ X
  <2>1. Keeps(s.groups, s.tabToGroupMap)
    BY SettledIs
  <2>2. Keeps(gr, map)
    BY <2>1, KeepsTabs
  <2>3. DOMAIN map = DOMAIN s.tabToGroupMap \ X
    BY DEF Layout!Drop, Layout!Restrict
  <2> QED BY <2>2, <2>3 DEF Layout!With
<1>2. n = Regroup(s, gr, map)
  BY SettledIs DEF Layout!SetGroup, LayoutStates, Lose, Regroup
<1> HIDE DEF gr, map
<1>3. LayoutGood(n) /\ n.groups = gr /\ n.pages = s.pages /\ n.gridLayout = s.gridLayout /\ n.activePageId = s.activePageId
      /\ n.tabToGroupMap = map /\ n.activeGroupId = s.activeGroupId
  BY <1>1, <1>2, Regrouped
<1>4. \A a \in 1 .. Len(n.pages) : n.pages[a].id = n.activePageId => n.pages[a].activeGroupId \in Layout!ToSet(n.gridLayout)
  BY <1>3, SettledIs
<1>5. g \in DOMAIN n.groups
  BY <1>1, <1>3
<1>6. LET d == Layout!DropIfEmpty(n, g) IN LayoutGood(d) /\ Stays(n, d) /\ FocusStays(n, d)
  BY <1>3, <1>4, <1>5, Emptied
<1> QED BY <1>1, <1>3, <1>6

(* The pane g keeps its sessions. *)
LEMMA PaneAgain ==
  ASSUME NEW s, Settled(s), NEW g \in DOMAIN s.groups, NEW r, GoodGroup(r),
         Layout!ToSet(r.tabs) = Layout!ToSet(s.groups[g].tabs), NEW n, n = Layout!SetGroup(s, g, r)
  PROVE  LayoutGood(n) /\ Stays(s, n)
<1> DEFINE gr == Layout!With(s.groups, g, r)
<1>1. Keeps(gr, s.tabToGroupMap) /\ DOMAIN gr = DOMAIN s.groups
  <2> DEFINE X == Layout!ToSet(s.groups[g].tabs) \ Layout!ToSet(r.tabs)
  <2>1. X = {} /\ Keeps(s.groups, s.tabToGroupMap)
    BY SettledIs
  <2>2. Keeps(gr, s.tabToGroupMap)
    BY <2>1, KeepsTabs
  <2> QED BY <2>2 DEF Layout!With
<1>2. n = Regroup(s, gr, s.tabToGroupMap)
  BY SettledIs DEF Layout!SetGroup, LayoutStates, Regroup
<1> HIDE DEF gr
<1> QED BY <1>1, <1>2, Regrouped DEF Stays

LEMMA TabIsIndexed ==
  ASSUME NEW s, Settled(s), NEW g \in DOMAIN s.groups, NEW t \in Layout!ToSet(s.groups[g].tabs)
  PROVE  t \in DOMAIN s.tabToGroupMap /\ t \in Tabs
<1>1. t \in Tabs
  BY PaneIs
<1>2. t \in DOMAIN s.tabToGroupMap
  BY SettledIs DEF Keeps
<1> QED BY <1>1, <1>2

(* A session that is closed goes alone. *)
LEMMA RemoveTabGood ==
  ASSUME NEW s, Settled(s), NEW g \in DOMAIN s.groups, NEW t \in Layout!ToSet(s.groups[g].tabs)
  PROVE  LET d == Layout!REMOVE_TAB(s, g, t)
         IN  /\ LayoutGood(d) /\ t \in Tabs
             /\ Stays(s, d) \/ (DOMAIN d.tabToGroupMap = DOMAIN s.tabToGroupMap \ {t} /\ FocusStays(s, d))
<1> DEFINE r == Layout!Without(s.groups[g], t)
           n == Lose(s, g, r, {t})
<1>1. GoodGroup(r) /\ Layout!ToSet(r.tabs) = Layout!ToSet(s.groups[g].tabs) \ {t}
  BY PaneIs, GoodWithout
<1>2. Layout!REMOVE_TAB(s, g, t) \in {s, Layout!DropIfEmpty(n, g)}
  BY DEF Layout!REMOVE_TAB, Lose
<1> HIDE DEF r
<1>3. {t} = Layout!ToSet(s.groups[g].tabs) \ Layout!ToSet(r.tabs) /\ Layout!ToSet(r.tabs) \subseteq Layout!ToSet(s.groups[g].tabs)
  BY <1>1
<1> DEFINE d == Layout!DropIfEmpty(n, g)
<1>4. /\ DOMAIN n.tabToGroupMap = DOMAIN s.tabToGroupMap \ {t} /\ n.activeGroupId = s.activeGroupId
      /\ LayoutGood(d) /\ Stays(n, d) /\ FocusStays(n, d)
  BY <1>1, <1>3, PaneLess
<1> HIDE DEF d, n
<1>5. DOMAIN d.tabToGroupMap = DOMAIN s.tabToGroupMap \ {t} /\ FocusStays(s, d)
  BY <1>4 DEF Stays, FocusStays
<1>6. LayoutGood(s) /\ Stays(s, s) /\ t \in Tabs
  BY TabIsIndexed DEF Settled, Stays
<1> QED BY <1>2, <1>4, <1>5, <1>6 DEF d

LEMMA CloseGood ==
  ASSUME NEW s, Settled(s), NEW g \in DOMAIN s.groups, NEW t \in Layout!ToSet(s.groups[g].tabs)
  PROVE  /\ LayoutGood(Layout!CLOSE_OTHER_TABS(s, g, t))
         /\ LayoutGood(Layout!CLOSE_TABS_TO_RIGHT(s, g, t))
         /\ LayoutGood(Layout!CLOSE_TABS_TO_LEFT(s, g, t))
<1> DEFINE r == s.groups[g]
           Left(w) == Layout!Group(w, IF Layout!Contains(w, r.activeTabId) THEN r.activeTabId ELSE t)
           Closed(w) == Lose(s, g, Left(w), Layout!ToSet(r.tabs) \ Layout!ToSet(w))
           i == Layout!At(r.tabs, t)
<1>1. GoodGroup(r) /\ r.tabs \in Seq(Tabs) /\ Layout!IsInjective(r.tabs) /\ t \in Tabs
  BY PaneIs
<1>2. i \in 1 .. Len(r.tabs) /\ r.tabs[i] = t /\ Len(r.tabs) \in Nat /\ i \in Nat /\ 1 <= i /\ i <= Len(r.tabs)
  BY <1>1, TakenOut
<1>3. ASSUME NEW w \in Seq(Tabs), Layout!IsInjective(w), Layout!ToSet(w) \subseteq Layout!ToSet(r.tabs), t \in Layout!ToSet(w)
      PROVE  LayoutGood(Closed(w))
  <2> DEFINE a == IF Layout!Contains(w, r.activeTabId) THEN r.activeTabId ELSE t
  <2>1. a \in Layout!ToSet(w)
    BY <1>3, Members
  <2> HIDE DEF a
  <2>2. GoodGroup(Layout!Group(w, a)) /\ Layout!Group(w, a).tabs = w
    BY <1>3, <2>1, GoodWith, SeqTabs, GroupIs
  <2> DEFINE q == Layout!Group(w, a)
  <2> DEFINE X == Layout!ToSet(r.tabs) \ Layout!ToSet(w)
             n == Closed(w)
  <2>3. n = Lose(s, g, q, X)
    BY DEF a
  <2> HIDE DEF q, n
  <2>4. GoodGroup(q) /\ q.tabs = w
    BY <2>2 DEF q
  <2>5. X = Layout!ToSet(r.tabs) \ Layout!ToSet(q.tabs) /\ Layout!ToSet(q.tabs) \subseteq Layout!ToSet(r.tabs)
    BY <1>3, <2>4
  <2> HIDE DEF X
  <2>6. LayoutGood(n)
    BY <2>3, <2>4, <2>5, PaneLess
  <2> QED BY <2>6 DEF n
<1>4. LayoutGood(Closed(<<t>>))
  <2>1. <<t>> \in Seq(Tabs) /\ Layout!IsInjective(<<t>>) /\ Layout!ToSet(<<t>>) = {t}
    BY <1>1, OneTab
  <2> HIDE DEF Closed
  <2> QED BY <1>3, <2>1
<1>5. LayoutGood(Closed(SubSeq(r.tabs, 1, i)))
  <2> DEFINE w == SubSeq(r.tabs, 1, i)
  <2>1. /\ w \in Seq(Tabs) /\ Layout!IsInjective(w) /\ Layout!ToSet(w) \subseteq Layout!ToSet(r.tabs)
        /\ r.tabs[i] \in Layout!ToSet(w)
    BY <1>1, <1>2, GoodRun
  <2> HIDE DEF Closed, w
  <2>2. LayoutGood(Closed(w))
    BY <1>2, <1>3, <2>1
  <2> QED BY <2>2 DEF w
<1>6. LayoutGood(Closed(SubSeq(r.tabs, i, Len(r.tabs))))
  <2> DEFINE n == Len(r.tabs)
             w == SubSeq(r.tabs, i, n)
  <2>3. n \in Nat /\ i <= n /\ n <= Len(r.tabs)
    BY <1>2
  <2> HIDE DEF n
  <2>1. /\ w \in Seq(Tabs) /\ Layout!IsInjective(w) /\ Layout!ToSet(w) \subseteq Layout!ToSet(r.tabs)
        /\ r.tabs[i] \in Layout!ToSet(w)
    BY <1>1, <1>2, <2>3, GoodRun
  <2> HIDE DEF Closed, w
  <2>2. LayoutGood(Closed(w))
    BY <1>2, <1>3, <2>1
  <2> QED BY <2>2 DEF w, n
<1>7. LayoutGood(s)
  BY DEF Settled
<1>8. Layout!CLOSE_OTHER_TABS(s, g, t) \in {s, Closed(<<t>>)}
  BY DEF Layout!CLOSE_OTHER_TABS, Layout!CloseTabs, Lose
<1>9. Layout!CLOSE_TABS_TO_RIGHT(s, g, t) \in {s, Closed(SubSeq(r.tabs, 1, i))}
  BY DEF Layout!CLOSE_TABS_TO_RIGHT, Layout!CloseTabs, Lose
<1>10. Layout!CLOSE_TABS_TO_LEFT(s, g, t) \in {s, Closed(SubSeq(r.tabs, i, Len(r.tabs)))}
  BY DEF Layout!CLOSE_TABS_TO_LEFT, Layout!CloseTabs, Lose
<1> HIDE DEF Closed, i, r
<1> QED BY <1>4, <1>5, <1>6, <1>7, <1>8, <1>9, <1>10

(***************************************************************************)
(* Pages and panes: panes that open and go                                 *)
(***************************************************************************)
LEMMA BesideIs ==
  ASSUME NEW grid \in Seq(Nat), Layout!IsInjective(grid), NEW g \in Layout!ToSet(grid), NEW e \in Nat, e \notin Layout!ToSet(grid),
         NEW dir, NEW w, w = Layout!InsertBeside(grid, g, e, dir)
  PROVE  w \in Seq(Nat) /\ Layout!ToSet(w) = Layout!ToSet(grid) \cup {e} /\ Layout!IsInjective(w)
<1> DEFINE k == Layout!At(grid, g) + (IF dir = "right" THEN 1 ELSE 0)
<1>1. Layout!At(grid, g) \in 1 .. Len(grid) /\ Len(grid) \in Nat
  BY TakenOut
<1>2. k \in 1 .. (Len(grid) + 1)
  BY <1>1
<1>3. Layout!Contains(grid, g)
  BY Members
<1>4. w = Layout!InsertAt(grid, k, e)
  BY <1>3 DEF Layout!InsertBeside
<1> HIDE DEF k
<1>5. w \in Seq(Nat) /\ Layout!ToSet(w) = Layout!ToSet(grid) \cup {e} /\ Layout!IsInjective(w)
  BY <1>2, <1>4, MoreOnce
<1> QED BY <1>5

(* A new pane beside one of the live page *)
Beside(s, gr, map, at, dir) ==
  [s EXCEPT !.groups = gr, !.tabToGroupMap = map, !.gridLayout = Layout!InsertBeside(s.gridLayout, at, s.nextGroupId, dir),
            !.nextGroupId = s.nextGroupId + 1, !.activeGroupId = s.nextGroupId]

LEMMA NewPane == ASSUME NEW s, Settled(s)
                 PROVE  /\ s.nextGroupId \in Nat /\ 0 < s.nextGroupId /\ s.nextGroupId \notin DOMAIN s.groups
                        /\ s.nextGroupId \notin Layout!ToSet(s.gridLayout)
<1>1. /\ s.activeGroupId \in DOMAIN s.groups /\ s.activeGroupId \in Nat /\ s.nextGroupId \in Nat
      /\ \A g \in DOMAIN s.groups : g < s.nextGroupId /\ 0 < g
      /\ DOMAIN s.groups \subseteq Nat /\ Layout!ToSet(s.gridLayout) \subseteq DOMAIN s.groups
  BY SettledIs DEF Counted
<1>2. 0 < s.nextGroupId
  BY <1>1
<1>3. s.nextGroupId \notin DOMAIN s.groups
  BY <1>1
<1> QED BY <1>1, <1>2, <1>3

LEMMA Opened ==
  ASSUME NEW s, Settled(s), NEW at \in Layout!ToSet(s.gridLayout), NEW dir, NEW gr, NEW map, Keeps(gr, map),
         DOMAIN gr = DOMAIN s.groups \cup {s.nextGroupId}, NEW n, n = Beside(s, gr, map, at, dir)
  PROVE  /\ LayoutGood(n) /\ n.groups = gr /\ n.pages = s.pages /\ n.activePageId = s.activePageId
         /\ \A h \in Layout!ToSet(s.gridLayout) : h \in Layout!ToSet(n.gridLayout)
<1> DEFINE w == Layout!InsertBeside(s.gridLayout, at, s.nextGroupId, dir)
           new == s.nextGroupId
<1>1. /\ s \in LayoutStates /\ s.gridLayout \in Seq(Nat) /\ Layout!IsInjective(s.gridLayout)
      /\ Layout!ToSet(s.gridLayout) \subseteq DOMAIN s.groups
  BY SettledIs
<1>2. new \in Nat /\ 0 < new /\ new \notin DOMAIN s.groups /\ new \notin Layout!ToSet(s.gridLayout)
  BY NewPane
<1>3. w \in Seq(Nat) /\ Layout!ToSet(w) = Layout!ToSet(s.gridLayout) \cup {new} /\ Layout!IsInjective(w)
  BY <1>1, <1>2, BesideIs
<1>4. gr \in LayoutGroups /\ map \in LayoutMaps
  BY DEF Keeps
<1>5. n = [s EXCEPT !.groups = gr, !.tabToGroupMap = map, !.gridLayout = w, !.nextGroupId = new + 1, !.activeGroupId = new]
  BY DEF Beside
<1> HIDE DEF w, new
<1>6. /\ n \in LayoutStates /\ n.groups = gr /\ n.tabToGroupMap = map /\ n.gridLayout = w /\ n.nextGroupId = new + 1
      /\ n.activeGroupId = new /\ n.pages = s.pages /\ n.activePageId = s.activePageId /\ n.nextPageId = s.nextPageId
  <2>1. n = [groups |-> gr, activeGroupId |-> new, gridLayout |-> w, nextGroupId |-> new + 1, tabToGroupMap |-> map,
             pages |-> s.pages, activePageId |-> s.activePageId, nextPageId |-> s.nextPageId]
    BY <1>1, <1>5 DEF LayoutStates
  <2>2. s.pages \in Seq(LayoutPage) /\ s.activePageId \in Nat /\ s.nextPageId \in Nat /\ new + 1 \in Nat
    BY <1>1, <1>2 DEF LayoutStates
  <2> QED BY <1>2, <1>3, <1>4, <2>1, <2>2 DEF LayoutStates
<1>7. /\ Layout!IsInjective(n.gridLayout) /\ n.activeGroupId \in Layout!ToSet(n.gridLayout)
      /\ \A g \in Layout!ToSet(n.gridLayout) : g \in Layout!ToSet(s.gridLayout) \/ g \notin DOMAIN s.groups
  BY <1>2, <1>3, <1>6
<1>8. DOMAIN n.groups = (DOMAIN s.groups \ Layout!ToSet(s.gridLayout)) \cup Layout!ToSet(n.gridLayout)
  BY <1>1, <1>3, <1>6 DEF new
<1>9. \A g \in DOMAIN n.groups : g \in DOMAIN s.groups \/ (0 < g /\ g < n.nextGroupId)
  BY <1>2, <1>6 DEF new
<1>10. s.nextGroupId <= n.nextGroupId /\ Keeps(n.groups, n.tabToGroupMap)
  BY <1>2, <1>6 DEF new
<1>11. LayoutGood(n)
  BY <1>6, <1>7, <1>8, <1>9, <1>10, Rearranged
<1> QED BY <1>3, <1>6, <1>11

LEMMA SplitGood ==
  ASSUME NEW s, Settled(s), NEW g \in DOMAIN s.groups, NEW dir
  PROVE  LayoutGood(Layout!SPLIT_GROUP(s, g, dir)) /\ Stays(s, Layout!SPLIT_GROUP(s, g, dir))
<1> DEFINE gr == Layout!With(s.groups, s.nextGroupId, Layout!Group(<<>>, None))
           n == Beside(s, gr, s.tabToGroupMap, g, dir)
<1>1. CASE g \in Layout!ToSet(s.gridLayout)
  <2>1. Keeps(gr, s.tabToGroupMap)
    BY SettledIs, NewPane, KeepsEmpty
  <2>2. DOMAIN gr = DOMAIN s.groups \cup {s.nextGroupId}
    BY DEF Layout!With
  <2>3. Layout!SPLIT_GROUP(s, g, dir) \in {s, n}
    BY SettledIs DEF Layout!SPLIT_GROUP, Layout!SetGroup, Beside, LayoutStates
  <2> HIDE DEF gr
  <2>4. LayoutGood(n)
    BY <1>1, <2>1, <2>2, Opened
  <2>5. n.tabToGroupMap = s.tabToGroupMap
    BY SettledIs DEF LayoutStates, Beside
  <2> HIDE DEF n
  <2> QED BY <2>3, <2>4, <2>5 DEF Settled, Stays
<1>2. CASE g \notin Layout!ToSet(s.gridLayout)
  <2>1. ~Layout!Contains(s.gridLayout, g)
    BY <1>2, SettledIs, Members
  <2>2. Layout!SPLIT_GROUP(s, g, dir) = s
    BY <2>1 DEF Layout!SPLIT_GROUP
  <2> QED BY <2>2 DEF Settled, Stays
<1> QED BY <1>1, <1>2

LEMMA MoveTabToNewGroupGood ==
  ASSUME NEW s, Settled(s), NEW g \in DOMAIN s.groups, NEW t \in Layout!ToSet(s.groups[g].tabs), NEW dir, NEW at \in DOMAIN s.groups
  PROVE  LET d == Layout!MOVE_TAB_TO_NEW_GROUP(s, g, t, dir, at) IN LayoutGood(d) /\ Stays(s, d)
<1> DEFINE new == s.nextGroupId
           r == Layout!Group(<<t>>, t)
           gr1 == Layout!With(s.groups, g, Layout!Without(s.groups[g], t))
           gr == Layout!With(gr1, new, r)
           map == Layout!With(s.tabToGroupMap, t, new)
           n == Beside(s, gr, map, at, dir)
<1>1. CASE at \in Layout!ToSet(s.gridLayout)
  <2>1. Keeps(s.groups, s.tabToGroupMap) /\ new \in Nat /\ new \notin DOMAIN s.groups /\ new # g
    BY SettledIs, NewPane
  <2>2. t \in Tabs
    BY PaneIs
  <2>3. GoodGroup(r) /\ Layout!ToSet(r.tabs) = {t}
    BY <2>2, GoodSingle
  <2> HIDE DEF r
  <2>4. Layout!ToSet(r.tabs) = {t} \cup (IF new \in DOMAIN s.groups THEN Layout!ToSet(s.groups[new].tabs) ELSE {})
    BY <2>1, <2>3
  <2>5. Keeps(gr, map)
    BY <2>1, <2>3, <2>4, KeepsMoved
  <2>6. DOMAIN gr = DOMAIN s.groups \cup {new}
    BY DEF Layout!With
  <2>12. DOMAIN map = DOMAIN s.tabToGroupMap
    BY TabIsIndexed, WithAgain
  <2>7. Layout!MOVE_TAB_TO_NEW_GROUP(s, g, t, dir, at) \in {s, Layout!DropIfEmpty(n, g)}
    BY SettledIs DEF Layout!MOVE_TAB_TO_NEW_GROUP, Layout!SetGroup, Beside, LayoutStates, r
  <2> HIDE DEF gr, map, n
  <2>8. n = Beside(s, gr, map, at, dir)
    BY DEF n
  <2>9. /\ LayoutGood(n) /\ n.groups = gr /\ n.pages = s.pages /\ n.activePageId = s.activePageId
        /\ \A h \in Layout!ToSet(s.gridLayout) : h \in Layout!ToSet(n.gridLayout)
    <3>1. LayoutGood(n)
      BY <1>1, <2>5, <2>6, <2>8, Opened
    <3>2. n.groups = gr
      BY <1>1, <2>5, <2>6, <2>8, Opened
    <3>3. n.pages = s.pages /\ n.activePageId = s.activePageId
      BY <1>1, <2>5, <2>6, <2>8, Opened
    <3>4. \A h \in Layout!ToSet(s.gridLayout) : h \in Layout!ToSet(n.gridLayout)
      BY <1>1, <2>5, <2>6, <2>8, Opened
    <3> QED BY <3>1, <3>2, <3>3, <3>4
  <2>10. \A a \in 1 .. Len(n.pages) : n.pages[a].id = n.activePageId => n.pages[a].activeGroupId \in Layout!ToSet(n.gridLayout)
    BY <2>9, SettledIs
  <2>13. n.tabToGroupMap = map
    BY <2>8, SettledIs DEF LayoutStates, Beside
  <2>11. LayoutGood(Layout!DropIfEmpty(n, g)) /\ Stays(n, Layout!DropIfEmpty(n, g))
    BY <2>6, <2>9, <2>10, Emptied
  <2> QED BY <2>7, <2>11, <2>12, <2>13 DEF Settled, Stays
<1>2. CASE at \notin Layout!ToSet(s.gridLayout)
  <2>1. ~Layout!Contains(s.gridLayout, at)
    BY <1>2, SettledIs, Members
  <2>2. Layout!MOVE_TAB_TO_NEW_GROUP(s, g, t, dir, at) = s
    BY <2>1 DEF Layout!MOVE_TAB_TO_NEW_GROUP
  <2> QED BY <2>2 DEF Settled, Stays
<1> QED BY <1>1, <1>2

LEMMA RemoveGroupGood ==
  ASSUME NEW s, Settled(s), NEW g \in DOMAIN s.groups
  PROVE  LayoutGood(Layout!REMOVE_GROUP(s, g))
<1> DEFINE r == Layout!Group(<<>>, None)
           X == Layout!ToSet(s.groups[g].tabs)
           n == Lose(s, g, r, X)
<1>1. CASE Layout!Cardinality(Layout!GroupIds(s)) > 1
  <2>1. \E h \in DOMAIN s.groups : h # g
    <3> SUFFICES ASSUME \A h \in DOMAIN s.groups : h = g PROVE FALSE
      OBVIOUS
    <3>1. Layout!GroupIds(s) = {g}
      BY DEF Layout!GroupIds
    <3>2. Layout!Cardinality({g}) = 1
      BY LayoutCardinality, FS_Singleton
    <3> QED BY <1>1, <3>1, <3>2
  <2>2. \A a \in 1 .. Len(s.pages) : s.pages[a].id = s.activePageId => s.pages[a].activeGroupId \in Layout!ToSet(s.gridLayout)
    BY SettledIs
  <2>3. LayoutGood(s) /\ LayoutGood(Layout!DropGroup(s, g))
    BY <2>1, <2>2, Dropped DEF Settled
  <2> QED BY <1>1, <2>3 DEF Layout!REMOVE_GROUP
<1>2. CASE ~(Layout!Cardinality(Layout!GroupIds(s)) > 1)
  <2>1. GoodGroup(r) /\ Layout!ToSet(r.tabs) = {}
    BY GoodEmpty
  <2>2. Layout!REMOVE_GROUP(s, g) \in {s, n}
    BY <1>2 DEF Layout!REMOVE_GROUP, Lose
  <2> HIDE DEF r
  <2>3. X = Layout!ToSet(s.groups[g].tabs) \ Layout!ToSet(r.tabs) /\ Layout!ToSet(r.tabs) \subseteq Layout!ToSet(s.groups[g].tabs)
    BY <2>1
  <2> HIDE DEF X
  <2>4. LayoutGood(n)
    BY <2>1, <2>3, PaneLess
  <2> QED BY <2>2, <2>4 DEF Settled
<1> QED BY <1>1, <1>2

(***************************************************************************)
(* Pages and panes: pages and focus                                        *)
(***************************************************************************)
(* Another page shown, with one of its panes focused *)
LEMMA ShowGood ==
  ASSUME NEW s, Settled(s), NEW i \in 1 .. Len(s.pages), NEW f \in Layout!ToSet(s.pages[i].gridLayout)
  PROVE  LayoutGood(Layout!ShowPage(s, i, f)) /\ Stays(s, Layout!ShowPage(s, i, f))
<1> DEFINE P == s.pages
           G == DOMAIN s.groups
           m == Layout!Remember(s)
           r == Layout!ShowPage(s, i, f)
           p == Layout!Page(P[i].id, P[i].gridLayout, f)
<1>1. /\ s \in LayoutStates /\ LayoutGood(s) /\ Counted(s) /\ Keeps(s.groups, s.tabToGroupMap) /\ G \subseteq Nat
      /\ P \in Seq(LayoutPage) /\ Len(P) \in Nat /\ Placed(G, P)
      /\ P[i] \in LayoutPage /\ Layout!IsInjective(P[i].gridLayout) /\ Layout!ToSet(P[i].gridLayout) \subseteq G
      /\ \A a, b \in 1 .. Len(P) : a # b => P[a].id # P[b].id
  BY SettledIs
<1>2. P[i].id \in Nat /\ P[i].gridLayout \in Seq(Nat) /\ f \in Nat
  BY <1>1 DEF LayoutPage
<1>3. /\ m \in LayoutStates /\ m.pages = P /\ m.groups = s.groups /\ m.nextGroupId = s.nextGroupId
      /\ m.tabToGroupMap = s.tabToGroupMap /\ m.nextPageId = s.nextPageId
  BY <1>1, RememberIs DEF Settled
<1>4. r = [m EXCEPT !.activePageId = P[i].id, !.gridLayout = P[i].gridLayout, !.activeGroupId = f]
  BY DEF Layout!ShowPage
<1> HIDE DEF m, r
<1>5. /\ r \in LayoutStates /\ r.pages = P /\ r.groups = s.groups /\ r.nextGroupId = s.nextGroupId
      /\ r.tabToGroupMap = s.tabToGroupMap /\ r.nextPageId = s.nextPageId
      /\ r.activePageId = P[i].id /\ r.gridLayout = P[i].gridLayout /\ r.activeGroupId = f
  BY <1>2, <1>3, <1>4 DEF LayoutStates
<1>6. p \in LayoutPage /\ p.id = P[i].id /\ p.gridLayout = P[i].gridLayout /\ p.activeGroupId = f
  BY <1>2, PageIs
<1>7. /\ View(r) \in Seq(LayoutPage) /\ Len(View(r)) = Len(P)
      /\ \A a \in 1 .. Len(P) : View(r)[a] = IF P[a].id = P[i].id THEN p ELSE P[a]
  BY <1>5, ViewIs
<1> HIDE DEF p
<1>8. View(r)[i] = p /\ \A a \in 1 .. Len(P) : a # i => View(r)[a] = P[a]
  BY <1>1, <1>7
<1>9. Fits(View(r)[i], G \ Layout!ToSet(P[i].gridLayout)) /\ View(r)[i].id = P[i].id
  BY <1>1, <1>6, <1>8 DEF Fits
<1>10. Placed((G \ Layout!ToSet(P[i].gridLayout)) \cup Layout!ToSet(View(r)[i].gridLayout), View(r))
  BY <1>1, <1>7, <1>8, <1>9, PlacedAnew
<1>11. (G \ Layout!ToSet(P[i].gridLayout)) \cup Layout!ToSet(View(r)[i].gridLayout) = DOMAIN r.groups
  BY <1>1, <1>5, <1>6, <1>8
<1>12. /\ \E l \in 1 .. Len(r.pages) : r.pages[l].id = r.activePageId
       /\ \A a \in 1 .. Len(r.pages) : \E b \in 1 .. Len(s.pages) : r.pages[a].id = s.pages[b].id
  BY <1>5
<1>13. Keeps(r.groups, r.tabToGroupMap) /\ DOMAIN r.groups \subseteq G /\ Placed(DOMAIN r.groups, View(r))
  BY <1>1, <1>5, <1>10, <1>11
<1>14. LayoutGood(r)
  BY <1>1, <1>5, <1>12, <1>13, GoodAgain
<1> QED BY <1>5, <1>14 DEF r, Stays

(* The page of a pane *)
LEMMA PageOf ==
  ASSUME NEW s, Settled(s), NEW g \in DOMAIN s.groups
  PROVE  \E i \in 1 .. Len(s.pages) : g \in Layout!ToSet(s.pages[i].gridLayout) /\ Layout!Owner(s, g) = i
<1>1. s \in LayoutStates /\ Arranged(s) /\ View(s) = s.pages /\ s.pages \in Seq(LayoutPage)
  BY SettledIs DEF Settled
<1>2. Placed(DOMAIN s.groups, s.pages)
  BY SettledIs
<1>3. PICK i \in 1 .. Len(s.pages) : g \in Layout!ToSet(s.pages[i].gridLayout)
  BY <1>1, <1>2 DEF Placed, Shows, Layout!ToSet
<1>4. g \in Layout!ToSet(View(s)[i].gridLayout)
  BY <1>1, <1>3
<1>5. Layout!Owner(s, g) = i
  BY <1>1, <1>4, OwnerIs
<1> QED BY <1>3, <1>5

LEMMA ActivateGroupGood ==
  ASSUME NEW s, Settled(s), NEW g \in DOMAIN s.groups
  PROVE  LayoutGood(Layout!ACTIVATE_GROUP(s, g)) /\ Stays(s, Layout!ACTIVATE_GROUP(s, g))
<1>1. PICK i \in 1 .. Len(s.pages) : g \in Layout!ToSet(s.pages[i].gridLayout) /\ Layout!Owner(s, g) = i
  BY PageOf
<1>2. i # 0
  BY SettledIs
<1>3. CASE s.pages[i].id # s.activePageId
  <2>1. Layout!ACTIVATE_GROUP(s, g) = Layout!ShowPage(s, i, g)
    BY <1>1, <1>2, <1>3 DEF Layout!ACTIVATE_GROUP, Layout!GroupIds
  <2> QED BY <1>1, <2>1, ShowGood
<1>4. CASE s.pages[i].id = s.activePageId
  <2> DEFINE r == [s EXCEPT !.activeGroupId = g]
  <2>1. Layout!ACTIVATE_GROUP(s, g) = r
    BY <1>1, <1>4 DEF Layout!ACTIVATE_GROUP, Layout!GroupIds
  <2>2. g \in Layout!ToSet(s.gridLayout) /\ g \in Nat
    BY <1>1, <1>4, SettledIs
  <2>3. /\ s \in LayoutStates /\ Layout!IsInjective(s.gridLayout) /\ Keeps(s.groups, s.tabToGroupMap)
        /\ Layout!ToSet(s.gridLayout) \subseteq DOMAIN s.groups
    BY SettledIs
  <2>4. /\ r \in LayoutStates /\ r.groups = s.groups /\ r.tabToGroupMap = s.tabToGroupMap /\ r.pages = s.pages
        /\ r.gridLayout = s.gridLayout /\ r.activeGroupId = g /\ r.activePageId = s.activePageId
        /\ r.nextGroupId = s.nextGroupId /\ r.nextPageId = s.nextPageId /\ s.nextGroupId \in Nat
    BY <2>2, <2>3 DEF LayoutStates
  <2> HIDE DEF r
  <2>5. /\ Layout!IsInjective(r.gridLayout) /\ r.activeGroupId \in Layout!ToSet(r.gridLayout) /\ s.nextGroupId <= r.nextGroupId
        /\ \A h \in Layout!ToSet(r.gridLayout) : h \in Layout!ToSet(s.gridLayout) \/ h \notin DOMAIN s.groups
        /\ \A h \in DOMAIN r.groups : h \in DOMAIN s.groups \/ (0 < h /\ h < r.nextGroupId)
        /\ Keeps(r.groups, r.tabToGroupMap)
    BY <2>2, <2>3, <2>4
  <2>6. DOMAIN r.groups = (DOMAIN s.groups \ Layout!ToSet(s.gridLayout)) \cup Layout!ToSet(r.gridLayout)
    BY <2>3, <2>4
  <2>7. LayoutGood(r)
    BY <2>4, <2>5, <2>6, Rearranged
  <2> QED BY <2>1, <2>4, <2>7 DEF Stays, r
<1> QED BY <1>3, <1>4

LEMMA ActivatePageGood ==
  ASSUME NEW s, Settled(s), NEW i \in 1 .. Len(s.pages)
  PROVE  LayoutGood(Layout!ACTIVATE_PAGE(s, s.pages[i].id)) /\ Stays(s, Layout!ACTIVATE_PAGE(s, s.pages[i].id))
<1>1. Layout!PageAt(s, s.pages[i].id) = i /\ i # 0
  BY SettledIs, PageAtIs
<1>2. /\ s.pages[i].activeGroupId \in Layout!ToSet(s.pages[i].gridLayout)
      /\ Layout!ToSet(s.pages[i].gridLayout) \subseteq DOMAIN s.groups
  BY SettledIs
<1>3. Layout!ACTIVATE_PAGE(s, s.pages[i].id) \in {s, Layout!ShowPage(s, i, s.pages[i].activeGroupId)}
  BY <1>1, <1>2 DEF Layout!ACTIVATE_PAGE, Layout!GroupIds
<1>4. LayoutGood(Layout!ShowPage(s, i, s.pages[i].activeGroupId)) /\ Stays(s, Layout!ShowPage(s, i, s.pages[i].activeGroupId))
  BY <1>2, ShowGood
<1> QED BY <1>3, <1>4 DEF Settled, Stays

(* Pages in another order, or with a new live one *)
LEMMA ViewAgain ==
  ASSUME NEW r \in LayoutStates,
         \A a \in 1 .. Len(r.pages) : r.pages[a].id = r.activePageId =>
           r.pages[a].gridLayout = r.gridLayout /\ r.pages[a].activeGroupId = r.activeGroupId
  PROVE  View(r) = r.pages
<1>1. /\ View(r) \in Seq(LayoutPage) /\ Len(View(r)) = Len(r.pages) /\ r.pages \in Seq(LayoutPage)
      /\ \A a \in 1 .. Len(r.pages) :
           /\ r.pages[a] \in LayoutPage
           /\ View(r)[a] = IF r.pages[a].id = r.activePageId
                           THEN Layout!Page(r.activePageId, r.gridLayout, r.activeGroupId) ELSE r.pages[a]
  BY ViewIs DEF LayoutStates
<1>2. ASSUME NEW a \in 1 .. Len(r.pages) PROVE View(r)[a] = r.pages[a]
  <2>1. r.pages[a] = Layout!Page(r.pages[a].id, r.pages[a].gridLayout, r.pages[a].activeGroupId)
    BY <1>1, PageAgain
  <2> QED BY <1>1, <2>1
<1> QED BY <1>1, <1>2, SameSeq

LEMMA ReorderPageGood ==
  ASSUME NEW s, Settled(s), NEW i \in 1 .. Len(s.pages), NEW j \in 1 .. Len(s.pages), NEW placement
  PROVE  LET n == Layout!REORDER_PAGE(s, s.pages[i].id, s.pages[j].id, placement) IN LayoutGood(n) /\ Stays(s, n)
<1> DEFINE P == s.pages
           insert == j + (IF placement = "after" THEN 1 ELSE 0)
           k == insert - (IF i < insert THEN 1 ELSE 0)
           w == Layout!RemoveAt(P, i)
           Q == Layout!InsertAt(w, k, P[i])
           r == [s EXCEPT !.pages = Q]
<1>1. /\ s \in LayoutStates /\ Arranged(s) /\ P \in Seq(LayoutPage) /\ Len(P) \in Nat /\ Placed(DOMAIN s.groups, P)
      /\ Counted(s) /\ Keeps(s.groups, s.tabToGroupMap) /\ Layout!IsInjective(P) /\ P[i] \in LayoutPage
      /\ \A a \in 1 .. Len(P) : P[a].id = s.activePageId =>
           P[a].gridLayout = s.gridLayout /\ P[a].activeGroupId = s.activeGroupId
      /\ \E l \in 1 .. Len(P) : P[l].id = s.activePageId
  BY SettledIs DEF Placed
<1>2. Layout!PageAt(s, P[i].id) = i /\ Layout!PageAt(s, P[j].id) = j
  BY <1>1, PageAtIs
<1>3. Layout!REORDER_PAGE(s, P[i].id, P[j].id, placement) \in {s, r}
  BY <1>2 DEF Layout!REORDER_PAGE
<1>4. k \in 1 .. Len(P)
  <2> DEFINE d == IF placement = "after" THEN 1 ELSE 0
  <2>1. d \in {0, 1} /\ insert = j + d
    OBVIOUS
  <2> HIDE DEF d
  <2>2. i \in Nat /\ j \in Nat /\ 1 <= i /\ i <= Len(P) /\ 1 <= j /\ j <= Len(P) /\ Len(P) \in Nat
    BY <1>1
  <2>3. insert \in Nat /\ 1 <= insert /\ insert <= Len(P) + 1
    BY <2>1, <2>2
  <2> HIDE DEF insert
  <2>4. CASE i < insert
    BY <2>2, <2>3, <2>4
  <2>5. CASE ~(i < insert)
    BY <2>2, <2>3, <2>5
  <2> QED BY <2>4, <2>5
<1>5. Placed(DOMAIN s.groups, Q)
  BY <1>1, <1>4, PlacedMoved
<1>6. w \in Seq(LayoutPage) /\ Len(w) = Len(P) - 1 /\ Layout!ToSet(w) = Layout!ToSet(P) \ {P[i]}
  BY <1>1, LessOnce
<1> HIDE DEF k, w
<1>7. Q \in Seq(LayoutPage) /\ Layout!ToSet(Q) = Layout!ToSet(P)
  <2> DEFINE p == P[i]
  <2>1. k \in 1 .. (Len(w) + 1)
    BY <1>1, <1>4, <1>6
  <2>2. p \in LayoutPage /\ p \in Layout!ToSet(P) /\ Q = Layout!InsertAt(w, k, p)
    BY <1>1 DEF Layout!ToSet
  <2>3. Layout!ToSet(w) = Layout!ToSet(P) \ {p}
    BY <1>6
  <2> HIDE DEF p, Q
  <2>5. w \in Seq(LayoutPage)
    BY <1>6
  <2>4. Q \in Seq(LayoutPage) /\ Layout!ToSet(Q) = Layout!ToSet(w) \cup {p}
    BY <2>1, <2>2, <2>5, MoreOnce
  <2> QED BY <2>2, <2>3, <2>4
<1> HIDE DEF Q
<1>9. /\ \A a \in 1 .. Len(Q) : \E b \in 1 .. Len(P) : Q[a] = P[b]
      /\ \A b \in 1 .. Len(P) : \E a \in 1 .. Len(Q) : Q[a] = P[b]
  <2>1. /\ Layout!ToSet(P) = {P[b] : b \in 1 .. Len(P)} /\ Layout!ToSet(Q) = {Q[a] : a \in 1 .. Len(Q)}
    BY <1>1, <1>7, Members
  <2>2. ASSUME NEW a \in 1 .. Len(Q) PROVE \E b \in 1 .. Len(P) : Q[a] = P[b]
    BY <1>7, <2>1
  <2>3. ASSUME NEW b \in 1 .. Len(P) PROVE \E a \in 1 .. Len(Q) : Q[a] = P[b]
    BY <1>7, <2>1
  <2> QED BY <2>2, <2>3
<1>10. /\ r \in LayoutStates /\ r.groups = s.groups /\ r.tabToGroupMap = s.tabToGroupMap /\ r.pages = Q
       /\ r.gridLayout = s.gridLayout /\ r.activeGroupId = s.activeGroupId /\ r.activePageId = s.activePageId
       /\ r.nextGroupId = s.nextGroupId /\ r.nextPageId = s.nextPageId
  BY <1>1, <1>7 DEF LayoutStates
<1> HIDE DEF r
<1>11. \A a \in 1 .. Len(r.pages) : r.pages[a].id = r.activePageId =>
           r.pages[a].gridLayout = r.gridLayout /\ r.pages[a].activeGroupId = r.activeGroupId
  <2> SUFFICES ASSUME NEW a \in 1 .. Len(Q), Q[a].id = s.activePageId
               PROVE  Q[a].gridLayout = s.gridLayout /\ Q[a].activeGroupId = s.activeGroupId
    BY <1>10
  <2>1. PICK b \in 1 .. Len(P) : Q[a] = P[b]
    BY <1>9
  <2> QED BY <1>1, <2>1
<1>12. View(r) = Q
  BY <1>10, <1>11, ViewAgain
<1>13. /\ \E l \in 1 .. Len(r.pages) : r.pages[l].id = r.activePageId
       /\ \A a \in 1 .. Len(r.pages) : \E b \in 1 .. Len(s.pages) : r.pages[a].id = s.pages[b].id
  <2>1. PICK l \in 1 .. Len(P) : P[l].id = s.activePageId
    BY <1>1
  <2>2. PICK m \in 1 .. Len(Q) : Q[m] = P[l]
    BY <1>9
  <2>3. ASSUME NEW a \in 1 .. Len(Q) PROVE \E b \in 1 .. Len(P) : Q[a].id = P[b].id
    BY <1>9
  <2> QED BY <1>10, <2>1, <2>2, <2>3
<1>14. LayoutGood(r)
  BY <1>1, <1>5, <1>10, <1>12, <1>13, GoodAgain DEF Settled
<1> QED BY <1>3, <1>10, <1>14 DEF Settled, Stays

(***************************************************************************)
(* Pages and panes: sessions that come and move                            *)
(***************************************************************************)
LEMMA OnePane == ASSUME NEW n \in Nat
                 PROVE  <<n>> \in Seq(Nat) /\ Layout!IsInjective(<<n>>) /\ Layout!ToSet(<<n>>) = {n}
BY DEF Layout!IsInjective, Layout!ToSet

LEMMA NewTab == ASSUME NEW s, Settled(s), NEW t, t \notin Layout!OpenTabs(s)
                PROVE  t \notin DOMAIN s.tabToGroupMap /\ \A g \in DOMAIN s.groups : t \notin Layout!ToSet(s.groups[g].tabs)
<1>1. \A g \in DOMAIN s.groups : t \notin Layout!ToSet(s.groups[g].tabs)
  BY DEF Layout!OpenTabs
<1>2. Keeps(s.groups, s.tabToGroupMap)
  BY SettledIs
<1> QED BY <1>1, <1>2 DEF Keeps

LEMMA AddTabHere ==
  ASSUME NEW s, Settled(s), NEW t \in Tabs, t \notin Layout!OpenTabs(s), NEW g \in DOMAIN s.groups, s.groups[g].tabs = <<>>,
         NEW n, n = [Layout!SetGroup(s, g, Layout!Group(<<t>>, t)) EXCEPT !.tabToGroupMap = Layout!With(@, t, g)]
  PROVE  LayoutGood(n)
<1> DEFINE r == Layout!Group(<<t>>, t)
           gr == Layout!With(s.groups, g, r)
           map == Layout!With(s.tabToGroupMap, t, g)
<1>1. GoodGroup(r) /\ Layout!ToSet(r.tabs) = {t}
  BY GoodSingle
<1>2. Keeps(s.groups, s.tabToGroupMap) /\ g \in Nat /\ t \notin DOMAIN s.tabToGroupMap
  BY SettledIs, NewTab
<1>3. Layout!ToSet(s.groups[g].tabs) = {}
  BY DEF Layout!ToSet
<1>4. n = Regroup(s, gr, map)
  BY SettledIs DEF Layout!SetGroup, LayoutStates, Regroup
<1> HIDE DEF r
<1>5. Layout!ToSet(r.tabs) = {t} \cup (IF g \in DOMAIN s.groups THEN Layout!ToSet(s.groups[g].tabs) ELSE {})
  BY <1>1, <1>3
<1>6. Keeps(gr, map)
  BY <1>1, <1>2, <1>5, KeepsMore
<1>7. DOMAIN gr = DOMAIN s.groups
  BY DEF Layout!With
<1> HIDE DEF gr, map
<1> QED BY <1>4, <1>6, <1>7, Regrouped

NewPage(s, gr, map, new, p) ==
  [s EXCEPT !.groups = gr, !.tabToGroupMap = map, !.gridLayout = <<new>>, !.activeGroupId = new, !.nextGroupId = new + 1,
            !.nextPageId = @ + 1, !.activePageId = s.nextPageId, !.pages = Append(@, p)]

LEMMA AddTabAnew ==
  ASSUME NEW s, Settled(s), NEW gr, NEW map, Keeps(gr, map), DOMAIN gr = DOMAIN s.groups \cup {s.nextGroupId},
         NEW p, p = Layout!Page(s.nextPageId, <<s.nextGroupId>>, s.nextGroupId),
         NEW n, n = NewPage(s, gr, map, s.nextGroupId, p)
  PROVE  LayoutGood(n)
<1> DEFINE P == s.pages
           new == s.nextGroupId
           one == <<new>>
           Q == Append(P, p)
<1>1. /\ s \in LayoutStates /\ P \in Seq(LayoutPage) /\ Len(P) \in Nat /\ Placed(DOMAIN s.groups, P) /\ s.nextPageId \in Nat
      /\ \A a \in 1 .. Len(P) : P[a].id < s.nextPageId /\ 0 < P[a].id /\ P[a] \in LayoutPage
      /\ \A g \in DOMAIN s.groups : g < new /\ 0 < g
      /\ DOMAIN s.groups \subseteq Nat
      /\ \E l \in 1 .. Len(P) : P[l].id = s.activePageId
  BY SettledIs DEF Counted
<1>2. new \in Nat /\ 0 < new /\ new \notin DOMAIN s.groups
  BY NewPane
<1>3. one \in Seq(Nat) /\ Layout!IsInjective(one) /\ Layout!ToSet(one) = {new}
  BY <1>2, OnePane
<1>4. p \in LayoutPage /\ p.id = s.nextPageId /\ p.gridLayout = one /\ p.activeGroupId = new
  <2>1. p = Layout!Page(s.nextPageId, one, new)
    OBVIOUS
  <2> HIDE DEF one
  <2> QED BY <1>1, <1>2, <1>3, <2>1, PageIs
<1>5. gr \in LayoutGroups /\ map \in LayoutMaps
  BY DEF Keeps
<1>6. /\ Q \in Seq(LayoutPage) /\ Len(Q) = Len(P) + 1 /\ Q[Len(P) + 1] = p /\ \A a \in 1 .. Len(P) : Q[a] = P[a]
  BY <1>1, <1>4
<1> HIDE DEF Q, new, one
<1>7. n = [groups |-> gr, activeGroupId |-> new, gridLayout |-> one, nextGroupId |-> new + 1, tabToGroupMap |-> map,
           pages |-> Q, activePageId |-> s.nextPageId, nextPageId |-> s.nextPageId + 1]
  BY <1>1 DEF LayoutStates, NewPage, Q, new, one
<1>8. /\ n \in LayoutStates /\ n.groups = gr /\ n.tabToGroupMap = map /\ n.pages = Q /\ n.gridLayout = one
      /\ n.activeGroupId = new /\ n.activePageId = s.nextPageId /\ n.nextGroupId = new + 1 /\ n.nextPageId = s.nextPageId + 1
  <2>1. s.nextPageId + 1 \in Nat /\ new + 1 \in Nat
    BY <1>1, <1>2
  <2> QED BY <1>1, <1>2, <1>3, <1>5, <1>6, <1>7, <2>1 DEF LayoutStates
<1>9. \A a \in 1 .. Len(Q) : a \in 1 .. Len(P) \/ a = Len(P) + 1
  BY <1>1, <1>6
<1>10. \A a \in 1 .. Len(n.pages) : n.pages[a].id = n.activePageId =>
            n.pages[a].gridLayout = n.gridLayout /\ n.pages[a].activeGroupId = n.activeGroupId
  <2> SUFFICES ASSUME NEW a \in 1 .. Len(Q), Q[a].id = s.nextPageId
               PROVE  Q[a].gridLayout = one /\ Q[a].activeGroupId = new
    BY <1>8
  <2>1. CASE a \in 1 .. Len(P)
    <3>1. Q[a].id < s.nextPageId /\ Q[a].id \in Nat
      BY <1>1, <1>6, <2>1 DEF LayoutPage
    <3> QED BY <1>1, <3>1
  <2>2. CASE a = Len(P) + 1
    BY <1>4, <1>6, <2>2
  <2> QED BY <1>9, <2>1, <2>2
<1>11. View(n) = Q
  BY <1>8, <1>10, ViewAgain
<1>12. Fits(p, DOMAIN s.groups) /\ \A a \in 1 .. Len(P) : P[a].id # p.id
  <2>1. \A a \in 1 .. Len(P) : P[a].id # p.id
    <3> SUFFICES ASSUME NEW a \in 1 .. Len(P), P[a].id = s.nextPageId PROVE FALSE
      BY <1>4
    <3> QED BY <1>1
  <2> QED BY <1>2, <1>3, <1>4, <2>1 DEF Fits
<1>13. Placed(DOMAIN s.groups \cup {new}, Q)
  <2>1. Placed(DOMAIN s.groups \cup Layout!ToSet(p.gridLayout), Append(P, p))
    BY <1>1, <1>12, PlacedMore
  <2> QED BY <1>3, <1>4, <2>1 DEF Q
<1>14. \E l \in 1 .. Len(n.pages) : n.pages[l].id = n.activePageId
  <2>1. Len(P) + 1 \in 1 .. Len(Q)
    BY <1>1, <1>6
  <2> QED BY <1>4, <1>6, <1>8, <2>1
<1>15. Arranged(n)
  <2>1. DOMAIN n.groups = DOMAIN s.groups \cup {new}
    BY <1>8 DEF new
  <2> QED BY <1>11, <1>13, <1>14, <2>1 DEF Arranged
<1>16. \A g \in DOMAIN n.groups : g < n.nextGroupId /\ 0 < g
  <2> SUFFICES ASSUME NEW g \in DOMAIN s.groups \cup {new} PROVE g < new + 1 /\ 0 < g
    BY <1>8 DEF new
  <2> QED BY <1>1, <1>2
<1>17. \A a \in 1 .. Len(n.pages) : n.pages[a].id < n.nextPageId /\ 0 < n.pages[a].id
  <2> SUFFICES ASSUME NEW a \in 1 .. Len(Q) PROVE Q[a].id < s.nextPageId + 1 /\ 0 < Q[a].id
    BY <1>8
  <2>1. CASE a \in 1 .. Len(P)
    <3>1. Q[a].id < s.nextPageId /\ 0 < Q[a].id /\ Q[a].id \in Nat
      BY <1>1, <1>6, <2>1 DEF LayoutPage
    <3> QED BY <1>1, <3>1
  <2>2. CASE a = Len(P) + 1
    <3>1. 0 < s.nextPageId
      <4>1. PICK l \in 1 .. Len(P) : TRUE
        BY <1>1
      <4>2. P[l].id < s.nextPageId /\ 0 < P[l].id /\ P[l].id \in Nat
        BY <1>1 DEF LayoutPage
      <4> QED BY <1>1, <4>2
    <3> QED BY <1>1, <1>4, <1>6, <2>2, <3>1
  <2> QED BY <1>9, <2>1, <2>2
<1> QED BY <1>8, <1>15, <1>16, <1>17 DEF LayoutGood, Counted

LEMMA AddTabGood ==
  ASSUME NEW s, Settled(s), NEW t \in Tabs, t \notin Layout!OpenTabs(s)
  PROVE  LayoutGood(Layout!ADD_TAB(s, t))
<1> DEFINE g == s.activeGroupId
           new == s.nextGroupId
           r == Layout!Group(<<t>>, t)
           p == Layout!Page(s.nextPageId, <<new>>, new)
           gr == Layout!With(s.groups, new, r)
           map == Layout!With(s.tabToGroupMap, t, new)
           m == Layout!Remember(s)
<1>1. g \in DOMAIN s.groups
  BY SettledIs
<1>2. CASE s.groups[g].tabs = <<>>
  <2> DEFINE n == [Layout!SetGroup(s, g, r) EXCEPT !.tabToGroupMap = Layout!With(@, t, g)]
  <2>1. Layout!ADD_TAB(s, t) = n
    BY <1>1, <1>2 DEF Layout!ADD_TAB, Layout!GroupIds
  <2>2. LayoutGood(n)
    BY <1>1, <1>2, AddTabHere
  <2> QED BY <2>1, <2>2
<1>3. CASE s.groups[g].tabs # <<>>
  <2>1. s \in LayoutStates /\ Keeps(s.groups, s.tabToGroupMap) /\ new \in Nat /\ new \notin DOMAIN s.groups
        /\ t \notin DOMAIN s.tabToGroupMap
    BY SettledIs, NewPane, NewTab
  <2>2. m = s
    <3>1. /\ m \in LayoutStates /\ m.pages = s.pages
          /\ m.groups = s.groups /\ m.activeGroupId = s.activeGroupId /\ m.gridLayout = s.gridLayout
          /\ m.nextGroupId = s.nextGroupId /\ m.tabToGroupMap = s.tabToGroupMap
          /\ m.activePageId = s.activePageId /\ m.nextPageId = s.nextPageId
      BY <2>1, RememberIs DEF Settled
    <3> HIDE DEF m
    <3> DEFINE R(x) == [groups |-> x.groups, activeGroupId |-> x.activeGroupId, gridLayout |-> x.gridLayout,
                        nextGroupId |-> x.nextGroupId, tabToGroupMap |-> x.tabToGroupMap,
                        pages |-> x.pages, activePageId |-> x.activePageId, nextPageId |-> x.nextPageId]
    <3>2. \A x \in LayoutStates : x = R(x)
      BY DEF LayoutStates
    <3>3. R(m) = R(s)
      BY <3>1
    <3> HIDE DEF R
    <3> QED BY <2>1, <3>1, <3>2, <3>3
  <2>3. Layout!ADD_TAB(s, t) =
          [Layout!SetGroup(m, new, r) EXCEPT
              !.tabToGroupMap = Layout!With(@, t, new), !.gridLayout = <<new>>, !.activeGroupId = new,
              !.nextGroupId = new + 1, !.nextPageId = @ + 1, !.activePageId = s.nextPageId, !.pages = Append(@, p)]
    BY <1>1, <1>3 DEF Layout!ADD_TAB, Layout!GroupIds
  <2>4. Layout!ADD_TAB(s, t) = NewPage(s, gr, map, new, p)
    <3> HIDE DEF m, p, r
    <3> QED BY <2>1, <2>2, <2>3 DEF Layout!SetGroup, LayoutStates, NewPage
  <2>5. GoodGroup(r) /\ Layout!ToSet(r.tabs) = {t}
    BY GoodSingle
  <2> HIDE DEF r
  <2>6. Layout!ToSet(r.tabs) = {t} \cup (IF new \in DOMAIN s.groups THEN Layout!ToSet(s.groups[new].tabs) ELSE {})
    BY <2>1, <2>5
  <2>7. Keeps(gr, map)
    BY <2>1, <2>5, <2>6, KeepsMore
  <2>8. DOMAIN gr = DOMAIN s.groups \cup {new}
    BY DEF Layout!With
  <2> HIDE DEF gr, map
  <2>9. LayoutGood(NewPage(s, gr, map, new, p))
    BY <2>7, <2>8, AddTabAnew
  <2> QED BY <2>4, <2>9
<1> QED BY <1>2, <1>3

LEMMA ActivateTabGood ==
  ASSUME NEW s, Settled(s), NEW g \in DOMAIN s.groups, NEW t \in Layout!ToSet(s.groups[g].tabs)
  PROVE  LayoutGood(Layout!ACTIVATE_TAB(s, g, t)) /\ Stays(s, Layout!ACTIVATE_TAB(s, g, t))
<1> DEFINE r == Layout!Group(s.groups[g].tabs, t)
           n == Layout!SetGroup(s, g, r)
<1>1. /\ s.groups[g] \in LayoutGroup /\ s.groups[g].tabs \in Seq(Tabs) /\ Layout!IsInjective(s.groups[g].tabs)
      /\ s.groups \in LayoutGroups /\ t \in Tabs
  BY PaneIs
<1>2. GoodGroup(r) /\ r.tabs = s.groups[g].tabs
  BY <1>1, GoodWith, GroupIs
<1>3. LayoutGood(n) /\ Stays(s, n)
  <2> HIDE DEF r
  <2> QED BY <1>2, PaneAgain
<1>4. [s.groups EXCEPT ![g].activeTabId = t] = Layout!With(s.groups, g, r)
  <2> DEFINE gr == s.groups
  <2>1. gr \in [DOMAIN gr -> LayoutGroup]
    BY <1>1, GroupsAre
  <2>2. [gr[g] EXCEPT !.activeTabId = t] = r
    BY <1>1 DEF LayoutGroup, Layout!Group
  <2> HIDE DEF gr, r
  <2>3. DOMAIN gr \cup {g} = DOMAIN gr
    BY DEF gr
  <2>4. [gr EXCEPT ![g].activeTabId = t] = [h \in DOMAIN gr |-> IF h = g THEN r ELSE gr[h]]
    BY <2>1, <2>2
  <2> QED BY <2>3, <2>4 DEF gr, Layout!With
<1>5. Layout!ACTIVATE_TAB(s, g, t) \in {s, n}
  <2>1. [s EXCEPT !.groups[g].activeTabId = t] = [s EXCEPT !.groups = [s.groups EXCEPT ![g].activeTabId = t]]
    BY SettledIs DEF LayoutStates
  <2> HIDE DEF r
  <2> QED BY <1>4, <2>1 DEF Layout!ACTIVATE_TAB, Layout!SetGroup
<1> HIDE DEF n
<1> QED BY <1>3, <1>5 DEF Settled, Stays

LEMMA ReorderTabGood ==
  ASSUME NEW s, Settled(s), NEW g \in DOMAIN s.groups, NEW from \in DOMAIN s.groups[g].tabs, NEW to \in DOMAIN s.groups[g].tabs
  PROVE  LayoutGood(Layout!REORDER_TAB(s, g, from, to)) /\ Stays(s, Layout!REORDER_TAB(s, g, from, to))
<1> DEFINE q == s.groups[g]
           rest == Layout!RemoveAt(q.tabs, from)
           t == q.tabs[from]
           tabs == Layout!InsertAt(rest, to, t)
           r == Layout!Group(tabs, q.activeTabId)
           n == Layout!SetGroup(s, g, r)
<1>1. /\ q \in LayoutGroup /\ q.tabs \in Seq(Tabs) /\ Layout!IsInjective(q.tabs) /\ GoodGroup(q)
      /\ s.groups \in LayoutGroups /\ Len(q.tabs) \in Nat /\ DOMAIN q.tabs = 1 .. Len(q.tabs)
  <2>1. /\ q \in LayoutGroup /\ q.tabs \in Seq(Tabs) /\ Layout!IsInjective(q.tabs) /\ GoodGroup(q) /\ s.groups \in LayoutGroups
    BY PaneIs
  <2> QED BY <2>1
<1>2. from \in 1 .. Len(q.tabs) /\ to \in 1 .. Len(q.tabs) /\ t \in Tabs /\ t \in Layout!ToSet(q.tabs)
  BY <1>1 DEF Layout!ToSet
<1>3. /\ rest \in Seq(Tabs) /\ Len(rest) = Len(q.tabs) - 1 /\ Layout!IsInjective(rest)
      /\ Layout!ToSet(rest) = Layout!ToSet(q.tabs) \ {t}
  BY <1>1, <1>2, LessOnce
<1> HIDE DEF rest
<1>4. tabs \in Seq(Tabs) /\ Layout!ToSet(tabs) = Layout!ToSet(q.tabs) /\ Layout!IsInjective(tabs)
  <2>1. to \in 1 .. (Len(rest) + 1)
    BY <1>1, <1>2, <1>3
  <2>2. tabs = Layout!InsertAt(rest, to, t)
    OBVIOUS
  <2> HIDE DEF t, tabs, q
  <2>3. tabs \in Seq(Tabs) /\ Layout!ToSet(tabs) = Layout!ToSet(rest) \cup {t}
    BY <1>2, <1>3, <2>1, <2>2, MoreOnce
  <2>4. Layout!IsInjective(tabs)
    BY <1>2, <1>3, <2>1, <2>2, MoreOnce
  <2> QED BY <1>2, <1>3, <2>3, <2>4
<1> HIDE DEF tabs
<1>5. GoodGroup(r) /\ r.tabs = tabs
  <2>1. q.activeTabId \in Layout!ToSet(tabs)
    <3>1. q.tabs # <<>>
      BY <1>1, <1>2
    <3> QED BY <1>1, <1>4, <3>1 DEF GoodGroup
  <2>2. q.activeTabId \in Tabs \cup {None}
    BY <1>1 DEF LayoutGroup
  <2> DEFINE a == q.activeTabId
  <2> HIDE DEF q, a
  <2>3. GoodGroup(Layout!Group(tabs, a)) /\ Layout!Group(tabs, a).tabs = tabs
    BY <1>4, <2>1, <2>2, GoodWith, GroupIs DEF a
  <2> QED BY <2>3 DEF a
<1>6. LayoutGood(n) /\ Stays(s, n)
  <2>1. Layout!ToSet(r.tabs) = Layout!ToSet(s.groups[g].tabs)
    BY <1>4, <1>5
  <2> HIDE DEF r, q
  <2> QED BY <1>5, <2>1, PaneAgain
<1>7. [s.groups EXCEPT ![g].tabs = tabs] = Layout!With(s.groups, g, r)
  <2> DEFINE gr == s.groups
  <2>1. gr \in [DOMAIN gr -> LayoutGroup]
    BY <1>1, GroupsAre
  <2>2. [gr[g] EXCEPT !.tabs = tabs] = r
    BY <1>1 DEF LayoutGroup, Layout!Group
  <2> HIDE DEF gr, r
  <2>3. DOMAIN gr \cup {g} = DOMAIN gr
    BY DEF gr
  <2>4. [gr EXCEPT ![g].tabs = tabs] = [h \in DOMAIN gr |-> IF h = g THEN r ELSE gr[h]]
    BY <2>1, <2>2
  <2> QED BY <2>3, <2>4 DEF gr, Layout!With
<1>8. Layout!REORDER_TAB(s, g, from, to) \in {s, n}
  <2>1. [s EXCEPT !.groups[g].tabs = tabs] = [s EXCEPT !.groups = [s.groups EXCEPT ![g].tabs = tabs]]
    BY SettledIs DEF LayoutStates
  <2>2. Layout!REORDER_TAB(s, g, from, to) \in {s, [s EXCEPT !.groups[g].tabs = tabs]}
    BY DEF Layout!REORDER_TAB, tabs, rest
  <2> HIDE DEF r
  <2> QED BY <1>7, <2>1, <2>2 DEF Layout!SetGroup
<1> HIDE DEF n
<1> QED BY <1>6, <1>8 DEF Settled, Stays

LEMMA MoveTabGood ==
  ASSUME NEW s, Settled(s), NEW src \in DOMAIN s.groups, NEW dst \in DOMAIN s.groups,
         NEW t \in Layout!ToSet(s.groups[src].tabs), NEW i \in Nat, 1 <= i
  PROVE  LayoutGood(Layout!MOVE_TAB(s, src, dst, t, i)) /\ Stays(s, Layout!MOVE_TAB(s, src, dst, t, i))
<1> DEFINE left == Layout!Without(s.groups[src], t)
           into == IF src = dst THEN left.tabs ELSE s.groups[dst].tabs
           k == IF i <= Len(into) THEN i ELSE Len(into) + 1
           r == Layout!Group(Layout!InsertAt(into, k, t), t)
<1>1. /\ Keeps(s.groups, s.tabToGroupMap) /\ GoodGroup(s.groups[src]) /\ t \in Tabs
      /\ s.groups[dst].tabs \in Seq(Tabs) /\ Layout!IsInjective(s.groups[dst].tabs) /\ dst \in Nat
  BY SettledIs, PaneIs
<1>2. /\ GoodGroup(left) /\ Layout!ToSet(left.tabs) = Layout!ToSet(s.groups[src].tabs) \ {t}
      /\ left.tabs \in Seq(Tabs) /\ Layout!IsInjective(left.tabs)
  <2>1. GoodGroup(left) /\ Layout!ToSet(left.tabs) = Layout!ToSet(s.groups[src].tabs) \ {t}
    BY <1>1, GoodWithout
  <2> HIDE DEF left
  <2>2. left \in LayoutGroup /\ Layout!IsInjective(left.tabs)
    BY <2>1 DEF GoodGroup
  <2> QED BY <2>1, <2>2, TabsOfGroup
<1> HIDE DEF left
<1>3. src # dst => t \notin Layout!ToSet(s.groups[dst].tabs)
  BY <1>1 DEF Keeps
<1>4. into \in Seq(Tabs) /\ Layout!IsInjective(into) /\ t \notin Layout!ToSet(into)
  BY <1>1, <1>2, <1>3
<1>5. GoodGroup(r) /\ Layout!ToSet(r.tabs) = Layout!ToSet(into) \cup {t}
  <2>1. Len(into) \in Nat
    BY <1>4
  <2> HIDE DEF into
  <2>2. k \in 1 .. (Len(into) + 1)
    BY <2>1
  <2> HIDE DEF k
  <2> QED BY <1>1, <1>4, <2>2, GoodPut
<1>6. CASE src = dst
  <2> DEFINE n == Layout!SetGroup(s, src, r)
  <2>1. Layout!MOVE_TAB(s, src, dst, t, i) \in {s, n}
    BY <1>6 DEF Layout!MOVE_TAB, left
  <2>2. Layout!ToSet(r.tabs) = Layout!ToSet(s.groups[src].tabs)
    BY <1>2, <1>5, <1>6
  <2> HIDE DEF r
  <2>3. LayoutGood(n) /\ Stays(s, n)
    BY <1>5, <2>2, PaneAgain
  <2> HIDE DEF n
  <2> QED BY <2>1, <2>3 DEF Settled, Stays
<1>7. CASE src # dst
  <2> DEFINE gr == Layout!With(Layout!With(s.groups, src, left), dst, r)
             map == Layout!With(s.tabToGroupMap, t, dst)
             n == Regroup(s, gr, map)
  <2>1. Layout!MOVE_TAB(s, src, dst, t, i) \in {s, Layout!DropIfEmpty(n, src)}
    <3>1. [Layout!SetGroup(Layout!SetGroup(s, src, left), dst, r) EXCEPT !.tabToGroupMap = Layout!With(@, t, dst)] = n
      <4> HIDE DEF r
      <4> QED BY SettledIs DEF Layout!SetGroup, LayoutStates, Regroup
    <3> HIDE DEF n, gr, map
    <3> QED BY <1>7, <3>1 DEF Layout!MOVE_TAB, left
  <2>2. Layout!ToSet(r.tabs) = {t} \cup (IF dst \in DOMAIN s.groups THEN Layout!ToSet(s.groups[dst].tabs) ELSE {})
    BY <1>5, <1>7
  <2> HIDE DEF r
  <2>3. Keeps(gr, map)
    BY <1>1, <1>5, <1>7, <2>2, KeepsMoved DEF left
  <2>4. DOMAIN gr = DOMAIN s.groups
    BY DEF Layout!With
  <2>9. DOMAIN map = DOMAIN s.tabToGroupMap
    BY TabIsIndexed, WithAgain
  <2> HIDE DEF gr, map, n
  <2>5. n = Regroup(s, gr, map)
    BY DEF n
  <2>6. LayoutGood(n) /\ n.groups = gr /\ n.pages = s.pages /\ n.gridLayout = s.gridLayout /\ n.activePageId = s.activePageId
        /\ n.tabToGroupMap = map
    BY <2>3, <2>4, <2>5, Regrouped
  <2>7. \A a \in 1 .. Len(n.pages) : n.pages[a].id = n.activePageId => n.pages[a].activeGroupId \in Layout!ToSet(n.gridLayout)
    BY <2>6, SettledIs
  <2>8. LayoutGood(Layout!DropIfEmpty(n, src)) /\ Stays(n, Layout!DropIfEmpty(n, src))
    BY <2>4, <2>6, <2>7, Emptied
  <2> QED BY <2>1, <2>6, <2>8, <2>9 DEF Settled, Stays
<1> QED BY <1>6, <1>7

(***************************************************************************)
(* Pages and panes: every dispatch                                         *)
(***************************************************************************)
LayoutSound == Settled(v1)

LEMMA LayoutInit == Layout!Init => LayoutSound
<1> SUFFICES ASSUME Layout!Init PROVE LayoutSound
  OBVIOUS
<1> DEFINE p == Layout!Page(1, <<1>>, 1)
           r == Layout!Group(<<>>, None)
           one == <<1>>
           P == <<p>>
           gr == [g \in {1} |-> r]
<1>1. v1 = [groups |-> gr, activeGroupId |-> 1, gridLayout |-> one, nextGroupId |-> 2, tabToGroupMap |-> <<>>,
            pages |-> P, activePageId |-> 1, nextPageId |-> 2]
  BY DEF Layout!Init, Layout!DefaultState
<1>2. one \in Seq(Nat) /\ Layout!IsInjective(one) /\ Layout!ToSet(one) = {1}
  BY OnePane
<1>3. p \in LayoutPage /\ p.id = 1 /\ p.gridLayout = one /\ p.activeGroupId = 1
  <2>1. p = Layout!Page(1, one, 1)
    OBVIOUS
  <2> HIDE DEF one, p
  <2> QED BY <1>2, <2>1, PageIs
<1>4. GoodGroup(r) /\ Layout!ToSet(r.tabs) = {}
  BY GoodEmpty
<1> HIDE DEF p, r, one
<1>5. P \in Seq(LayoutPage) /\ Len(P) = 1 /\ P[1] = p
  BY <1>3
<1>6. Layout!IsInjective(P) /\ Layout!ToSet(P) = {p}
  BY DEF Layout!IsInjective, Layout!ToSet
<1>7. gr \in LayoutGroups /\ DOMAIN gr = {1} /\ gr[1] = r
  <2>1. gr \in [{1} -> LayoutGroup]
    BY <1>4 DEF GoodGroup
  <2> QED BY <2>1, GroupsAre
<1>8. <<>> \in LayoutMaps /\ DOMAIN <<>> = {}
  <2>1. <<>> \in [{} -> Nat] /\ DOMAIN <<>> = {}
    OBVIOUS
  <2> QED BY <2>1, GroupsAre
<1> HIDE DEF P, gr
<1>9. Placed({1}, P)
  <2>1. Shows({1}, {p})
    BY <1>2, <1>3 DEF Shows
  <2> QED BY <1>5, <1>6, <2>1 DEF Placed
<1> DEFINE map == <<>>
<1>10. Keeps(gr, map)
  <2>1. map \in LayoutMaps /\ DOMAIN map = {}
    BY <1>8
  <2> HIDE DEF map
  <2> QED BY <1>4, <1>7, <2>1 DEF Keeps
<1>11. v1.tabToGroupMap = map /\ map \in LayoutMaps
  BY <1>1, <1>8
<1> HIDE DEF map
<1>12. /\ v1 \in LayoutStates /\ v1.groups = gr /\ v1.activeGroupId = 1 /\ v1.gridLayout = one /\ v1.nextGroupId = 2
       /\ v1.pages = P /\ v1.activePageId = 1 /\ v1.nextPageId = 2
  BY <1>1, <1>2, <1>5, <1>7, <1>11 DEF LayoutStates, map
<1>16. 1 \in 1 .. Len(v1.pages) /\ \A a \in 1 .. Len(v1.pages) : v1.pages[a] = p
  <2>1. 1 \in 1 .. Len(P) /\ \A a \in 1 .. Len(P) : a = 1
    BY <1>5
  <2>2. \A a \in 1 .. Len(P) : P[a] = p
    BY <1>5, <2>1
  <2> QED BY <1>12, <2>1, <2>2
<1>13. View(v1) = P
  <2>1. \A a \in 1 .. Len(v1.pages) : v1.pages[a].gridLayout = v1.gridLayout /\ v1.pages[a].activeGroupId = v1.activeGroupId
    BY <1>3, <1>12, <1>16
  <2> QED BY <1>12, <2>1, ViewAgain
<1>14. Arranged(v1)
  <2>1. 1 \in 1 .. Len(v1.pages) /\ v1.pages[1].id = v1.activePageId
    BY <1>3, <1>12, <1>16
  <2> QED BY <1>7, <1>9, <1>12, <1>13, <2>1 DEF Arranged
<1>15. Counted(v1)
  <2>1. \A g \in DOMAIN v1.groups : g < v1.nextGroupId /\ 0 < g
    BY <1>7, <1>12
  <2>2. \A a \in 1 .. Len(v1.pages) : v1.pages[a].id < v1.nextPageId /\ 0 < v1.pages[a].id
    BY <1>3, <1>12, <1>16
  <2> QED BY <2>1, <2>2 DEF Counted
<1> QED BY <1>10, <1>11, <1>12, <1>13, <1>14, <1>15 DEF LayoutSound, Settled, LayoutGood

LEMMA LayoutStep == LayoutSound /\ [Layout!Next]_v1 => LayoutSound'
<1> SUFFICES ASSUME LayoutSound, [Layout!Next]_v1 PROVE LayoutSound'
  OBVIOUS
<1>1. Settled(v1)
  BY DEF LayoutSound
<1>2. ASSUME NEW n, LayoutGood(n), Layout!Dispatch(n) PROVE LayoutSound'
  <2>1. v1' = Layout!Remember(n)
    BY <1>2 DEF Layout!Dispatch
  <2>2. Settled(Layout!Remember(n))
    BY <1>2, Remembered
  <2> QED BY <2>1, <2>2 DEF LayoutSound
<1>3. CASE Layout!SplitGroup
  <2>1. PICK g \in DOMAIN v1.groups, dir \in Layout!Directions : Layout!Dispatch(Layout!SPLIT_GROUP(v1, g, dir))
    BY <1>3 DEF Layout!SplitGroup, Layout!GroupIds
  <2> QED BY <1>1, <1>2, <2>1, SplitGood
<1>4. CASE Layout!RemoveGroup
  <2>1. PICK g \in DOMAIN v1.groups : Layout!Dispatch(Layout!REMOVE_GROUP(v1, g))
    BY <1>4 DEF Layout!RemoveGroup, Layout!GroupIds
  <2> QED BY <1>1, <1>2, <2>1, RemoveGroupGood
<1>5. CASE Layout!ActivateGroup
  <2>1. PICK g \in DOMAIN v1.groups : Layout!Dispatch(Layout!ACTIVATE_GROUP(v1, g))
    BY <1>5 DEF Layout!ActivateGroup, Layout!GroupIds
  <2> QED BY <1>1, <1>2, <2>1, ActivateGroupGood
<1>6. \A id \in Layout!PageIds(v1) : \E i \in 1 .. Len(v1.pages) : id = v1.pages[i].id
  <2>1. Layout!ToSet(v1.pages) = {v1.pages[i] : i \in 1 .. Len(v1.pages)}
    BY <1>1, SettledIs, Members
  <2> QED BY <2>1 DEF Layout!PageIds
<1>7. CASE Layout!ActivatePage
  <2>1. PICK id \in Layout!PageIds(v1) : Layout!Dispatch(Layout!ACTIVATE_PAGE(v1, id))
    BY <1>7 DEF Layout!ActivatePage
  <2>2. PICK i \in 1 .. Len(v1.pages) : id = v1.pages[i].id
    BY <1>6
  <2>3. LayoutGood(Layout!ACTIVATE_PAGE(v1, id))
    BY <1>1, <2>2, ActivatePageGood
  <2> QED BY <1>2, <2>1, <2>3
<1>8. CASE Layout!ReorderPage
  <2>1. PICK id \in Layout!PageIds(v1), target \in Layout!PageIds(v1), placement \in {"before", "after"} :
          Layout!Dispatch(Layout!REORDER_PAGE(v1, id, target, placement))
    BY <1>8 DEF Layout!ReorderPage
  <2>2. PICK i \in 1 .. Len(v1.pages) : id = v1.pages[i].id
    BY <1>6
  <2>3. PICK j \in 1 .. Len(v1.pages) : target = v1.pages[j].id
    BY <1>6
  <2>4. LayoutGood(Layout!REORDER_PAGE(v1, id, target, placement))
    BY <1>1, <2>2, <2>3, ReorderPageGood
  <2> QED BY <1>2, <2>1, <2>4
<1>9. CASE Layout!AddTab
  <2>1. PICK t \in Tabs \ Layout!OpenTabs(v1) : Layout!Dispatch(Layout!ADD_TAB(v1, t))
    BY <1>9 DEF Layout!AddTab
  <2> QED BY <1>1, <1>2, <2>1, AddTabGood
<1>10. CASE Layout!RemoveTab
  <2>1. PICK g \in DOMAIN v1.groups : \E t \in Layout!ToSet(v1.groups[g].tabs) : Layout!Dispatch(Layout!REMOVE_TAB(v1, g, t))
    BY <1>10 DEF Layout!RemoveTab, Layout!GroupIds, Layout!TabsOf
  <2>2. PICK t \in Layout!ToSet(v1.groups[g].tabs) : Layout!Dispatch(Layout!REMOVE_TAB(v1, g, t))
    BY <2>1
  <2> QED BY <1>1, <1>2, <2>2, RemoveTabGood
<1>11. CASE Layout!ActivateTab
  <2>1. PICK g \in DOMAIN v1.groups : \E t \in Layout!ToSet(v1.groups[g].tabs) : Layout!Dispatch(Layout!ACTIVATE_TAB(v1, g, t))
    BY <1>11 DEF Layout!ActivateTab, Layout!GroupIds, Layout!TabsOf
  <2>2. PICK t \in Layout!ToSet(v1.groups[g].tabs) : Layout!Dispatch(Layout!ACTIVATE_TAB(v1, g, t))
    BY <2>1
  <2> QED BY <1>1, <1>2, <2>2, ActivateTabGood
<1>12. CASE Layout!MoveTab
  <2>1. PICK src \in DOMAIN v1.groups, dst \in DOMAIN v1.groups :
          \E t \in Layout!ToSet(v1.groups[src].tabs), i \in 1 .. (Len(v1.groups[dst].tabs) + 1) :
            Layout!Dispatch(Layout!MOVE_TAB(v1, src, dst, t, i))
    BY <1>12 DEF Layout!MoveTab, Layout!GroupIds, Layout!TabsOf
  <2>2. PICK t \in Layout!ToSet(v1.groups[src].tabs), i \in 1 .. (Len(v1.groups[dst].tabs) + 1) :
          Layout!Dispatch(Layout!MOVE_TAB(v1, src, dst, t, i))
    BY <2>1
  <2>3. i \in Nat /\ 1 <= i
    OBVIOUS
  <2>4. LayoutGood(Layout!MOVE_TAB(v1, src, dst, t, i))
    BY <1>1, <2>3, MoveTabGood
  <2> QED BY <1>2, <2>2, <2>4
<1>13. CASE Layout!ReorderTab
  <2>1. PICK g \in DOMAIN v1.groups : \E from, to \in DOMAIN v1.groups[g].tabs :
          Layout!Dispatch(Layout!REORDER_TAB(v1, g, from, to))
    BY <1>13 DEF Layout!ReorderTab, Layout!GroupIds
  <2>2. PICK from \in DOMAIN v1.groups[g].tabs, to \in DOMAIN v1.groups[g].tabs :
          Layout!Dispatch(Layout!REORDER_TAB(v1, g, from, to))
    BY <2>1
  <2> QED BY <1>1, <1>2, <2>2, ReorderTabGood
<1>14. CASE Layout!CloseSome
  <2>1. PICK g \in DOMAIN v1.groups : \E t \in Layout!ToSet(v1.groups[g].tabs) :
          \/ Layout!Dispatch(Layout!CLOSE_OTHER_TABS(v1, g, t))
          \/ Layout!Dispatch(Layout!CLOSE_TABS_TO_RIGHT(v1, g, t))
          \/ Layout!Dispatch(Layout!CLOSE_TABS_TO_LEFT(v1, g, t))
    BY <1>14 DEF Layout!CloseSome, Layout!GroupIds, Layout!TabsOf
  <2>2. PICK t \in Layout!ToSet(v1.groups[g].tabs) :
          \/ Layout!Dispatch(Layout!CLOSE_OTHER_TABS(v1, g, t))
          \/ Layout!Dispatch(Layout!CLOSE_TABS_TO_RIGHT(v1, g, t))
          \/ Layout!Dispatch(Layout!CLOSE_TABS_TO_LEFT(v1, g, t))
    BY <2>1
  <2> QED BY <1>1, <1>2, <2>2, CloseGood
<1>15. CASE Layout!MoveTabToNewGroup
  <2>1. PICK g \in DOMAIN v1.groups, at \in DOMAIN v1.groups, dir \in Layout!Directions : \E t \in Layout!ToSet(v1.groups[g].tabs) :
          Layout!Dispatch(Layout!MOVE_TAB_TO_NEW_GROUP(v1, g, t, dir, at))
    BY <1>15 DEF Layout!MoveTabToNewGroup, Layout!GroupIds, Layout!TabsOf
  <2>2. PICK t \in Layout!ToSet(v1.groups[g].tabs) :
          Layout!Dispatch(Layout!MOVE_TAB_TO_NEW_GROUP(v1, g, t, dir, at))
    BY <2>1
  <2> QED BY <1>1, <1>2, <2>2, MoveTabToNewGroupGood
<1>16. CASE v1' = v1
  BY <1>1, <1>16 DEF LayoutSound
<1> QED BY <1>3, <1>4, <1>5, <1>7, <1>8, <1>9, <1>10, <1>11, <1>12, <1>13, <1>14, <1>15, <1>16 DEF Layout!Next, Layout!Arrange

(* What the strengthening says of the panes and pages *)
LEMMA LayoutHolds == LayoutSound => Layout!Inv
<1> SUFFICES ASSUME LayoutSound PROVE Layout!Inv
  OBVIOUS
<1> DEFINE P == v1.pages
           G == DOMAIN v1.groups
<1>1. /\ v1 \in LayoutStates /\ Arranged(v1) /\ Counted(v1) /\ Keeps(v1.groups, v1.tabToGroupMap)
      /\ G \subseteq Nat /\ v1.activeGroupId \in Nat /\ v1.activePageId \in Nat /\ v1.gridLayout \in Seq(Nat)
      /\ v1.nextGroupId \in Nat /\ v1.nextPageId \in Nat
      /\ P \in Seq(LayoutPage) /\ Len(P) \in Nat /\ Placed(G, P)
      /\ v1.activeGroupId \in Layout!ToSet(v1.gridLayout)
      /\ \A i \in 1 .. Len(P) :
           /\ P[i] \in LayoutPage /\ Layout!IsInjective(P[i].gridLayout)
           /\ Layout!ToSet(P[i].gridLayout) \subseteq G
           /\ P[i].activeGroupId \in Layout!ToSet(P[i].gridLayout)
           /\ P[i].id = v1.activePageId => P[i].gridLayout = v1.gridLayout /\ P[i].activeGroupId = v1.activeGroupId
      /\ \E l \in 1 .. Len(P) : P[l].id = v1.activePageId
  BY SettledIs DEF LayoutSound
<1>2. Layout!ToSet(P) = {P[i] : i \in 1 .. Len(P)} /\ DOMAIN P = 1 .. Len(P)
  BY <1>1, Members
<1>3. \A i \in 1 .. Len(P) : P[i].gridLayout \in Seq(Nat) /\ P[i].id \in Nat
  BY <1>1 DEF LayoutPage
<1>4. \A i \in 1 .. Len(P) : \A g : Layout!Contains(P[i].gridLayout, g) <=> g \in Layout!ToSet(P[i].gridLayout)
  BY <1>3, Members
<1>5. \A g \in G : GoodGroup(v1.groups[g]) /\ v1.groups[g].tabs \in Seq(Tabs) /\ Layout!ToSet(v1.groups[g].tabs) \subseteq Tabs
  BY PaneIs DEF LayoutSound
<1>6. Layout!TypeOK
  <2>1. G \subseteq 1 .. (v1.nextGroupId - 1)
    BY <1>1 DEF Counted
  <2>2. Layout!PageIds(v1) \subseteq 1 .. (v1.nextPageId - 1)
    <3> SUFFICES ASSUME NEW i \in 1 .. Len(P) PROVE P[i].id \in 1 .. (v1.nextPageId - 1)
      BY <1>2 DEF Layout!PageIds
    <3>1. P[i].id < v1.nextPageId /\ 0 < P[i].id /\ P[i].id \in Nat
      BY <1>1, <1>3 DEF Counted
    <3> QED BY <1>1, <3>1
  <2>3. DOMAIN v1.tabToGroupMap \subseteq Tabs
    BY <1>1, GroupsAre DEF Keeps
  <2> QED BY <1>5, <2>1, <2>2, <2>3 DEF Layout!TypeOK, Layout!GroupIds
<1>7. Layout!PanesPlacedOnce
  <2>1. ASSUME NEW g \in G
        PROVE  \E i \in DOMAIN P : \A j \in DOMAIN P : Layout!Contains(P[j].gridLayout, g) <=> j = i
    <3>1. PICK i \in 1 .. Len(P) : g \in Layout!ToSet(P[i].gridLayout)
      BY <1>1, <1>2 DEF Placed, Shows
    <3>2. \A j \in 1 .. Len(P) : j # i => P[j] # P[i]
      BY <1>1, <1>2 DEF Placed, Layout!IsInjective
    <3>3. \A j \in 1 .. Len(P) : j # i => g \notin Layout!ToSet(P[j].gridLayout)
      <4> SUFFICES ASSUME NEW j \in 1 .. Len(P), j # i PROVE g \notin Layout!ToSet(P[j].gridLayout)
        OBVIOUS
      <4>1. P[i] \in Layout!ToSet(P) /\ P[j] \in Layout!ToSet(P) /\ P[i] # P[j]
        BY <1>2, <3>2
      <4>2. \A p, q \in Layout!ToSet(P) : p # q => \A h \in Layout!ToSet(p.gridLayout) : h \notin Layout!ToSet(q.gridLayout)
        BY <1>1 DEF Placed, Shows
      <4> QED BY <3>1, <4>1, <4>2
    <3> QED BY <1>2, <1>4, <3>1, <3>3
  <2>2. \A p \in Layout!ToSet(P) : Layout!NoRepeats(p.gridLayout) /\ Layout!ToSet(p.gridLayout) \subseteq G
    BY <1>1, <1>2 DEF Layout!NoRepeats
  <2> QED BY <2>1, <2>2 DEF Layout!PanesPlacedOnce, Layout!GroupIds
<1>8. Layout!SessionsIndexed
  <2>1. DOMAIN v1.tabToGroupMap = Layout!OpenTabs(v1)
    BY <1>1 DEF Keeps, Layout!OpenTabs
  <2> QED BY <1>1, <2>1 DEF Keeps, GoodGroup, Layout!SessionsIndexed, Layout!GroupIds, Layout!NoRepeats
<1>9. Layout!FocusIsShown
  <2>1. v1.activePageId \in Layout!PageIds(v1)
    BY <1>1, <1>2 DEF Layout!PageIds
  <2>2. Layout!Contains(v1.gridLayout, v1.activeGroupId)
    BY <1>1, Members
  <2>3. \A p \in Layout!ToSet(P) : Layout!Focused(p)
    BY <1>1, <1>2, <1>4 DEF Layout!Focused
  <2> QED BY <2>1, <2>2, <2>3 DEF Layout!FocusIsShown
<1>10. Layout!ShownTabIsOwn
  <2> SUFFICES ASSUME NEW g \in G
               PROVE  LET r == v1.groups[g] IN
                      IF r.tabs = <<>> THEN r.activeTabId = None ELSE Layout!Contains(r.tabs, r.activeTabId)
    BY DEF Layout!ShownTabIsOwn, Layout!GroupIds
  <2> QED BY <1>5, Members DEF GoodGroup
<1>11. Layout!LiveGridRemembered
  <2>1. PICK l \in 1 .. Len(P) : P[l].id = v1.activePageId
    BY <1>1
  <2>2. Layout!PageAt(v1, v1.activePageId) = l
    BY <1>1, <2>1, PageAtIs
  <2> QED BY <1>1, <2>1, <2>2 DEF Layout!LiveGridRemembered
<1> QED BY <1>6, <1>7, <1>8, <1>9, <1>10, <1>11 DEF Layout!Inv

(***************************************************************************)
(* Pages and panes: which sessions stay                                    *)
(***************************************************************************)
LEMMA OpenIs == ASSUME NEW s, Settled(s) PROVE Layout!OpenTabs(s) = DOMAIN s.tabToGroupMap
BY SettledIs DEF Keeps, Layout!OpenTabs

(* Splitting, showing, dragging and reordering *)
LEMMA ArrangeStays == LayoutSound /\ Layout!Arrange => Stays(v1, v1')
<1> SUFFICES ASSUME LayoutSound, Layout!Arrange PROVE Stays(v1, v1')
  OBVIOUS
<1>1. Settled(v1)
  BY DEF LayoutSound
<1>2. ASSUME NEW n, LayoutGood(n), Stays(v1, n), Layout!Dispatch(n) PROVE Stays(v1, v1')
  <2>1. v1' = Layout!Remember(n) /\ n \in LayoutStates
    BY <1>2 DEF Layout!Dispatch, LayoutGood
  <2>2. Layout!Remember(n).tabToGroupMap = n.tabToGroupMap
    BY <2>1, RememberIs
  <2> QED BY <1>2, <2>1, <2>2 DEF Stays
<1>3. CASE Layout!SplitGroup
  <2>1. PICK g \in DOMAIN v1.groups, dir \in Layout!Directions : Layout!Dispatch(Layout!SPLIT_GROUP(v1, g, dir))
    BY <1>3 DEF Layout!SplitGroup, Layout!GroupIds
  <2> QED BY <1>1, <1>2, <2>1, SplitGood
<1>4. CASE Layout!ActivateGroup
  <2>1. PICK g \in DOMAIN v1.groups : Layout!Dispatch(Layout!ACTIVATE_GROUP(v1, g))
    BY <1>4 DEF Layout!ActivateGroup, Layout!GroupIds
  <2> QED BY <1>1, <1>2, <2>1, ActivateGroupGood
<1>5. \A id \in Layout!PageIds(v1) : \E i \in 1 .. Len(v1.pages) : id = v1.pages[i].id
  <2>1. Layout!ToSet(v1.pages) = {v1.pages[i] : i \in 1 .. Len(v1.pages)}
    BY <1>1, SettledIs, Members
  <2> QED BY <2>1 DEF Layout!PageIds
<1>6. CASE Layout!ActivatePage
  <2>1. PICK id \in Layout!PageIds(v1) : Layout!Dispatch(Layout!ACTIVATE_PAGE(v1, id))
    BY <1>6 DEF Layout!ActivatePage
  <2>2. PICK i \in 1 .. Len(v1.pages) : id = v1.pages[i].id
    BY <1>5
  <2>3. LayoutGood(Layout!ACTIVATE_PAGE(v1, id)) /\ Stays(v1, Layout!ACTIVATE_PAGE(v1, id))
    BY <1>1, <2>2, ActivatePageGood
  <2> QED BY <1>2, <2>1, <2>3
<1>7. CASE Layout!ReorderPage
  <2>1. PICK id \in Layout!PageIds(v1), target \in Layout!PageIds(v1), placement \in {"before", "after"} :
          Layout!Dispatch(Layout!REORDER_PAGE(v1, id, target, placement))
    BY <1>7 DEF Layout!ReorderPage
  <2>2. PICK i \in 1 .. Len(v1.pages) : id = v1.pages[i].id
    BY <1>5
  <2>3. PICK j \in 1 .. Len(v1.pages) : target = v1.pages[j].id
    BY <1>5
  <2> DEFINE n == Layout!REORDER_PAGE(v1, id, target, placement)
  <2>4. LayoutGood(n) /\ Stays(v1, n)
    BY <1>1, <2>2, <2>3, ReorderPageGood
  <2> QED BY <1>2, <2>1, <2>4
<1>8. CASE Layout!ActivateTab
  <2>1. PICK g \in DOMAIN v1.groups : \E t \in Layout!ToSet(v1.groups[g].tabs) : Layout!Dispatch(Layout!ACTIVATE_TAB(v1, g, t))
    BY <1>8 DEF Layout!ActivateTab, Layout!GroupIds, Layout!TabsOf
  <2>2. PICK t \in Layout!ToSet(v1.groups[g].tabs) : Layout!Dispatch(Layout!ACTIVATE_TAB(v1, g, t))
    BY <2>1
  <2> QED BY <1>1, <1>2, <2>2, ActivateTabGood
<1>9. CASE Layout!MoveTab
  <2>1. PICK src \in DOMAIN v1.groups, dst \in DOMAIN v1.groups :
          \E t \in Layout!ToSet(v1.groups[src].tabs), i \in 1 .. (Len(v1.groups[dst].tabs) + 1) :
            Layout!Dispatch(Layout!MOVE_TAB(v1, src, dst, t, i))
    BY <1>9 DEF Layout!MoveTab, Layout!GroupIds, Layout!TabsOf
  <2>2. PICK t \in Layout!ToSet(v1.groups[src].tabs), i \in 1 .. (Len(v1.groups[dst].tabs) + 1) :
          Layout!Dispatch(Layout!MOVE_TAB(v1, src, dst, t, i))
    BY <2>1
  <2>3. i \in Nat /\ 1 <= i
    OBVIOUS
  <2> DEFINE n == Layout!MOVE_TAB(v1, src, dst, t, i)
  <2>4. LayoutGood(n) /\ Stays(v1, n)
    BY <1>1, <2>3, MoveTabGood
  <2> QED BY <1>2, <2>2, <2>4
<1>10. CASE Layout!ReorderTab
  <2>1. PICK g \in DOMAIN v1.groups : \E from, to \in DOMAIN v1.groups[g].tabs :
          Layout!Dispatch(Layout!REORDER_TAB(v1, g, from, to))
    BY <1>10 DEF Layout!ReorderTab, Layout!GroupIds
  <2>2. PICK from \in DOMAIN v1.groups[g].tabs, to \in DOMAIN v1.groups[g].tabs :
          Layout!Dispatch(Layout!REORDER_TAB(v1, g, from, to))
    BY <2>1
  <2> QED BY <1>1, <1>2, <2>2, ReorderTabGood
<1>11. CASE Layout!MoveTabToNewGroup
  <2>1. PICK g \in DOMAIN v1.groups, at \in DOMAIN v1.groups, dir \in Layout!Directions : \E t \in Layout!ToSet(v1.groups[g].tabs) :
          Layout!Dispatch(Layout!MOVE_TAB_TO_NEW_GROUP(v1, g, t, dir, at))
    BY <1>11 DEF Layout!MoveTabToNewGroup, Layout!GroupIds, Layout!TabsOf
  <2>2. PICK t \in Layout!ToSet(v1.groups[g].tabs) :
          Layout!Dispatch(Layout!MOVE_TAB_TO_NEW_GROUP(v1, g, t, dir, at))
    BY <2>1
  <2> DEFINE n == Layout!MOVE_TAB_TO_NEW_GROUP(v1, g, t, dir, at)
  <2>3. LayoutGood(n) /\ Stays(v1, n)
    BY <1>1, MoveTabToNewGroupGood
  <2> QED BY <1>2, <2>2, <2>3
<1> QED BY <1>3, <1>4, <1>6, <1>7, <1>8, <1>9, <1>10, <1>11 DEF Layout!Arrange

(* A close of one session, and everything that is none *)
LEMMA LayoutStays == LayoutSound /\ Layout!Next => Layout!ClosesOne /\ Layout!ArrangingKeepsSessions
<1> SUFFICES ASSUME LayoutSound, Layout!Next PROVE Layout!ClosesOne /\ Layout!ArrangingKeepsSessions
  OBVIOUS
<1>1. Settled(v1) /\ Settled(v1')
  BY LayoutStep DEF LayoutSound
<1>2. Layout!OpenTabs(v1) = DOMAIN v1.tabToGroupMap /\ Layout!OpenTabs(v1') = DOMAIN v1'.tabToGroupMap
  BY <1>1, OpenIs
<1>3. Layout!ArrangingKeepsSessions
  BY <1>2, ArrangeStays DEF Stays, Layout!ArrangingKeepsSessions
<1>4. Layout!ClosesOne
  <2> SUFFICES ASSUME Layout!OpenTabs(v1') # Layout!OpenTabs(v1), Layout!RemoveTab
               PROVE  \E t \in Tabs : /\ Layout!OpenTabs(v1) \ {t} = Layout!OpenTabs(v1')
                                      /\ FocusStays(v1, v1')
    BY DEF Layout!ClosesOne, Layout!GroupIds, FocusStays
  <2>1. PICK g \in DOMAIN v1.groups : \E t \in Layout!ToSet(v1.groups[g].tabs) : Layout!Dispatch(Layout!REMOVE_TAB(v1, g, t))
    BY DEF Layout!RemoveTab, Layout!GroupIds, Layout!TabsOf
  <2>2. PICK t \in Layout!ToSet(v1.groups[g].tabs) : Layout!Dispatch(Layout!REMOVE_TAB(v1, g, t))
    BY <2>1
  <2> DEFINE n == Layout!REMOVE_TAB(v1, g, t)
  <2>3. /\ LayoutGood(n) /\ t \in Tabs
        /\ Stays(v1, n) \/ (DOMAIN n.tabToGroupMap = DOMAIN v1.tabToGroupMap \ {t} /\ FocusStays(v1, n))
    BY <1>1, RemoveTabGood
  <2>4. v1' = Layout!Remember(n)
    BY <2>2 DEF Layout!Dispatch
  <2> HIDE DEF n
  <2>5. v1'.tabToGroupMap = n.tabToGroupMap /\ v1'.groups = n.groups /\ v1'.activeGroupId = n.activeGroupId
    BY <2>3, <2>4, RememberIs DEF LayoutGood
  <2>6. ~Stays(v1, n)
    BY <1>2, <2>5 DEF Stays
  <2>7. FocusStays(v1, v1')
    BY <2>3, <2>5, <2>6 DEF FocusStays
  <2> QED BY <1>2, <2>3, <2>5, <2>6, <2>7
<1> QED BY <1>3, <1>4

(***************************************************************************)
(* Drags of tabs and rows                                                  *)
(***************************************************************************)
(* A press exists while the button is down, on the component it was made on, and has  *)
(* found the body as it should be left.                                                *)
DragPress ==
  /\ v1 \in [item : Pages \cup ListRows \cup {None}, dragging : BOOLEAN, saved : {""}]
  /\ v2 \in BOOLEAN /\ v4 \in BOOLEAN /\ v8 \in [{"bar", "list"} -> BOOLEAN]
  /\ {v3, v9} \subseteq {"bar", "list", None}
  /\ v1.item = None => v1 = Drag!NoPress
  /\ v1 # Drag!NoPress => v2 /\ v3 = Drag!Owner(v1.item) /\ (v4 <=> v1.dragging)
  /\ v3 # None => v2
  /\ v2 => v9 = None
(* The click that may follow is suppressed exactly if its press dragged; a row's drag  *)
(* suppresses when it ends, a page's when it begins.                                   *)
DragClicks ==
  /\ v3 # None => (v8[v3] <=> v4 /\ ~(v1.dragging /\ v3 = "list"))
  /\ v9 # None => (v8[v9] <=> v4)
DragSound == Drag!Inv /\ DragPress /\ DragClicks

LEMMA DragNone == None \notin Pages \cup ListRows /\ None \notin {"bar", "list"} /\ Pages \cap ListRows = {}
BY WorkspaceConstants

LEMMA DragInit == Drag!Init => DragSound
<1> SUFFICES ASSUME Drag!Init PROVE DragSound
  OBVIOUS
<1>1. v1 = Drag!NoPress /\ v3 = None /\ v5 = "" /\ v6 = None /\ v7 = None /\ v9 = None /\ ~v2 /\ ~v4
  BY DEF Drag!Init
<1>2. v8 \in [{"bar", "list"} -> BOOLEAN] /\ v2 \in BOOLEAN /\ v4 \in BOOLEAN
  BY DEF Drag!Init, Drag!Bar, Drag!List
<1>3. v1 \in [item : Pages \cup ListRows \cup {None}, dragging : BOOLEAN, saved : {""}] /\ v1.item = None /\ ~v1.dragging
  BY <1>1 DEF Drag!NoPress
<1>4. v10.acted = ~v10.dragged
  BY DEF Drag!Init
<1>5. DragPress
  BY <1>1, <1>2, <1>3 DEF DragPress
<1>6. DragClicks
  BY <1>1 DEF DragClicks
<1> QED BY <1>1, <1>3, <1>4, <1>5, <1>6 DEF DragSound, Drag!Inv, Drag!TypeOK, Drag!NothingLingers, Drag!ClicksMatchPresses

LEMMA DragOwner == /\ \A i : Drag!Owner(i) \in {"bar", "list"}
                   /\ \A i \in Pages : Drag!Owner(i) = "bar"
                   /\ \A i \in ListRows : Drag!Owner(i) = "list"
BY DragNone DEF Drag!Owner, Drag!Bar, Drag!List

(* What Escape, a release, a cancelled pointer and a filtered list have in common. *)
LEMMA DragEnds ==
  ASSUME DragSound, v1 # Drag!NoPress, Drag!Ends, UNCHANGED <<v4, v10, v12>>,
         v2' \in BOOLEAN, v3' \in {v3, None}, v9' \in {v9, v3', v3, None},
         v3' # None => v2' /\ v9' = None, v2' => v9' = None
  PROVE  DragSound'
<1>1. /\ v1' = [item |-> None, dragging |-> FALSE, saved |-> ""] /\ v6' = None /\ v7' = None
      /\ v5' = (IF v1.dragging THEN v1.saved ELSE v5)
      /\ v8' = IF v1.dragging /\ v1.item \in ListRows THEN [v8 EXCEPT !["list"] = TRUE] ELSE v8
  BY DEF Drag!Ends, Drag!NoPress, Drag!clearTabDrag, Drag!List
<1>2. /\ v1 \in [item : Pages \cup ListRows \cup {None}, dragging : BOOLEAN, saved : {""}]
      /\ v1.item \in Pages \cup ListRows /\ v8 \in [{"bar", "list"} -> BOOLEAN] /\ v4 \in BOOLEAN
      /\ v3 = Drag!Owner(v1.item) /\ (v4 <=> v1.dragging) /\ v2 /\ v9 = None
      /\ (v8[v3] <=> v4 /\ ~(v1.dragging /\ v3 = "list"))
  BY DragOwner, DragNone DEF DragSound, DragPress, DragClicks
<1>3. v8' \in [{"bar", "list"} -> BOOLEAN] /\ (v8'[v3] <=> v4)
  <2>1. CASE v1.dragging /\ v1.item \in ListRows
    BY <1>1, <1>2, <2>1, DragOwner
  <2>2. CASE ~v1.dragging
    BY <1>1, <1>2, <2>2
  <2>3. CASE v1.dragging /\ v1.item \notin ListRows
    <3>1. v3 = "bar"
      BY <1>2, <2>3, DragOwner
    <3> QED BY <1>1, <1>2, <2>3, <3>1
  <2> QED BY <2>1, <2>2, <2>3
<1>4. v5' = "" /\ v3 \in {"bar", "list"}
  BY <1>1, <1>2, DragOwner DEF DragSound, Drag!Inv, Drag!NothingLingers
<1>5. Drag!Inv'
  BY <1>1, <1>4 DEF DragSound, Drag!Inv, Drag!TypeOK, Drag!NothingLingers, Drag!ClicksMatchPresses
<1>6. DragPress'
  BY <1>1, <1>2, <1>3, <1>4 DEF DragPress, Drag!NoPress
<1>7. DragClicks'
  BY <1>1, <1>2, <1>3 DEF DragClicks
<1> QED BY <1>5, <1>6, <1>7 DEF DragSound

LEMMA DragDown == ASSUME DragSound, NEW i \in Pages \cup ListRows, NEW disabled \in BOOLEAN, Drag!Down(i, disabled)
                  PROVE  DragSound'
<1>1. /\ ~v2 /\ v9 = None /\ v2' = TRUE /\ v3' = Drag!Owner(i) /\ v4' = FALSE
      /\ v8' = [v8 EXCEPT !["list"] = FALSE, ![Drag!Owner(i)] = FALSE]
      /\ v1' = IF disabled /\ i \in ListRows THEN Drag!NoPress ELSE [item |-> i, dragging |-> FALSE, saved |-> v5]
      /\ UNCHANGED <<v5, v6, v7, v9, v10>>
  BY DEF Drag!Down, Drag!List
<1>2. v1 = Drag!NoPress /\ ~v1.dragging /\ v8 \in [{"bar", "list"} -> BOOLEAN]
  <2>1. v1 = Drag!NoPress /\ v8 \in [{"bar", "list"} -> BOOLEAN]
    BY <1>1 DEF DragSound, DragPress
  <2>2. ~Drag!NoPress.dragging
    BY DEF Drag!NoPress
  <2> QED BY <2>1, <2>2
<1>3. v5 = "" /\ v6 = None /\ v7 = None
  BY <1>2 DEF DragSound, Drag!Inv, Drag!NothingLingers
<1>4. /\ v1' \in [item : Pages \cup ListRows \cup {None}, dragging : {FALSE}, saved : {""}]
      /\ v1' = Drag!NoPress \/ v1'.item = i
  BY <1>1, <1>3 DEF Drag!NoPress
<1>5. v3' \in {"bar", "list"} /\ v8' \in [{"bar", "list"} -> BOOLEAN] /\ v8'[v3'] = FALSE
  BY <1>1, <1>2, DragOwner
<1>6. Drag!Inv'
  BY <1>1, <1>3, <1>4 DEF DragSound, Drag!Inv, Drag!TypeOK, Drag!NothingLingers, Drag!ClicksMatchPresses
<1>7. DragPress'
  BY <1>1, <1>4, <1>5, DragNone DEF DragSound, DragPress, Drag!NoPress
<1>8. DragClicks'
  BY <1>1, <1>5 DEF DragClicks
<1> QED BY <1>6, <1>7, <1>8 DEF DragSound

LEMMA DragMove == ASSUME DragSound, Drag!Move PROVE DragSound'
<1>1. /\ v2 /\ v1 # Drag!NoPress /\ UNCHANGED <<v2, v3, v9, v10>>
      /\ IF v1.dragging THEN UNCHANGED <<v1, v4, v5, v6, v8>> ELSE Drag!Begins
  BY DEF Drag!Move
<1>2. /\ v1 \in [item : Pages \cup ListRows \cup {None}, dragging : BOOLEAN, saved : {""}] /\ v1.item \in Pages \cup ListRows
      /\ v8 \in [{"bar", "list"} -> BOOLEAN] /\ v3 = Drag!Owner(v1.item) /\ v3 \in {"bar", "list"} /\ v9 = None
      /\ (v4 <=> v1.dragging) /\ (v8[v3] <=> v4 /\ ~(v1.dragging /\ v3 = "list"))
  BY <1>1, DragOwner, DragNone DEF DragSound, DragPress, DragClicks
<1>3. CASE v1.dragging
  <2>1. UNCHANGED <<v1, v2, v3, v4, v5, v6, v8, v9, v10>>
    BY <1>1, <1>3
  <2> QED BY <1>3, <2>1 DEF DragSound, Drag!Inv, Drag!TypeOK, Drag!NothingLingers, Drag!ClicksMatchPresses,
                            DragPress, DragClicks
<1>4. CASE ~v1.dragging
  <2>1. /\ v1' = [v1 EXCEPT !.dragging = TRUE] /\ v4' = TRUE /\ v5' = "none" /\ v6' = v1.item
        /\ v8' = IF v1.item \in Pages THEN [v8 EXCEPT !["bar"] = TRUE] ELSE v8
    BY <1>1, <1>4 DEF Drag!Begins, Drag!setActiveDrag, Drag!Bar
  <2>2. /\ v1' \in [item : Pages \cup ListRows \cup {None}, dragging : {TRUE}, saved : {""}] /\ v1'.item = v1.item
        /\ v1' # Drag!NoPress
    <3>1. v1' \in [item : Pages \cup ListRows \cup {None}, dragging : {TRUE}, saved : {""}] /\ v1'.item = v1.item
      BY <1>2, <2>1
    <3>2. Drag!NoPress.item = None /\ v1.item # None
      BY <1>2, DragNone DEF Drag!NoPress
    <3> QED BY <3>1, <3>2
  <2>3. v8' \in [{"bar", "list"} -> BOOLEAN] /\ (v8'[v3] <=> v3 # "list")
    <3>1. CASE v1.item \in Pages
      BY <1>2, <2>1, <3>1, DragOwner
    <3>2. CASE v1.item \in ListRows
      BY <1>2, <1>4, <2>1, <3>2, DragOwner, DragNone
    <3> QED BY <1>2, <3>1, <3>2
  <2>4. Drag!Inv'
    BY <1>1, <1>2, <2>1, <2>2 DEF DragSound, Drag!Inv, Drag!TypeOK, Drag!NothingLingers, Drag!ClicksMatchPresses
  <2>5. DragPress'
    BY <1>1, <1>2, <2>1, <2>2, <2>3, DragNone DEF DragPress
  <2>6. DragClicks'
    BY <1>1, <1>2, <2>1, <2>2, <2>3 DEF DragClicks
  <2> QED BY <2>4, <2>5, <2>6 DEF DragSound
<1> QED BY <1>3, <1>4

LEMMA DragUp == ASSUME DragSound, Drag!Up PROVE DragSound'
<1>1. /\ v2 /\ v2' = FALSE /\ v3' = None /\ v9' \in {None, v3} /\ Drag!Ends /\ UNCHANGED <<v4, v10, v12>>
  BY DEF Drag!Up
<1>2. CASE v1 # Drag!NoPress
  BY <1>1, <1>2, DragEnds
<1>3. CASE v1 = Drag!NoPress
  <2>1. ~v1.dragging /\ v1' = v1 /\ v6' = None /\ v7' = None /\ v5' = v5 /\ v8' = v8
    BY <1>1, <1>3 DEF Drag!Ends, Drag!NoPress, Drag!clearTabDrag
  <2> QED BY <1>1, <1>3, <2>1 DEF DragSound, Drag!Inv, Drag!TypeOK, Drag!NothingLingers, Drag!ClicksMatchPresses,
                                  DragPress, DragClicks
<1> QED BY <1>2, <1>3

LEMMA DragClick == ASSUME DragSound, Drag!Click PROVE DragSound'
<1>1. /\ v9 # None /\ v9' = None /\ v10' = [dragged |-> v4, acted |-> ~v8[v9]]
      /\ UNCHANGED <<v1, v2, v3, v4, v5, v6, v7, v8>>
  BY DEF Drag!Click
<1>2. v4 \in BOOLEAN /\ v8[v9] \in BOOLEAN /\ (v8[v9] <=> v4)
  BY <1>1 DEF DragSound, DragPress, DragClicks
<1>3. v10'.acted = ~v10'.dragged
  BY <1>1, <1>2
<1> QED BY <1>1, <1>3 DEF DragSound, Drag!Inv, Drag!TypeOK, Drag!NothingLingers, Drag!ClicksMatchPresses,
                          DragPress, DragClicks

LEMMA DragRemount == ASSUME DragSound, NEW o \in {"bar", "list"}, Drag!Remount(o) PROVE DragSound'
<1>1. /\ v3' = (IF v3 = o THEN None ELSE v3) /\ v9' = (IF v9 = o THEN None ELSE v9)
      /\ v8' = [v8 EXCEPT ![o] = FALSE] /\ UNCHANGED <<v2, v4, v10>>
      /\ IF v1 # Drag!NoPress /\ Drag!Owner(v1.item) = o
         THEN /\ v1' = Drag!NoPress /\ v6' = None /\ v7' = None /\ v5' = IF v1.dragging THEN v1.saved ELSE v5
         ELSE UNCHANGED <<v1, v5, v6, v7>>
  BY DEF Drag!Remount, Drag!Goes, Drag!NewInstance, Drag!clearTabDrag, Drag!ghosts
<1>2. DragPress /\ DragClicks /\ Drag!Inv
  BY DEF DragSound
<1>3. /\ v8' \in [{"bar", "list"} -> BOOLEAN] /\ {v3', v9'} \subseteq {"bar", "list", None}
      /\ \A x \in {"bar", "list"} : x # o => v8'[x] = v8[x]
      /\ v3' # None => v3' = v3 /\ v3 # o
      /\ v9' # None => v9' = v9 /\ v9 # o
  BY <1>1, <1>2 DEF DragPress
<1>4. CASE v1 # Drag!NoPress /\ Drag!Owner(v1.item) = o
  <2>1. v1' = [item |-> None, dragging |-> FALSE, saved |-> ""] /\ v3 = o /\ v3' = None /\ v5' = "" /\ v6' = None /\ v7' = None
    BY <1>1, <1>2, <1>4 DEF Drag!NoPress, DragPress, Drag!Inv, Drag!NothingLingers
  <2>2. Drag!Inv'
    BY <1>1, <1>2, <2>1 DEF Drag!Inv, Drag!TypeOK, Drag!NothingLingers, Drag!ClicksMatchPresses
  <2>3. DragPress'
    BY <1>1, <1>2, <1>3, <2>1 DEF DragPress, Drag!NoPress
  <2>4. DragClicks'
    BY <1>1, <1>2, <1>3, <2>1 DEF DragPress, DragClicks
  <2> QED BY <2>2, <2>3, <2>4 DEF DragSound
<1>5. CASE ~(v1 # Drag!NoPress /\ Drag!Owner(v1.item) = o)
  <2>1. UNCHANGED <<v1, v5, v6, v7>>
    BY <1>1, <1>5
  <2>2. Drag!Inv'
    BY <1>1, <1>2, <2>1 DEF Drag!Inv, Drag!TypeOK, Drag!NothingLingers, Drag!ClicksMatchPresses
  <2>3. v1 # Drag!NoPress => v3' = v3
    BY <1>1, <1>2, <1>5 DEF DragPress
  <2>4. DragPress'
    BY <1>1, <1>2, <1>3, <2>1, <2>3 DEF DragPress
  <2>5. DragClicks'
    BY <1>1, <1>2, <1>3, <2>1 DEF DragPress, DragClicks
  <2> QED BY <2>2, <2>4, <2>5 DEF DragSound
<1> QED BY <1>4, <1>5

LEMMA DragStep == DragSound /\ [Drag!Next]_(Drag!vars) => DragSound'
<1> SUFFICES ASSUME DragSound, [Drag!Next]_(Drag!vars) PROVE DragSound'
  OBVIOUS
<1>1. ASSUME Drag!Escape \/ Drag!PointerCancel \/ Drag!Disable PROVE DragSound'
  <2>1. /\ Drag!Ends /\ UNCHANGED <<v4, v9, v10, v12>> /\ v1 # Drag!NoPress
        /\ UNCHANGED <<v2, v3>> \/ (v2' = FALSE /\ v3' = None)
    <3>1. CASE Drag!Escape \/ Drag!PointerCancel
      BY <3>1 DEF Drag!Escape, Drag!PointerCancel, Drag!ghosts
    <3>2. CASE Drag!Disable
      <4>1. v1.item \in ListRows /\ Drag!NoPress.item = None
        BY <3>2 DEF Drag!Disable, Drag!NoPress
      <4> QED BY <3>2, <4>1, DragNone DEF Drag!Disable, Drag!ghosts
    <3> QED BY <1>1, <3>1, <3>2
  <2>2. v2 /\ v9 = None
    BY <2>1 DEF DragSound, DragPress
  <2> QED BY <2>1, <2>2, DragEnds
<1>2. CASE UNCHANGED Drag!vars
  <2>1. UNCHANGED <<v1, v2, v3, v4, v5, v6, v7, v8, v9, v10>>
    BY <1>2 DEF Drag!vars
  <2> QED BY <2>1 DEF DragSound, Drag!Inv, Drag!TypeOK, Drag!NothingLingers, Drag!ClicksMatchPresses,
                      DragPress, DragClicks
<1> QED BY <1>1, <1>2, DragDown, DragMove, DragUp, DragClick, DragRemount DEF Drag!Next, Drag!Bar, Drag!List

(***************************************************************************)
(* Files dropped from the desktop                                          *)
(***************************************************************************)
(* A handler is accounted for because one that is current or being removed was once   *)
(* asked for: a fresh one is neither.                                                  *)
DropFresh == \A h \in Drop!Ids : v4[h] = "none" => h \notin v5 /\ h # v3
DropSound == Drop!Inv /\ DropFresh

LEMMA DropCardinality == ASSUME NEW S PROVE Drop!Cardinality(S) = Cardinality(S)
BY Zenon DEF Drop!Cardinality, Cardinality

LEMMA DropLiveCount == Drop!Cardinality(Drop!Live) \in 0 .. MaxHandlers
<1>1. IsFiniteSet(1 .. MaxHandlers) /\ Cardinality(1 .. MaxHandlers) = MaxHandlers
  <2>1. MaxHandlers \in Nat
    BY WorkspaceConstants
  <2>2. 1 \in Int /\ MaxHandlers \in Int /\ (IF 1 > MaxHandlers THEN 0 ELSE MaxHandlers - 1 + 1) = MaxHandlers
    BY <2>1
  <2> QED BY <2>2, FS_Interval
<1>2. Drop!Live \subseteq 1 .. MaxHandlers
  BY DEF Drop!Live, Drop!Ids
<1>3. IsFiniteSet(Drop!Live) /\ Cardinality(Drop!Live) <= MaxHandlers /\ Cardinality(Drop!Live) \in Nat
  BY <1>1, <1>2, FS_Subset, FS_CardinalityType
<1> QED BY <1>3, WorkspaceConstants, DropCardinality

LEMMA DropNone == None \notin Zones /\ None \notin Drop!Ids /\ MaxHandlers \in Nat
BY WorkspaceConstants DEF Drop!Ids

LEMMA DropRanked == ASSUME NEW hit \in SUBSET Zones, hit # {} PROVE \E z \in hit : \A y \in hit : z >= y
BY WorkspaceConstants

LEMMA DropHit == \A under \in SUBSET Zones : Drop!hitTest(under) \subseteq Zones
<1> SUFFICES ASSUME NEW under \in SUBSET Zones PROVE Drop!hitTest(under) \subseteq Zones
  OBVIOUS
<1> DEFINE hit == under \cap v1 \cap v2
<1>1. CASE hit = {}
  BY <1>1 DEF Drop!hitTest
<1>2. CASE hit # {}
  <2>1. \E z \in hit : \A y \in hit : z >= y
    <3>1. hit \in SUBSET Zones
      OBVIOUS
    <3> QED BY <1>2, <3>1, DropRanked
  <2>2. (CHOOSE z \in hit : \A y \in hit : z >= y) \in hit
    BY <2>1
  <2> QED BY <1>2, <2>2 DEF Drop!hitTest
<1> QED BY <1>1, <1>2

LEMMA DropInit == Drop!Init => DropSound
BY DropNone DEF Drop!Init, DropSound, Drop!Inv, Drop!TypeOK, Drop!HandlersAccounted, DropFresh, Drop!Ids

LEMMA DropStep == DropSound /\ [Drop!Next]_(Drop!vars) => DropSound'
<1> SUFFICES ASSUME DropSound, [Drop!Next]_(Drop!vars) PROVE DropSound'
  OBVIOUS
<1> USE DEF DropSound, Drop!Inv, Drop!TypeOK, Drop!HandlersAccounted, DropFresh
<1> None \notin Drop!Ids /\ None \notin Zones
  BY DropNone
<1>1. ASSUME NEW h \in Drop!Ids, Drop!Installed(h) PROVE DropSound'
  BY <1>1 DEF Drop!Installed
<1>2. ASSUME NEW h \in Drop!Ids, Drop!Removed(h) PROVE DropSound'
  BY <1>2 DEF Drop!Removed
<1>3. ASSUME NEW z \in Zones, Drop!Unmount(z) PROVE DropSound'
  <2>1. CASE v1 \ {z} = {}
    BY <1>3, <2>1 DEF Drop!Unmount, Drop!ensureUnsubscribed
  <2>2. CASE v1 \ {z} # {}
    BY <1>3, <2>2 DEF Drop!Unmount
  <2> QED BY <2>1, <2>2
<1>4. ASSUME NEW z \in Zones, NEW h \in Drop!Fresh, Drop!Mount(z, h) PROVE DropSound'
  BY <1>4 DEF Drop!Mount, Drop!ensureSubscribed, Drop!Fresh
<1>5. ASSUME NEW z \in Zones, NEW h \in Drop!Fresh, Drop!Enable(z, h) PROVE DropSound'
  BY <1>5 DEF Drop!Enable, Drop!ensureSubscribed, Drop!Fresh
<1>6. ASSUME NEW under \in SUBSET Zones, Drop!DragOver(under) PROVE DropSound'
  BY <1>6, DropHit DEF Drop!DragOver
<1>7. ASSUME NEW under \in SUBSET Zones, Drop!Drop(under) PROVE DropSound'
  <2>1. v7' = IF Drop!hitTest(under) = {} THEN v7
               ELSE [zone |-> CHOOSE z \in Drop!hitTest(under) : TRUE, times |-> Drop!Cardinality(Drop!Live)]
    BY <1>7 DEF Drop!Drop
  <2>2. CASE Drop!hitTest(under) = {}
    BY <1>7, <2>1, <2>2 DEF Drop!Drop
  <2>3. CASE Drop!hitTest(under) # {}
    <3>1. (CHOOSE z \in Drop!hitTest(under) : TRUE) \in Zones
      BY <2>3, DropHit
    <3>2. v7' \in [zone : Zones \cup {None}, times : 0 .. MaxHandlers]
      BY <2>1, <2>3, <3>1, DropLiveCount
    <3> QED BY <1>7, <3>2 DEF Drop!Drop
  <2> QED BY <2>2, <2>3
<1>8. CASE Drop!DragLeave
  BY <1>8 DEF Drop!DragLeave
<1>9. CASE UNCHANGED Drop!vars
  BY <1>9 DEF Drop!vars
<1> QED BY <1>1, <1>2, <1>3, <1>4, <1>5, <1>6, <1>7, <1>8, <1>9 DEF Drop!Next

(***************************************************************************)
(* Preferences                                                             *)
(***************************************************************************)
(* An open window, or a kept draft, remembers as original what is stored, so that     *)
(* Cancel takes back everything tried on; only half a save makes the two differ, and   *)
(* only a save that fits makes up for it.                                              *)
PrefsOriginal == /\ v1 => ~v6
                 /\ (v1 \/ v6) /\ ~v8 => v5 = v4
PrefsSound == Prefs!Inv /\ PrefsOriginal

LEMMA PrefsLooks == /\ \A look \in Prefs!Looks : look = [theme |-> look.theme, palette |-> look.palette]
                    /\ \A theme \in Themes, palette \in Palettes : [theme |-> theme, palette |-> palette] \in Prefs!Looks
                    /\ \A look \in Prefs!Looks : look.theme \in Themes /\ look.palette \in Palettes
                    /\ Prefs!Default \in Prefs!Looks
BY WorkspaceConstants DEF Prefs!Looks, Prefs!Default

LEMMA PrefsInit == Prefs!Init => PrefsSound
<1> SUFFICES ASSUME Prefs!Init PROVE PrefsSound
  OBVIOUS
<1>1. 0 \in 0 .. MaxOpens
  BY WorkspaceConstants
<1> QED BY <1>1, PrefsLooks DEF Prefs!Init, PrefsSound, Prefs!Inv, Prefs!TypeOK, Prefs!ClosedShowsSaved, PrefsOriginal

LEMMA PrefsStep == PrefsSound /\ [Prefs!Next]_(Prefs!vars) => PrefsSound'
<1> SUFFICES ASSUME PrefsSound, [Prefs!Next]_(Prefs!vars) PROVE PrefsSound'
  OBVIOUS
<1> USE DEF PrefsSound, Prefs!Inv, Prefs!TypeOK, Prefs!ClosedShowsSaved, PrefsOriginal
<1>1. CASE Prefs!Open
  <2>1. /\ ~v1 /\ v7 < MaxOpens /\ v1' = TRUE /\ v7' = v7 + 1 /\ v6' = FALSE /\ UNCHANGED <<v3, v4, v8, v9, v10, v11>>
        /\ IF v6 THEN UNCHANGED <<v2, v5>> ELSE v2' = v4 /\ v5' = [theme |-> v4.theme, palette |-> v3.palette]
    BY <1>1 DEF Prefs!Open, Prefs!checker
  <2>2. v7' \in 0 .. MaxOpens
    BY <2>1, WorkspaceConstants
  <2>3. CASE v6
    BY <2>1, <2>2, <2>3
  <2>4. CASE ~v6
    <3>1. v5' \in Prefs!Looks /\ (v3 = v4 => v5' = v4)
      BY <2>1, <2>4, PrefsLooks
    <3> QED BY <2>1, <2>2, <2>4, <3>1
  <2> QED BY <2>3, <2>4
<1>2. ASSUME NEW look \in Prefs!Looks, Prefs!Choose(look) PROVE PrefsSound'
  <2>1. /\ v1 /\ v2' = look /\ v3' = (IF look.theme = v2.theme THEN [v3 EXCEPT !.palette = look.palette] ELSE look)
        /\ UNCHANGED <<v1, v4, v5, v6, v7, v8, v9, v10, v11>>
    BY <1>2 DEF Prefs!Choose, Prefs!checker
  <2>2. v3' \in Prefs!Looks
    BY <2>1 DEF Prefs!Looks
  <2> QED BY <2>1, <2>2
<1>3. CASE Prefs!handleReset
  BY <1>3, PrefsLooks DEF Prefs!handleReset, Prefs!checker
<1>4. CASE Prefs!handleCancel
  BY <1>4 DEF Prefs!handleCancel, Prefs!checker
<1>5. ASSUME NEW fits \in BOOLEAN, Prefs!handleSave(fits) PROVE PrefsSound'
  BY <1>5 DEF Prefs!handleSave, Prefs!checker
<1>6. CASE Prefs!handleCheckForUpdates
  BY <1>6 DEF Prefs!handleCheckForUpdates, Prefs!checkForUpdates, Prefs!checker
<1>7. ASSUME NEW available \in BOOLEAN, Prefs!Checked(available) PROVE PrefsSound'
  BY <1>7 DEF Prefs!Checked, Prefs!window
<1>8. CASE Prefs!CloseOffer
  BY <1>8 DEF Prefs!CloseOffer, Prefs!window
<1>9. CASE UNCHANGED Prefs!vars
  BY <1>9 DEF Prefs!vars
<1> QED BY <1>1, <1>2, <1>3, <1>4, <1>5, <1>6, <1>7, <1>8, <1>9 DEF Prefs!Next

(***************************************************************************)
(* The parts together                                                      *)
(***************************************************************************)
(* What holds of the part that runs. *)
Sound ==
  /\ part = "layout" => LayoutSound
  /\ part = "drag" => DragSound
  /\ part = "drop" => DropSound
  /\ part = "prefs" => PrefsSound

LEMMA PartsStep ==
  [Next]_vars => /\ part' = part
                 /\ part = "layout" => [Layout!Next]_v1
                 /\ part = "drag" => [Drag!Next]_(Drag!vars)
                 /\ part = "drop" => [Drop!Next]_(Drop!vars)
                 /\ part = "prefs" => [Prefs!Next]_(Prefs!vars)
<1> SUFFICES ASSUME [Next]_vars
             PROVE  /\ part' = part
                    /\ part = "layout" => [Layout!Next]_v1
                    /\ part = "drag" => [Drag!Next]_(Drag!vars)
                    /\ part = "drop" => [Drop!Next]_(Drop!vars)
                    /\ part = "prefs" => [Prefs!Next]_(Prefs!vars)
  OBVIOUS
<1>1. part' = part
  BY DEF Next, vars
<1>2. ASSUME part = "layout" PROVE [Layout!Next]_v1
  BY <1>2 DEF Next, vars
<1>3. ASSUME part = "drag" PROVE [Drag!Next]_(Drag!vars)
  BY <1>3 DEF Next, vars, Drag!vars
<1>4. ASSUME part = "drop" PROVE [Drop!Next]_(Drop!vars)
  BY <1>4 DEF Next, vars, Drop!vars
<1>5. ASSUME part = "prefs" PROVE [Prefs!Next]_(Prefs!vars)
  BY <1>5 DEF Next, vars, Prefs!vars
<1> QED BY <1>1, <1>2, <1>3, <1>4, <1>5

LEMMA SoundInit == Init => Sound
<1> SUFFICES ASSUME Init PROVE Sound
  OBVIOUS
<1>1. /\ part = "layout" => Layout!Init
      /\ part = "drag" => Drag!Init
      /\ part = "drop" => Drop!Init
      /\ part = "prefs" => Prefs!Init
  BY DEF Init
<1> QED BY <1>1, LayoutInit, DragInit, DropInit, PrefsInit DEF Sound

LEMMA SoundStep == Sound /\ [Next]_vars => Sound'
<1> SUFFICES ASSUME Sound, [Next]_vars PROVE Sound'
  OBVIOUS
<1>1. part = "layout" => LayoutSound'
  BY PartsStep, LayoutStep DEF Sound
<1>2. part = "drag" => DragSound'
  BY PartsStep, DragStep DEF Sound
<1>3. part = "drop" => DropSound'
  BY PartsStep, DropStep DEF Sound
<1>4. part = "prefs" => PrefsSound'
  BY PartsStep, PrefsStep DEF Sound
<1> QED BY <1>1, <1>2, <1>3, <1>4, PartsStep DEF Sound

LEMMA PartsAreSound == Spec => []Sound
<1> QED BY SoundInit, SoundStep, PTL DEF Spec

(* Every pane is on exactly one page and has one place in its grid, no page shows a pane   *)
(* that is gone, every session is in exactly one pane, which the index names, a pane with  *)
(* sessions shows one of them, and focus is on a pane of the live page: after any series   *)
(* of splits, closings, moves, drags and reorderings of the reducer                        *)
(* (terminal-group-reducer.ts), for any sessions and however many panes and pages.         *)
THEOREM PanesArePlaced == Spec => []PanesPlacedOnce
<1>1. Sound => PanesPlacedOnce
  BY LayoutHolds DEF Sound, PanesPlacedOnce
<1> QED BY <1>1, PartsAreSound, PTL

(* A close of one session ends that one only, and moves the focus only if its pane goes   *)
(* with it; splitting, moving, dragging, showing and reordering end none, although an      *)
(* emptied pane and its page may go (maybeRemoveEmptyGroup, removeGroupFromState in        *)
(* terminal-group-reducer.ts): for any sessions, and however many panes and pages.         *)
THEOREM SessionsOutlast == Spec => SessionsStay
<1>1. Sound /\ [Next]_vars =>
        [part = "layout" => Layout!ClosesOne /\ Layout!ArrangingKeepsSessions]_vars
  <2> SUFFICES ASSUME Sound, Next, part = "layout"
               PROVE  Layout!ClosesOne /\ Layout!ArrangingKeepsSessions
    OBVIOUS
  <2>1. Layout!Next
    BY DEF Next
  <2> QED BY <2>1, LayoutStays DEF Sound
<1> QED BY <1>1, PartsAreSound, PTL DEF Spec, SessionsStay

(* However a drag ends, by a drop, an escape, a lost pointer or a list that goes, text can *)
(* be selected again and nothing stays drawn of it, and a click acts exactly if nothing    *)
(* was dragged since its press (use-workspace-tab-drag.ts, use-connection-row-drag.ts):    *)
(* for any pages and rows.                                                                 *)
THEOREM DragsAreClean == Spec => []DragsEndClean
<1>1. Sound => DragsEndClean
  BY DEF Sound, DragSound, DragsEndClean
<1> QED BY <1>1, PartsAreSound, PTL

(* There is a current drop handler exactly while a zone is mounted, and every other        *)
(* handler that may still run is being removed (use-webview-file-drop.ts): no drop from    *)
(* the desktop is lost for want of a handler or passed on by one nobody owns, for any      *)
(* zones, however installations and removals overlap.                                     *)
THEOREM HandlersAreKept == Spec => []HandlersAccounted
<1>1. Sound => HandlersAccounted
  BY DEF Sound, DropSound, HandlersAccounted
<1> QED BY <1>1, PartsAreSound, PTL

(* Settings that are closed show what is stored, unless a save failed half way: cancels,   *)
(* resets and update checks that take the dialog's place included (settings-modal.tsx,     *)
(* update-checker.tsx), for any themes and palettes.                                       *)
THEOREM ClosedIsSaved == Spec => []ClosedShowsSaved
<1>1. Sound => ClosedShowsSaved
  BY DEF Sound, PrefsSound, ClosedShowsSaved
<1> QED BY <1>1, PartsAreSound, PTL
=============================================================================
