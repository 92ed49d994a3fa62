-------------------------- MODULE ConnectionsProofs --------------------------
(***************************************************************************)
(* Proofs about the connections of MCConnections: a tab that shows a       *)
(* connection has its session (TabsHaveSessions), a late answer brings no  *)
(* closed tab back (LateAnswerRevivesNothing), a terminal shows what its   *)
(* shell writes in order (OutputInOrder) and tells it its size             *)
(* (SizeReachesShell), prompts and answers belong to the attempts that     *)
(* wait (PromptsReachAttempts), and drafts are kept; for any numbers of    *)
(* tabs, attempts, runs, drops, chunks, sizes and challenges.              *)
(*                                                                         *)
(* The parts are instances whose variables are v1, v2, ... there:          *)
(*   File     v1 tab, v2 closing, v3 session, v4 progress, v5 of, v6 prev, *)
(*            v7 phase, v8 aborted, v9 retry, v10 asked, v11 dialog,       *)
(*            v12 trusting, v13 retrying, v14 cancels, v15 call,           *)
(*            v16 token, v17 revoked, v18 live                             *)
(*   Ssh      v1 tab, v2 closing, v3 progress, v4 pty, v5 of, v6 kind,     *)
(*            v7 at, v8 call, v9 live, v10 retried, v11 question,          *)
(*            v12 shown, v13 trusting, v14 connecting, v15 stopped         *)
(*   Link     v1 mount, v2 alive, v3 phase, v4 ever, v5 redrop,            *)
(*            v6 attempts, v7 dropTries, v8 status, v9 auto, v10 drops,    *)
(*            v11 sent, v12 queue, v13 writing, v14 shown                  *)
(*   Fit      v1 box, v2 term, v3 lastSent, v4 pty, v5 sock, v6 observed,  *)
(*            v7 frame, v8 settling, v9 columns, v10 focusing, v11 large   *)
(*   Broker   v1 attempts, v2 begun, v3 token, v4 pending, v5 sequence,    *)
(*            v6 listener, v7 events, v8 queue, v9 submitting,             *)
(*            v10 replies, v11 overlapped, v12 dismissed, v13 arrived      *)
(*   Compose  v1 shown, v2 draft, v3 timer, v4 clear, v5 stored,           *)
(*            v6 connected, v7 sender, v8 open, v9 typed                   *)
(***************************************************************************)
EXTENDS MCConnections, TLAPS

(***************************************************************************)
(* File tabs: one attempt of a connection in the backend at a time         *)
(***************************************************************************)
FileDone == {"none", "ok", "cancelled", "hostKey", "failed"}

(* Attempts start in their order; each waits for the one its connection had before. *)
FileStarted ==
  /\ \A a \in File!Attempts : v5[a] = None <=> v7[a] = "none"
  /\ \A a, b \in File!Attempts : v5[a] = None /\ v5[b] # None => b < a
  /\ \A a \in v8 : v5[a] # None
  /\ \A a \in File!Attempts : v6[a] # None => v6[a] < a /\ v5[v6[a]] = v5[a] /\ v5[a] # None

(* While an attempt is on its way every later one of its connection waits: for it, or *)
(* for another that waits behind it.                                                  *)
FileLine ==
  \A a, b \in File!Attempts : a < b /\ v5[a] = v5[b] /\ ~File!Settled(a) =>
    /\ v7[b] = "waiting" /\ v6[b] # None
    /\ v6[b] = a \/ (a < v6[b] /\ v7[v6[b]] = "waiting")

(* A connection's session is its newest attempt, and is there while any is on its way. *)
FileNewest ==
  /\ \A c \in FileTabs : v3[c] # None =>
       /\ v5[v3[c]] = c /\ v7[v3[c]] # "done"
       /\ \A b \in File!Attempts : v5[b] = c => b <= v3[c]
  /\ \A a \in File!Attempts : ~File!Settled(a) => v3[v5[a]] # None
  /\ \A a \in File!Attempts : v5[a] # None /\ a \notin v8 /\ v7[a] # "done" => v3[v5[a]] = a

FileOrder == FileStarted /\ FileLine /\ FileNewest

(* What the backend can have answered at each point of the async function. *)
FileCalls ==
  \A a \in File!Attempts :
    /\ v7[a] \in {"none", "waiting", "clearing", "cleared"} => v15[a] = "none"
    /\ v7[a] = "listening" => v15[a] \in {"none", "hostKey"}
    /\ v7[a] = "calling" => v15[a] # "none"
    /\ v7[a] = "undoing" => v15[a] = "ok" /\ a \in v8
    /\ v7[a] = "trust" => v15[a] = "hostKey"
    /\ v7[a] = "done" => v15[a] \in FileDone

(* The dialog asks for an attempt that waits for its answer. *)
FileAsked ==
  /\ v9 # None => v10 = v5[v9] /\ v10 # None
  /\ (v11 \/ v12) /\ v9 # None => v7[v9] = "trust"

(* A backend session is that of the attempt whose command inserted it; it is there *)
(* until its tab is being closed, and no attempt is under way over a shown one.    *)
FileLives ==
  /\ \A c \in FileTabs : v18[c] # None => v5[v18[c]] = c /\ v15[v18[c]] \in {"inserted", "ok"}
  /\ \A c \in FileTabs : v1[c] = "connected" => v3[c] = None
  /\ \A a \in File!Attempts :
       /\ v7[a] = "calling" /\ v15[a] \in {"inserted", "ok"} /\ File!Current(a)
       /\ v2[v5[a]] = "no" /\ v1[v5[a]] # "closed"
       => v18[v5[a]] = a

FileSound == FileOrder /\ FileCalls /\ FileAsked /\ FileLives /\ File!Inv

FilePhases == {"clearing", "cleared", "listening", "calling", "undoing", "trust", "done"}

LEMMA FileInit == File!Init => FileSound
<1> SUFFICES ASSUME File!Init PROVE FileSound
  OBVIOUS
<1> USE ConnectionsConstants DEF File!Init
<1>1. FileOrder
  BY DEF FileOrder, FileStarted, FileLine, FileNewest, File!Settled
<1>2. FileCalls /\ FileAsked /\ FileLives
  BY DEF FileCalls, FileAsked, FileLives
<1>3. File!TypeOK
  BY DEF File!TypeOK, File!MaybeAttempt
<1>4. /\ File!ConnectedIsLive /\ File!AbortedLeavesNothing /\ File!SpinnerHasAttempt
      /\ File!OneCommandPerConnection
  BY DEF File!ConnectedIsLive, File!AbortedLeavesNothing, File!SpinnerHasAttempt, File!OneCommandPerConnection
<1> QED BY <1>1, <1>2, <1>3, <1>4 DEF FileSound, File!Inv

LEMMA FileOneCommand == File!TypeOK /\ FileStarted /\ FileLine => File!OneCommandPerConnection
<1> SUFFICES ASSUME File!TypeOK, FileLine, NEW a \in File!Attempts, NEW b \in File!Attempts,
                    v7[a] \in {"calling", "undoing"}, v7[b] \in {"calling", "undoing"}, v5[a] = v5[b]
             PROVE  a = b
  BY DEF File!OneCommandPerConnection
<1>1. ~(a < b) /\ ~(b < a)
  BY DEF FileLine, File!Settled
<1> QED BY <1>1, ConnectionsConstants DEF File!Attempts

(* An attempt that is done waiting has none before it on its way. *)
LEMMA FileFirst ==
  ASSUME FileStarted, FileLine, NEW a \in File!Attempts,
         v7[a] = "waiting" => v6[a] \in {None} \cup {b \in File!Attempts : File!Settled(b)}
  PROVE  \A b \in File!Attempts : b < a /\ v5[b] = v5[a] => File!Settled(b)
<1> SUFFICES ASSUME NEW b \in File!Attempts, b < a, v5[b] = v5[a], ~File!Settled(b) PROVE FALSE
  OBVIOUS
<1>1. v7[a] = "waiting" /\ v6[a] # None /\ (v6[a] = b \/ v7[v6[a]] = "waiting")
  BY DEF FileLine
<1> QED BY <1>1 DEF File!Settled

(* One attempt moves on or resolves; the session it was is forgotten when it resolves. *)
LEMMA FileMoves ==
  ASSUME File!TypeOK, FileOrder, NEW a \in File!Attempts, NEW p \in FilePhases,
         v5[a] # None, v7[a] # "done",
         v7[a] = "waiting" => v6[a] \in {None} \cup {b \in File!Attempts : File!Settled(b)},
         File!Settled(a) /\ p \notin {"trust", "done"} => v3[v5[a]] = a,
         v7' = [v7 EXCEPT ![a] = p], v5' = v5, v6' = v6, v8' \subseteq v8 \cup {a}, v8 \subseteq v8',
         v3' = IF p = "done" /\ v3[v5[a]] = a THEN [v3 EXCEPT ![v5[a]] = None] ELSE v3
  PROVE  FileOrder'
<1>1. /\ v7 \in [File!Attempts -> {"none", "waiting"} \cup FilePhases] /\ v5 \in [File!Attempts -> FileTabs \cup {None}]
      /\ v3 \in [FileTabs -> File!Attempts \cup {None}] /\ v6 \in [File!Attempts -> File!Attempts \cup {None}]
      /\ v5[a] \in FileTabs /\ v8 \subseteq File!Attempts /\ File!Attempts \subseteq Nat /\ None \notin Nat
  <2>1. /\ v7 \in [File!Attempts -> {"none", "waiting"} \cup FilePhases] /\ v5 \in [File!Attempts -> FileTabs \cup {None}]
        /\ v3 \in [FileTabs -> File!Attempts \cup {None}] /\ v6 \in [File!Attempts -> File!Attempts \cup {None}]
        /\ v8 \subseteq File!Attempts
    BY DEF File!TypeOK, File!MaybeAttempt, FilePhases
  <2>2. File!Attempts \subseteq Nat /\ None \notin Nat
    BY ConnectionsConstants DEF File!Attempts
  <2> QED BY <2>1, <2>2
<1>2. FileStarted /\ FileLine /\ FileNewest
  BY DEF FileOrder
<1>3. \A b \in File!Attempts : b < a /\ v5[b] = v5[a] => File!Settled(b)
  BY <1>2, FileFirst
<1>4. v7'[a] = p /\ \A b \in File!Attempts \ {a} : v7'[b] = v7[b] /\ (File!Settled(b)' <=> File!Settled(b))
  BY <1>1 DEF File!Settled
<1>5. \A b \in File!Attempts : v3[v5[a]] = a /\ v5[b] = v5[a] => b <= a
  BY <1>1, <1>2 DEF FileNewest
<1>6. FileStarted'
  BY <1>1, <1>2, <1>4 DEF FileStarted, FilePhases
<1>7. FileLine'
  <2> SUFFICES ASSUME NEW x \in File!Attempts, NEW y \in File!Attempts, x < y, v5[x] = v5[y], ~File!Settled(x)'
               PROVE  /\ v7'[y] = "waiting" /\ v6[y] # None
                      /\ v6[y] = x \/ (x < v6[y] /\ v7'[v6[y]] = "waiting")
    BY DEF FileLine
  <2>1. ~File!Settled(x)
    <3>1. CASE x # a
      BY <1>4, <3>1
    <3>2. CASE x = a
      BY <1>1, <1>4, <1>5, <3>2 DEF File!Settled, FilePhases
    <3> QED BY <3>1, <3>2
  <2>2. /\ v7[y] = "waiting" /\ v6[y] # None
        /\ v6[y] = x \/ (x < v6[y] /\ v7[v6[y]] = "waiting")
    BY <1>2, <2>1 DEF FileLine
  <2>3. y # a
    BY <1>3, <2>1
  <2>4. x < v6[y] => v6[y] # a
    BY <1>2, <1>3, <2>1, <2>2 DEF FileStarted
  <2> QED BY <1>1, <1>4, <2>2, <2>3, <2>4
<1>8. FileNewest'
  <2>1. \A c \in FileTabs : v3'[c] # None => v3[c] # None /\ v3'[c] = v3[c] /\ v7'[v3[c]] # "done"
    <3> SUFFICES ASSUME NEW c \in FileTabs, v3'[c] # None PROVE v3[c] # None /\ v3'[c] = v3[c] /\ v7'[v3[c]] # "done"
      OBVIOUS
    <3>1. v3[c] # None /\ v3'[c] = v3[c] /\ v3[c] \in File!Attempts
      BY <1>1
    <3>2. v5[v3[c]] = c /\ v7[v3[c]] # "done"
      BY <1>2, <3>1 DEF FileNewest
    <3>3. CASE v3[c] # a
      BY <1>4, <3>1, <3>2, <3>3
    <3>4. CASE v3[c] = a
      BY <1>1, <1>4, <3>1, <3>2, <3>4
    <3> QED BY <3>3, <3>4
  <2>2. ASSUME NEW b \in File!Attempts, ~File!Settled(b)' PROVE v3'[v5[b]] # None
    <3>1. CASE b = a
      <4>1. p # "done" /\ v3' = v3
        BY <1>4, <2>2, <3>1 DEF File!Settled
      <4>2. v3[v5[a]] # None
        BY <1>1, <1>2, <1>4, <2>2, <3>1 DEF FileNewest, File!Settled
      <4> QED BY <3>1, <4>1, <4>2
    <3>2. CASE b # a
      <4>1. ~File!Settled(b) /\ v3[v5[b]] # None
        BY <1>2, <1>4, <2>2, <3>2 DEF FileNewest
      <4>2. v3[v5[a]] = a => v5[b] # v5[a]
        BY <1>1, <1>3, <1>5, <3>2, <4>1
      <4>3. v5[b] \in FileTabs
        BY <1>1, <1>2, <4>1 DEF FileStarted, File!Settled
      <4> QED BY <1>1, <4>1, <4>2, <4>3
    <3> QED BY <3>1, <3>2
  <2>3. ASSUME NEW b \in File!Attempts, v5[b] # None, b \notin v8', v7'[b] # "done" PROVE v3'[v5[b]] = b
    <3>1. b \notin v8 /\ v7[b] # "done" /\ (b = a => p # "done")
      BY <1>4, <2>3
    <3>2. v3[v5[b]] = b /\ v5[b] \in FileTabs
      BY <1>1, <1>2, <2>3, <3>1 DEF FileNewest
    <3> QED BY <1>1, <3>1, <3>2
  <2> QED BY <1>2, <2>1, <2>2, <2>3 DEF FileNewest
<1> QED BY <1>6, <1>7, <1>8 DEF FileOrder

(* Attempts that go on are undisturbed when one is aborted. *)
LEMMA FileStays ==
  ASSUME FileOrder, v3' = v3, v5' = v5, v6' = v6, v7' = v7, v8 \subseteq v8', \A a \in v8' : v5[a] # None
  PROVE  FileOrder'
BY DEF FileOrder, FileStarted, FileLine, FileNewest, File!Settled

(* connectFileWithDiagnostics: the new attempt waits for the one it replaces. *)
LEMMA FileBegin ==
  ASSUME FileSound, NEW c \in FileTabs, NEW a \in File!Attempts, File!Begin(c, a)
  PROVE  FileSound'
<1>1. /\ v7 \in [File!Attempts -> {"none", "waiting"} \cup FilePhases] /\ v5 \in [File!Attempts -> FileTabs \cup {None}]
      /\ v3 \in [FileTabs -> File!Attempts \cup {None}] /\ v6 \in [File!Attempts -> File!Attempts \cup {None}]
      /\ v8 \subseteq File!Attempts
  BY DEF FileSound, File!Inv, File!TypeOK, File!MaybeAttempt, FilePhases
<1>2. File!Attempts \subseteq Nat /\ None \notin Nat /\ None \notin FileTabs
  BY ConnectionsConstants DEF File!Attempts
<1>3. FileStarted /\ FileLine /\ FileNewest /\ File!TypeOK /\ FileCalls /\ FileAsked /\ FileLives
      /\ File!ConnectedIsLive /\ File!AbortedLeavesNothing /\ File!SpinnerHasAttempt
  BY DEF FileSound, FileOrder, File!Inv
<1>4. /\ v5[a] = None /\ v7[a] = "none" /\ v5' = [v5 EXCEPT ![a] = c] /\ v6' = [v6 EXCEPT ![a] = v3[c]]
      /\ v7' = [v7 EXCEPT ![a] = "waiting"] /\ v3' = [v3 EXCEPT ![c] = a]
      /\ v4' = [v4 EXCEPT ![c] = "connecting"] /\ v1' = [v1 EXCEPT ![c] = "connecting"]
      /\ v8' = IF v3[c] = None THEN v8 ELSE v8 \cup {v3[c]}
      /\ UNCHANGED <<v2, v9, v10, v11, v12, v13, v15, v16, v17, v18>>
  BY <1>3 DEF File!Begin, File!Abort, File!dlgVars, File!backVars, FileStarted
<1>5. \A b \in File!Attempts : v5[b] # None => b < a
  BY <1>3, <1>4 DEF FileStarted
<1>6. \A b \in File!Attempts \ {a} : v5'[b] = v5[b] /\ v6'[b] = v6[b] /\ v7'[b] = v7[b]
                                    /\ (File!Settled(b)' <=> File!Settled(b))
  BY <1>1, <1>4 DEF File!Settled
<1>7. v5'[a] = c /\ v6'[a] = v3[c] /\ v7'[a] = "waiting" /\ v3'[c] = a /\ \A d \in FileTabs \ {c} : v3'[d] = v3[d]
  BY <1>1, <1>4
<1>8. v3[c] # None => v5[v3[c]] = c /\ v3[c] < a /\ v3[c] \in File!Attempts /\ \A b \in File!Attempts : v5[b] = c => b <= v3[c]
  BY <1>1, <1>2, <1>3, <1>5 DEF FileNewest
<1>9. FileStarted'
  <2>1. ASSUME NEW x \in File!Attempts PROVE v5'[x] = None <=> v7'[x] = "none"
    BY <1>2, <1>3, <1>6, <1>7 DEF FileStarted
  <2>2. ASSUME NEW x \in File!Attempts, NEW y \in File!Attempts, v5'[x] = None, v5'[y] # None PROVE y < x
    <3>1. x # a /\ v5[x] = None
      BY <1>2, <1>6, <1>7, <2>2
    <3>2. CASE y # a
      BY <1>3, <1>6, <2>2, <3>1, <3>2 DEF FileStarted
    <3>3. CASE y = a
      <4>1. a > 1 => v5[a - 1] # None
        BY DEF File!Begin
      <4>2. a > 1 => a - 1 \in File!Attempts
        BY ConnectionsConstants DEF File!Attempts
      <4>3. a > 1 => a - 1 < x
        BY <1>3, <3>1, <4>1, <4>2 DEF FileStarted
      <4>4. a \in Nat /\ x \in Nat /\ 0 < x
        BY ConnectionsConstants DEF File!Attempts
      <4> QED BY <3>1, <3>3, <4>3, <4>4
    <3> QED BY <3>2, <3>3
  <2>3. ASSUME NEW x \in v8' PROVE v5'[x] # None
    BY <1>1, <1>2, <1>3, <1>4, <1>6, <1>7, <1>8 DEF FileStarted
  <2>4. ASSUME NEW x \in File!Attempts, v6'[x] # None PROVE v6'[x] < x /\ v5'[v6'[x]] = v5'[x] /\ v5'[x] # None
    <3>1. CASE x = a
      BY <1>2, <1>6, <1>7, <1>8, <2>4, <3>1
    <3>2. CASE x # a
      <4>1. v6[x] < x /\ v5[v6[x]] = v5[x] /\ v5[x] # None /\ v6[x] \in File!Attempts
        BY <1>1, <1>3, <1>6, <2>4, <3>2 DEF FileStarted
      <4> QED BY <1>4, <1>6, <3>2, <4>1
    <3> QED BY <3>1, <3>2
  <2> QED BY <2>1, <2>2, <2>3, <2>4 DEF FileStarted
<1>10. FileLine'
  <2> SUFFICES ASSUME NEW x \in File!Attempts, NEW y \in File!Attempts, x < y, v5'[x] = v5'[y], ~File!Settled(x)'
               PROVE  /\ v7'[y] = "waiting" /\ v6'[y] # None
                      /\ v6'[y] = x \/ (x < v6'[y] /\ v7'[v6'[y]] = "waiting")
    BY DEF FileLine
  <2>1. v5'[x] # None /\ v5'[y] # None
    BY <1>9 DEF FileStarted, File!Settled
  <2>2. x # a
    BY <1>2, <1>5, <1>6, <2>1
  <2>3. ~File!Settled(x) /\ v5[x] = v5'[y]
    BY <1>6, <2>2
  <2>4. CASE y = a
    <3>1. v3[c] # None /\ x <= v3[c]
      BY <1>3, <1>7, <1>8, <2>3, <2>4 DEF FileNewest
    <3>2. CASE x = v3[c]
      BY <1>7, <2>4, <3>1, <3>2
    <3>3. CASE x # v3[c]
      <4>0. v5[x] = c /\ v5[v3[c]] = c /\ v3[c] \in File!Attempts /\ v3[c] < a
        BY <1>7, <1>8, <2>3, <2>4, <3>1
      <4>1. x < v3[c] /\ v3[c] # a
        <5>1. x \in Nat /\ v3[c] \in Nat /\ a \in Nat
          BY <1>2, <4>0
        <5> QED BY <3>1, <3>3, <4>0, <5>1
      <4>2. v7[v3[c]] = "waiting"
        BY <1>3, <2>3, <4>0, <4>1 DEF FileLine
      <4> QED BY <1>6, <1>7, <2>4, <3>1, <4>0, <4>1, <4>2
    <3> QED BY <3>2, <3>3
  <2>5. CASE y # a
    <3>1. /\ v7[y] = "waiting" /\ v6[y] # None
          /\ v6[y] = x \/ (x < v6[y] /\ v7[v6[y]] = "waiting")
      BY <1>3, <1>6, <2>3, <2>5 DEF FileLine
    <3>2. v6[y] # a
      BY <1>3, <1>4, <3>1 DEF FileStarted
    <3> QED BY <1>1, <1>6, <2>5, <3>1, <3>2
  <2> QED BY <2>4, <2>5
<1>11. FileNewest'
  <2>1. ASSUME NEW d \in FileTabs, v3'[d] # None
        PROVE  v5'[v3'[d]] = d /\ v7'[v3'[d]] # "done" /\ \A b \in File!Attempts : v5'[b] = d => b <= v3'[d]
    <3>1. CASE d = c
      BY <1>2, <1>5, <1>6, <1>7, <3>1
    <3>2. CASE d # c
      <4>1. v3'[d] = v3[d] /\ v5[v3[d]] = d /\ v7[v3[d]] # "done" /\ v3[d] \in File!Attempts
            /\ \A b \in File!Attempts : v5[b] = d => b <= v3[d]
        BY <1>1, <1>3, <1>7, <2>1, <3>2 DEF FileNewest
      <4>2. v3[d] # a
        BY <1>2, <1>4, <4>1
      <4> QED BY <1>6, <1>7, <3>2, <4>1, <4>2
    <3> QED BY <3>1, <3>2
  <2>2. ASSUME NEW b \in File!Attempts, ~File!Settled(b)' PROVE v3'[v5'[b]] # None
    <3>1. CASE b = a
      BY <1>2, <1>7, <3>1
    <3>2. CASE b # a
      <4>1. v5'[b] = v5[b] /\ v3[v5[b]] # None /\ v5[b] # None
        BY <1>3, <1>6, <2>2, <3>2 DEF FileNewest, FileStarted, File!Settled
      <4>2. v5[b] \in FileTabs
        BY <1>1, <4>1
      <4> QED BY <1>2, <1>7, <4>1, <4>2
    <3> QED BY <3>1, <3>2
  <2>3. ASSUME NEW b \in File!Attempts, v5'[b] # None, b \notin v8', v7'[b] # "done" PROVE v3'[v5'[b]] = b
    <3>1. CASE b = a
      BY <1>7, <3>1
    <3>2. CASE b # a
      <4>1. v5'[b] = v5[b] /\ v3[v5[b]] = b /\ v5[b] \in FileTabs
        BY <1>1, <1>3, <1>4, <1>6, <2>3, <3>2 DEF FileNewest
      <4>2. v5[b] # c
        BY <1>2, <1>4, <2>3, <4>1
      <4> QED BY <1>7, <4>1, <4>2
    <3> QED BY <3>1, <3>2
  <2> QED BY <2>1, <2>2, <2>3 DEF FileNewest
<1>12. FileCalls'
  <2> SUFFICES ASSUME NEW b \in File!Attempts
               PROVE  /\ v7'[b] \in {"none", "waiting", "clearing", "cleared"} => v15[b] = "none"
                      /\ v7'[b] = "listening" => v15[b] \in {"none", "hostKey"}
                      /\ v7'[b] = "calling" => v15[b] # "none"
                      /\ v7'[b] = "undoing" => v15[b] = "ok" /\ b \in v8'
                      /\ v7'[b] = "trust" => v15[b] = "hostKey"
                      /\ v7'[b] = "done" => v15[b] \in FileDone
    BY <1>4 DEF FileCalls
  <2>1. CASE b = a
    BY <1>3, <1>4, <1>7, <2>1 DEF FileCalls
  <2>2. CASE b # a
    BY <1>3, <1>4, <1>6, <2>2 DEF FileCalls
  <2> QED BY <2>1, <2>2
<1>13. FileAsked'
  <2>1. v9 # None => v9 # a /\ v9 \in File!Attempts
    BY <1>3, <1>4 DEF FileAsked, File!TypeOK, File!MaybeAttempt
  <2> QED BY <1>3, <1>4, <1>6, <2>1 DEF FileAsked
<1>14. FileLives'
  <2>0. v18 \in [FileTabs -> File!Attempts \cup {None}] /\ v1 \in [FileTabs -> {"closed", "connecting", "connected", "disconnected"}]
    BY <1>3 DEF File!TypeOK, File!MaybeAttempt
  <2>1. ASSUME NEW d \in FileTabs, v18[d] # None PROVE v5'[v18[d]] = d /\ v15[v18[d]] \in {"inserted", "ok"}
    <3>1. v5[v18[d]] = d /\ v15[v18[d]] \in {"inserted", "ok"} /\ v18[d] \in File!Attempts
      BY <1>3, <2>0, <2>1 DEF FileLives
    <3> QED BY <1>2, <1>4, <1>6, <3>1
  <2>2. ASSUME NEW d \in FileTabs, v1'[d] = "connected" PROVE v3'[d] = None
    <3>1. d # c /\ v1[d] = "connected"
      BY <1>4, <2>0, <2>2
    <3> QED BY <1>3, <1>7, <3>1 DEF FileLives
  <2>3. ASSUME NEW b \in File!Attempts, v7'[b] = "calling", v15[b] \in {"inserted", "ok"}, b \notin v8', v3'[v5'[b]] = b,
               v2[v5'[b]] = "no", v1'[v5'[b]] # "closed"
        PROVE  v18[v5'[b]] = b
    <3>1. b # a /\ v7[b] = "calling" /\ v5'[b] = v5[b]
      BY <1>6, <1>7, <2>3
    <3>2. v5[b] \in FileTabs /\ b \notin v8
      BY <1>1, <1>3, <1>4, <2>3, <3>1 DEF FileStarted
    <3>3. v5[b] # c /\ v3[v5[b]] = b /\ v1[v5[b]] # "closed"
      BY <1>4, <1>7, <2>0, <2>3, <3>1, <3>2
    <3> QED BY <1>3, <2>3, <3>1, <3>2, <3>3 DEF FileLives, File!Current
  <2> QED BY <1>4, <2>1, <2>2, <2>3 DEF FileLives, File!Current
<1>15. File!TypeOK'
  <2>1. v14' \in [FileTabs -> Nat]
    BY <1>3 DEF File!Begin, File!Abort, File!TypeOK
  <2> QED BY <1>3, <1>4, <2>1 DEF File!TypeOK, File!MaybeAttempt
<1>16. File!ConnectedIsLive'
  BY <1>3, <1>4 DEF File!ConnectedIsLive, File!TypeOK
<1>17. File!AbortedLeavesNothing'
  <2> SUFFICES ASSUME NEW b \in v8', v7'[b] = "done" PROVE v18[v5'[b]] # b
    BY <1>4 DEF File!AbortedLeavesNothing
  <2>1. b # a /\ b \in File!Attempts /\ v7[b] = "done" /\ v5'[b] = v5[b]
    BY <1>1, <1>2, <1>4, <1>6, <1>7, <1>8
  <2>2. b \in v8
    BY <1>3, <1>4, <2>1 DEF FileNewest
  <2> QED BY <1>3, <2>1, <2>2 DEF File!AbortedLeavesNothing
<1>18. File!SpinnerHasAttempt'
  <2> SUFFICES ASSUME NEW d \in FileTabs,
                      v4'[d] \in {"connecting", "awaitingHostKey"} \/ (v1'[d] = "connecting" /\ v2[d] = "no")
               PROVE  v3'[d] # None /\ v3'[d] \notin v8' /\ v3'[v5'[v3'[d]]] = v3'[d]
    BY <1>4 DEF File!SpinnerHasAttempt, File!Current
  <2>1. CASE d = c
    <3>1. a \notin v8'
      BY <1>2, <1>3, <1>4, <1>8 DEF FileStarted
    <3> QED BY <1>2, <1>7, <2>1, <3>1
  <2>2. CASE d # c
    <3>1. v4'[d] = v4[d] /\ v1'[d] = v1[d] /\ v3'[d] = v3[d]
      BY <1>3, <1>4, <1>7, <2>2 DEF File!TypeOK
    <3>2. v3[d] # None /\ v3[d] \notin v8 /\ v5[v3[d]] = d /\ v3[d] \in File!Attempts
      BY <1>1, <1>3, <3>1 DEF File!SpinnerHasAttempt, File!Current, FileNewest
    <3>3. v3[d] # a /\ v3[d] \notin v8'
      BY <1>2, <1>4, <1>8, <2>2, <3>2
    <3> QED BY <1>6, <3>1, <3>2, <3>3
  <2> QED BY <2>1, <2>2
<1>19. File!OneCommandPerConnection'
  BY <1>9, <1>10, <1>15, FileOneCommand, PTL
<1> QED BY <1>9, <1>10, <1>11, <1>12, <1>13, <1>14, <1>15, <1>16, <1>17, <1>18, <1>19 DEF FileSound, FileOrder, File!Inv

LEMMA FileTypes ==
  FileSound => /\ v1 \in [FileTabs -> {"closed", "connecting", "connected", "disconnected"}]
               /\ v3 \in [FileTabs -> File!Attempts \cup {None}] /\ v5 \in [File!Attempts -> FileTabs \cup {None}]
               /\ v4 \in [FileTabs -> {"none", "connecting", "awaitingHostKey", "failed", "connected"}]
               /\ v7 \in [File!Attempts -> {"none", "waiting"} \cup FilePhases]
               /\ v15 \in [File!Attempts -> {"sent", "dialing", "inserted"} \cup FileDone]
               /\ v18 \in [FileTabs -> File!Attempts \cup {None}] /\ v8 \subseteq File!Attempts
               /\ None \notin File!Attempts /\ None \notin FileTabs
               /\ v9 \in File!Attempts \cup {None}
BY ConnectionsConstants DEF FileSound, File!Inv, File!TypeOK, File!MaybeAttempt, FilePhases, FileDone, File!Attempts

(* Of the attempts of one connection only one is neither settled nor waiting. *)
LEMMA FileOneOnWay ==
  FileSound => \A a, b \in File!Attempts :
                 v5[a] = v5[b] /\ ~File!Settled(a) /\ ~File!Settled(b) /\ v7[a] # "waiting" /\ v7[b] # "waiting" => a = b
<1> SUFFICES ASSUME FileLine, NEW a \in File!Attempts, NEW b \in File!Attempts, v5[a] = v5[b],
                    ~File!Settled(a), ~File!Settled(b), v7[a] # "waiting", v7[b] # "waiting"
             PROVE  a = b
  BY DEF FileSound, FileOrder
<1>1. ~(a < b) /\ ~(b < a)
  BY DEF FileLine
<1> QED BY <1>1, ConnectionsConstants DEF File!Attempts

(* An attempt on its way is its connection's session unless it was aborted. *)
LEMMA FileOnWay ==
  FileSound => \A a \in File!Attempts : ~File!Settled(a) =>
                 /\ v5[a] \in FileTabs /\ v3[v5[a]] # None
                 /\ ~File!Current(a) => a \in v8
<1> SUFFICES ASSUME FileSound, NEW a \in File!Attempts, ~File!Settled(a)
             PROVE  v5[a] \in FileTabs /\ v3[v5[a]] # None /\ (~File!Current(a) => a \in v8)
  OBVIOUS
<1>1. FileStarted /\ FileNewest /\ v5[a] \in FileTabs \cup {None}
  BY FileTypes DEF FileSound, FileOrder
<1>2. v5[a] # None /\ v7[a] # "done"
  BY <1>1 DEF FileStarted, File!Settled
<1> QED BY <1>1, <1>2 DEF FileNewest, File!Current

(* An attempt that goes on. *)
LEMMA FileGoesOn ==
  ASSUME FileSound, NEW a \in File!Attempts, NEW p \in {"clearing", "cleared", "listening", "calling", "undoing"}, NEW r,
         ~File!Settled(a), v7' = [v7 EXCEPT ![a] = p],
         v7[a] = "waiting" => v6[a] \in {None} \cup {b \in File!Attempts : File!Settled(b)},
         UNCHANGED <<v1, v2, v3, v4, v5, v6, v8, v9, v10, v11, v12, v13, v14>>, v15' = [v15 EXCEPT ![a] = r],
         p \in {"clearing", "cleared"} => r = "none", p = "listening" => r \in {"none", "hostKey"},
         p = "calling" => r = "sent", p = "undoing" => r = "ok" /\ a \in v8,
         r # v15[a] => v15[a] \notin {"inserted", "ok"},
         v18' = v18 \/ (v7[a] = "clearing" /\ v18' = [v18 EXCEPT ![v5[a]] = None]),
         v16' \in [FileTabs -> File!MaybeAttempt], v17' \subseteq File!Attempts
  PROVE  FileSound'
<1>1. v5[a] \in FileTabs /\ v3[v5[a]] # None /\ v7[a] \notin {"none", "trust", "done"}
  BY FileOnWay DEF File!Settled
<1>2. FileOrder /\ FileCalls /\ FileAsked /\ FileLives /\ File!TypeOK /\ File!ConnectedIsLive
      /\ File!AbortedLeavesNothing /\ File!SpinnerHasAttempt
  BY DEF FileSound, File!Inv
<1>3. /\ v7'[a] = p /\ v15'[a] = r /\ r \in {"none", "hostKey", "sent", "ok"}
      /\ \A b \in File!Attempts \ {a} : v7'[b] = v7[b] /\ v15'[b] = v15[b]
  BY FileTypes
<1>4. \A d \in FileTabs : v18'[d] # None => v18'[d] = v18[d]
  BY FileTypes
<1>5. FileOrder'
  <2>1. v5[a] # None /\ p \in FilePhases /\ v7[a] # "done"
    BY <1>1, FileTypes DEF FilePhases
  <2>2. p # "done"
    OBVIOUS
  <2> QED BY <1>2, <2>1, <2>2, FileMoves
<1>6. FileCalls'
  <2> SUFFICES ASSUME NEW b \in File!Attempts
               PROVE  /\ v7'[b] \in {"none", "waiting", "clearing", "cleared"} => v15'[b] = "none"
                      /\ v7'[b] = "listening" => v15'[b] \in {"none", "hostKey"}
                      /\ v7'[b] = "calling" => v15'[b] # "none"
                      /\ v7'[b] = "undoing" => v15'[b] = "ok" /\ b \in v8
                      /\ v7'[b] = "trust" => v15'[b] = "hostKey"
                      /\ v7'[b] = "done" => v15'[b] \in FileDone
    BY DEF FileCalls
  <2>1. CASE b = a
    BY <1>3, <2>1
  <2>2. CASE b # a
    BY <1>2, <1>3, <2>2 DEF FileCalls
  <2> QED BY <2>1, <2>2
<1>7. FileAsked'
  BY <1>1, <1>2, <1>3, FileTypes DEF FileAsked
<1>8. FileLives'
  <2>1. ASSUME NEW d \in FileTabs, v18'[d] # None PROVE v5[v18'[d]] = d /\ v15'[v18'[d]] \in {"inserted", "ok"}
    <3>1. v18'[d] = v18[d] /\ v5[v18[d]] = d /\ v15[v18[d]] \in {"inserted", "ok"} /\ v18[d] \in File!Attempts
      BY <1>2, <1>4, <2>1, FileTypes DEF FileLives
    <3> QED BY <1>3, <3>1
  <2>2. ASSUME NEW b \in File!Attempts, v7'[b] = "calling", v15'[b] \in {"inserted", "ok"}, File!Current(b),
               v2[v5[b]] = "no", v1[v5[b]] # "closed"
        PROVE  v18'[v5[b]] = b
    <3>1. b # a /\ v7[b] = "calling" /\ v15[b] \in {"inserted", "ok"}
      BY <1>3, <2>2
    <3>2. v18[v5[b]] = b
      BY <1>2, <2>2, <3>1 DEF FileLives
    <3>3. v7[a] = "clearing" => v5[a] # v5[b]
      BY <1>1, <3>1, FileOneOnWay DEF File!Settled
    <3>4. v5[b] \in FileTabs
      BY <3>1, FileOnWay DEF File!Settled
    <3> QED BY <3>2, <3>3, <3>4, FileTypes
  <2> QED BY <1>2, <2>1, <2>2 DEF FileLives, File!Current
<1>9. File!TypeOK'
  <2>1. v7' \in [File!Attempts -> {"none", "waiting", "clearing", "cleared", "listening", "calling",
                                   "undoing", "trust", "done"}]
    BY FileTypes DEF FilePhases
  <2>2. v15' \in [File!Attempts -> {"none", "sent", "dialing", "inserted", "ok", "cancelled", "hostKey", "failed"}]
    BY <1>3, FileTypes DEF FileDone
  <2>3. v18' \in [FileTabs -> File!MaybeAttempt]
    BY FileTypes DEF File!MaybeAttempt
  <2> QED BY <1>2, <2>1, <2>2, <2>3 DEF File!TypeOK
<1>10. File!ConnectedIsLive'
  <2> SUFFICES ASSUME NEW d \in FileTabs, v1[d] = "connected", v2[d] = "no" PROVE v18'[d] # None
    BY DEF File!ConnectedIsLive
  <2>1. v18[d] # None /\ v3[d] = None
    BY <1>2 DEF File!ConnectedIsLive, FileLives
  <2> QED BY <1>1, <2>1, FileTypes
<1>11. File!AbortedLeavesNothing'
  <2> SUFFICES ASSUME NEW b \in v8, v7'[b] = "done" PROVE v18'[v5[b]] # b
    BY DEF File!AbortedLeavesNothing
  <2>1. b # a /\ b \in File!Attempts /\ v7[b] = "done" /\ v18[v5[b]] # b
    BY <1>2, <1>3, FileTypes DEF File!AbortedLeavesNothing
  <2>2. v5[b] \in FileTabs
    BY <1>2, <2>1, FileTypes DEF FileOrder, FileStarted
  <2> QED BY <1>4, <2>1, <2>2, FileTypes
<1>12. File!SpinnerHasAttempt'
  BY <1>2 DEF File!SpinnerHasAttempt, File!Current
<1>13. File!OneCommandPerConnection'
  BY <1>5, <1>9, FileOneCommand, PTL DEF FileOrder
<1> QED BY <1>5, <1>6, <1>7, <1>8, <1>9, <1>10, <1>11, <1>12, <1>13 DEF FileSound, File!Inv

(* An attempt that resolves, with or without an answer that is still wanted. *)
LEMMA FileResolves ==
  ASSUME FileSound, NEW a \in File!Attempts, ~File!Settled(a), File!Resolve(a),
         v7[a] = "waiting" => v6[a] \in {None} \cup {b \in File!Attempts : File!Settled(b)},
         UNCHANGED <<v2, v5, v6, v8, v10, v11, v12, v14, v15>>, v15[a] \in FileDone,
         \/ ~File!Current(a) /\ UNCHANGED <<v1, v4>>
         \/ /\ File!Current(a) /\ v18' = v18
            /\ \E status \in {"connected", "disconnected"}, told \in {"none", "failed", "connected"} :
                 /\ v1' = [v1 EXCEPT ![v5[a]] = IF @ = "closed" THEN @ ELSE status]
                 /\ v4' = [v4 EXCEPT ![v5[a]] = told]
                 /\ status = "connected" => v7[a] = "calling" /\ v15[a] = "ok",
         v18' = v18 \/ (v7[a] = "undoing" /\ v18' = [v18 EXCEPT ![v5[a]] = None]),
         a \in v8 => v18'[v5[a]] # a,
         v16' \in [FileTabs -> File!MaybeAttempt], v17' \subseteq File!Attempts
  PROVE  FileSound'
<1>1. v5[a] \in FileTabs /\ v3[v5[a]] # None /\ v7[a] \notin {"none", "trust", "done"} /\ (~File!Current(a) <=> a \in v8)
  BY FileOnWay DEF File!Settled, File!Current
<1>2. FileOrder /\ FileCalls /\ FileAsked /\ FileLives /\ File!TypeOK /\ File!ConnectedIsLive
      /\ File!AbortedLeavesNothing /\ File!SpinnerHasAttempt
  BY DEF FileSound, File!Inv
<1>3. /\ v7' = [v7 EXCEPT ![a] = "done"] /\ v9' \in {v9, None} /\ v13' \subseteq v13
      /\ v3' = IF v3[v5[a]] = a THEN [v3 EXCEPT ![v5[a]] = None] ELSE v3
  BY DEF File!Resolve
<1>4. v7'[a] = "done" /\ \A b \in File!Attempts \ {a} : v7'[b] = v7[b]
  BY <1>3, FileTypes
<1>5. \A d \in FileTabs : (v18'[d] # None => v18'[d] = v18[d]) /\ (v3'[d] # None => v3'[d] = v3[d])
                          /\ (v3[d] # None /\ v3[d] # a => v3'[d] = v3[d])
  BY <1>3, FileTypes
<1>6. FileOrder'
  <2>1. v5[a] # None /\ "done" \in FilePhases /\ v7[a] # "done"
    BY <1>1, FileTypes DEF FilePhases
  <2> QED BY <1>2, <1>3, <2>1, FileMoves
<1>7. FileCalls'
  <2> SUFFICES ASSUME NEW b \in File!Attempts
               PROVE  /\ v7'[b] \in {"none", "waiting", "clearing", "cleared"} => v15[b] = "none"
                      /\ v7'[b] = "listening" => v15[b] \in {"none", "hostKey"}
                      /\ v7'[b] = "calling" => v15[b] # "none"
                      /\ v7'[b] = "undoing" => v15[b] = "ok" /\ b \in v8
                      /\ v7'[b] = "trust" => v15[b] = "hostKey"
                      /\ v7'[b] = "done" => v15[b] \in FileDone
    BY DEF FileCalls
  <2>1. CASE b = a
    BY <1>4, <2>1
  <2>2. CASE b # a
    BY <1>2, <1>4, <2>2 DEF FileCalls
  <2> QED BY <2>1, <2>2
<1>8. FileAsked'
  BY <1>1, <1>2, <1>3, <1>4, FileTypes DEF FileAsked
<1>9. \A d \in FileTabs : /\ v1'[d] \in {"closed", "connected", "disconnected"} \/ v1'[d] = v1[d]
                          /\ v1'[d] = "closed" <=> v1[d] = "closed"
                          /\ d # v5[a] => v1'[d] = v1[d]
  BY <1>1, FileTypes
<1>10. ASSUME NEW d \in FileTabs, v1'[d] = "connected", v1[d] # "connected"
       PROVE  d = v5[a] /\ v7[a] = "calling" /\ v15[a] = "ok" /\ File!Current(a) /\ v18' = v18 /\ v1[d] # "closed"
  BY <1>1, <1>9, <1>10, FileTypes
<1>11. FileLives'
  <2>1. ASSUME NEW d \in FileTabs, v18'[d] # None PROVE v5[v18'[d]] = d /\ v15[v18'[d]] \in {"inserted", "ok"}
    BY <1>2, <1>5, <2>1 DEF FileLives
  <2>2. ASSUME NEW d \in FileTabs, v1'[d] = "connected" PROVE v3'[d] = None
    <3>1. CASE v1[d] = "connected"
      BY <1>2, <1>5, <3>1 DEF FileLives
    <3>2. CASE v1[d] # "connected"
      BY <1>3, <1>10, <2>2, <3>2, FileTypes DEF File!Current
    <3> QED BY <3>1, <3>2
  <2>3. ASSUME NEW b \in File!Attempts, v7'[b] = "calling", v15[b] \in {"inserted", "ok"}, b \notin v8, v3'[v5[b]] = b,
               v2[v5[b]] = "no", v1'[v5[b]] # "closed"
        PROVE  v18'[v5[b]] = b
    <3>1. b # a /\ v7[b] = "calling"
      BY <1>4, <2>3
    <3>2. v5[b] \in FileTabs /\ ~File!Settled(b)
      BY <3>1, FileOnWay DEF File!Settled
    <3>3. v3[v5[b]] = b /\ v1[v5[b]] # "closed"
      BY <1>5, <1>9, <2>3, <3>2, FileTypes
    <3>4. v18[v5[b]] = b
      BY <1>2, <2>3, <3>1, <3>3 DEF FileLives, File!Current
    <3>5. v7[a] = "undoing" => v5[a] # v5[b]
      BY <3>1, <3>2, FileOneOnWay
    <3> QED BY <3>2, <3>4, <3>5, FileTypes
  <2> QED BY <2>1, <2>2, <2>3 DEF FileLives, File!Current
<1>12. File!TypeOK'
  <2>1. v7' \in [File!Attempts -> {"none", "waiting", "clearing", "cleared", "listening", "calling",
                                   "undoing", "trust", "done"}]
    BY <1>3, FileTypes DEF FilePhases
  <2>2. v1' \in [FileTabs -> {"closed", "connecting", "connected", "disconnected"}]
        /\ v4' \in [FileTabs -> {"none", "connecting", "awaitingHostKey", "failed", "connected"}]
    BY <1>1, FileTypes
  <2>3. v18' \in [FileTabs -> File!MaybeAttempt] /\ v3' \in [FileTabs -> File!MaybeAttempt] /\ v9' \in File!MaybeAttempt
        /\ v13' \subseteq File!Attempts
    BY <1>2, <1>3, FileTypes DEF File!MaybeAttempt, File!TypeOK
  <2> QED BY <1>2, <2>1, <2>2, <2>3 DEF File!TypeOK
<1>13. File!ConnectedIsLive'
  <2> SUFFICES ASSUME NEW d \in FileTabs, v1'[d] = "connected", v2[d] = "no" PROVE v18'[d] # None
    BY DEF File!ConnectedIsLive
  <2>1. CASE v1[d] = "connected"
    <3>1. v18[d] # None /\ v3[d] = None
      BY <1>2, <2>1 DEF File!ConnectedIsLive, FileLives
    <3> QED BY <1>1, <3>1, FileTypes
  <2>2. CASE v1[d] # "connected"
    <3>1. v18[v5[a]] = a /\ v18' = v18 /\ d = v5[a]
      BY <1>2, <1>10, <2>2 DEF FileLives
    <3> QED BY <3>1, FileTypes
  <2> QED BY <2>1, <2>2
<1>14. File!AbortedLeavesNothing'
  <2> SUFFICES ASSUME NEW b \in v8, v7'[b] = "done" PROVE v18'[v5[b]] # b
    BY DEF File!AbortedLeavesNothing
  <2>1. CASE b = a
    BY <2>1
  <2>2. CASE b # a
    <3>1. b \in File!Attempts /\ v7[b] = "done" /\ v18[v5[b]] # b
      BY <1>2, <1>4, <2>2, FileTypes DEF File!AbortedLeavesNothing
    <3>2. v5[b] \in FileTabs
      BY <1>2, <3>1, FileTypes DEF FileOrder, FileStarted
    <3> QED BY <1>5, <3>1, <3>2, FileTypes
  <2> QED BY <2>1, <2>2
<1>15. File!SpinnerHasAttempt'
  <2> SUFFICES ASSUME NEW d \in FileTabs,
                      v4'[d] \in {"connecting", "awaitingHostKey"} \/ (v1'[d] = "connecting" /\ v2[d] = "no")
               PROVE  v3'[d] # None /\ v3'[d] \notin v8 /\ v3'[v5[v3'[d]]] = v3'[d]
    BY DEF File!SpinnerHasAttempt, File!Current
  <2>1. (v4'[d] = v4[d] /\ v1'[d] = v1[d]) /\ (d = v5[a] => ~File!Current(a))
    BY <1>1, FileTypes
  <2>2. v3[d] # None /\ v3[d] \notin v8 /\ v3[v5[v3[d]]] = v3[d] /\ v5[v3[d]] = d
    BY <1>2, <2>1 DEF File!SpinnerHasAttempt, File!Current, FileOrder, FileNewest
  <2>3. v3[d] # a
    BY <1>1, <2>1, <2>2
  <2> QED BY <1>5, <2>2, <2>3
<1>16. File!OneCommandPerConnection'
  BY <1>6, <1>12, FileOneCommand, PTL DEF FileOrder
<1> QED BY <1>6, <1>7, <1>8, <1>11, <1>12, <1>13, <1>14, <1>15, <1>16 DEF FileSound, File!Inv

(* The backend takes up a connect command, fails or connects, and answers. *)
LEMMA FileBackend ==
  ASSUME FileSound, NEW a \in File!Attempts, NEW r \in {"dialing", "cancelled", "hostKey", "failed", "inserted", "ok"},
         v15[a] \in {"sent", "dialing", "inserted"}, v15' = [v15 EXCEPT ![a] = r],
         v15[a] = "inserted" => r = "ok" /\ v18' = v18, v15[a] # "inserted" => r # "ok",
         IF r = "inserted" THEN v18' = [v18 EXCEPT ![v5[a]] = a] ELSE v18' = v18,
         UNCHANGED <<v1, v2, v3, v4, v5, v6, v7, v8, v9, v10, v11, v12, v13, v14>>,
         v16' \in [FileTabs -> File!MaybeAttempt], v17' \subseteq File!Attempts
  PROVE  FileSound'
<1>1. FileOrder /\ FileCalls /\ FileAsked /\ FileLives /\ File!TypeOK /\ File!ConnectedIsLive
      /\ File!AbortedLeavesNothing /\ File!SpinnerHasAttempt /\ File!OneCommandPerConnection
  BY DEF FileSound, File!Inv
<1>2. v7[a] = "calling"
  BY <1>1, FileTypes DEF FileCalls, FileDone, FilePhases
<1>3. v5[a] \in FileTabs /\ ~File!Settled(a)
  BY <1>2, FileOnWay DEF File!Settled
<1>4. v15'[a] = r /\ \A b \in File!Attempts \ {a} : v15'[b] = v15[b]
  BY FileTypes
<1>5. FileOrder' /\ FileAsked'
  BY <1>1 DEF FileOrder, FileStarted, FileLine, FileNewest, FileAsked, File!Settled
<1>6. FileCalls'
  BY <1>1, <1>2, <1>4 DEF FileCalls
<1>7. FileLives'
  <2>1. ASSUME NEW d \in FileTabs, v18'[d] # None PROVE v5[v18'[d]] = d /\ v15'[v18'[d]] \in {"inserted", "ok"}
    <3>1. CASE v18'[d] = a
      <4>1. CASE v18'[d] = v18[d]
        BY <1>1, <1>4, <2>1, <3>1, <4>1 DEF FileLives
      <4>2. CASE v18'[d] # v18[d]
        BY <1>3, <1>4, <3>1, <4>2, FileTypes
      <4> QED BY <4>1, <4>2
    <3>2. CASE v18'[d] # a
      <4>1. v18'[d] = v18[d] /\ v18[d] \in File!Attempts
        BY <1>3, <2>1, <3>2, FileTypes
      <4> QED BY <1>1, <1>4, <2>1, <3>2, <4>1 DEF FileLives
    <3> QED BY <3>1, <3>2
  <2>2. ASSUME NEW b \in File!Attempts, v7[b] = "calling", v15'[b] \in {"inserted", "ok"}, File!Current(b),
               v2[v5[b]] = "no", v1[v5[b]] # "closed"
        PROVE  v18'[v5[b]] = b
    <3>1. CASE b = a
      <4>1. CASE r = "inserted"
        BY <1>3, <3>1, <4>1, FileTypes
      <4>2. CASE r # "inserted"
        BY <1>1, <1>4, <2>2, <3>1, <4>2 DEF FileLives
      <4> QED BY <4>1, <4>2
    <3>2. CASE b # a
      <4>1. v5[a] # v5[b] /\ v18[v5[b]] = b
        BY <1>1, <1>2, <1>4, <2>2, <3>2 DEF FileLives, File!OneCommandPerConnection
      <4>2. v5[b] \in FileTabs
        BY <2>2, FileOnWay DEF File!Settled
      <4> QED BY <1>3, <4>1, <4>2, FileTypes
    <3> QED BY <3>1, <3>2
  <2> QED BY <1>1, <2>1, <2>2 DEF FileLives, File!Current
<1>8. File!TypeOK'
  <2>1. v15' \in [File!Attempts -> {"none", "sent", "dialing", "inserted", "ok", "cancelled", "hostKey", "failed"}]
    BY FileTypes DEF FileDone
  <2>2. v18' \in [FileTabs -> File!MaybeAttempt]
    BY <1>3, FileTypes DEF File!MaybeAttempt
  <2> QED BY <1>1, <2>1, <2>2 DEF File!TypeOK
<1>9. File!ConnectedIsLive'
  BY <1>1, <1>3, FileTypes DEF File!ConnectedIsLive
<1>10. File!AbortedLeavesNothing'
  <2> SUFFICES ASSUME NEW b \in v8, v7[b] = "done" PROVE v18'[v5[b]] # b
    BY DEF File!AbortedLeavesNothing
  <2>1. b # a /\ b \in File!Attempts /\ v18[v5[b]] # b
    BY <1>1, <1>2, FileTypes DEF File!AbortedLeavesNothing
  <2>2. v5[b] \in FileTabs
    BY <1>1, <2>1, FileTypes DEF FileOrder, FileStarted
  <2> QED BY <1>3, <2>1, <2>2, FileTypes
<1>11. File!SpinnerHasAttempt' /\ File!OneCommandPerConnection'
  BY <1>1 DEF File!SpinnerHasAttempt, File!OneCommandPerConnection, File!Current
<1> QED BY <1>5, <1>6, <1>7, <1>8, <1>9, <1>10, <1>11 DEF FileSound, File!Inv

(* handleTabClose ends the session the tab has. *)
LEMMA FileClose ==
  ASSUME FileSound, NEW c \in FileTabs, File!Close(c)
  PROVE  FileSound'
<1> DEFINE a == v3[c]
<1>1. FileOrder /\ FileCalls /\ FileAsked /\ FileLives /\ File!TypeOK /\ File!ConnectedIsLive
      /\ File!AbortedLeavesNothing /\ File!SpinnerHasAttempt
  BY DEF FileSound, File!Inv
<1>2. /\ v2' = [v2 EXCEPT ![c] = "asked"] /\ v4' = [v4 EXCEPT ![c] = "none"]
      /\ v8' = IF a = None THEN v8 ELSE v8 \cup {a}
      /\ v3' = IF a # None /\ File!Settled(a) THEN [v3 EXCEPT ![c] = None] ELSE v3
      /\ v7' = [b \in File!Attempts |-> IF b = a /\ File!Settled(b) THEN "done" ELSE v7[b]]
      /\ IF v10 = c THEN v9' = None /\ v10' = None /\ v11' = FALSE ELSE UNCHANGED <<v9, v10, v11>>
      /\ UNCHANGED <<v1, v5, v6, v12, v13, v15, v16, v17, v18>>
  BY DEF File!Close, File!Abort, File!backVars
<1>3. a # None => a \in File!Attempts /\ v5[a] = c /\ v7[a] # "done" /\ v7[a] # "none"
  BY <1>1, FileTypes DEF FileOrder, FileNewest, FileStarted
<1> HIDE DEF a
<1>4. \A b \in File!Attempts : v7'[b] = v7[b] \/ (b = a /\ v7[b] = "trust" /\ v7'[b] = "done")
  BY <1>2, <1>3, FileTypes DEF File!Settled
<1>5. FileOrder'
  <2>1. CASE a # None /\ File!Settled(a)
    <3>1. v7' = [v7 EXCEPT ![a] = "done"]
      BY <1>2, <1>3, <2>1, FileTypes
    <3>2. v3' = IF "done" = "done" /\ v3[v5[a]] = a THEN [v3 EXCEPT ![v5[a]] = None] ELSE v3
      BY <1>2, <1>3, <2>1 DEF a
    <3>3. v8' \subseteq v8 \cup {a} /\ v8 \subseteq v8' /\ v5[a] # None /\ v7[a] # "waiting"
      BY <1>2, <1>3, <2>1, FileTypes DEF File!Settled
    <3> QED BY <1>1, <1>2, <1>3, <2>1, <3>1, <3>2, <3>3, FileMoves DEF FilePhases
  <2>2. CASE ~(a # None /\ File!Settled(a))
    <3>1. v7' = v7 /\ v3' = v3
      BY <1>2, <1>3, <2>2, FileTypes
    <3>2. v8 \subseteq v8' /\ \A b \in v8' : v5[b] # None
      BY <1>1, <1>2, <1>3, FileTypes DEF FileOrder, FileStarted
    <3> QED BY <1>1, <1>2, <3>1, <3>2, FileStays
  <2> QED BY <2>1, <2>2
<1>6. FileCalls'
  BY <1>1, <1>2, <1>4 DEF FileCalls, FileDone
<1>7. FileAsked'
  <2> SUFFICES ASSUME v9' # None, v10 # c PROVE v10 = v5[v9] /\ v10 # None /\ (v11 \/ v12 => v7'[v9] = "trust")
    BY <1>2 DEF FileAsked
  <2>1. v9' = v9 /\ v10 = v5[v9] /\ v10 # None /\ (v11 \/ v12 => v7[v9] = "trust") /\ v9 \in File!Attempts
    BY <1>1, <1>2, FileTypes DEF FileAsked
  <2>2. v9 # a
    BY <1>3, <2>1, FileTypes
  <2> QED BY <1>4, <2>1, <2>2
<1>8. \A d \in FileTabs : (v3'[d] # None => v3'[d] = v3[d]) /\ (d # c => v3'[d] = v3[d]) /\ (v2'[d] = "no" => v2[d] = "no" /\ d # c)
  BY <1>1, <1>2, FileTypes DEF File!TypeOK
<1>9. FileLives'
  <2>1. ASSUME NEW d \in FileTabs, v1[d] = "connected" PROVE v3'[d] = None
    BY <1>1, <1>8, <2>1 DEF FileLives
  <2>2. ASSUME NEW b \in File!Attempts, v7'[b] = "calling", v15[b] \in {"inserted", "ok"}, b \notin v8', v3'[v5[b]] = b,
               v2'[v5[b]] = "no", v1[v5[b]] # "closed"
        PROVE  v18[v5[b]] = b
    <3>1. v7[b] = "calling" /\ b \notin v8 /\ v5[b] \in FileTabs
      BY <1>2, <1>4, <2>2, FileOnWay DEF File!Settled
    <3>2. v3[v5[b]] = b /\ v2[v5[b]] = "no"
      BY <1>8, <2>2, <3>1, FileTypes
    <3> QED BY <1>1, <2>2, <3>1, <3>2 DEF FileLives, File!Current
  <2> QED BY <1>1, <1>2, <2>1, <2>2 DEF FileLives, File!Current
<1>10. File!TypeOK'
  <2>1. v7' \in [File!Attempts -> {"none", "waiting", "clearing", "cleared", "listening", "calling",
                                   "undoing", "trust", "done"}]
    BY <1>2, FileTypes DEF FilePhases
  <2>2. v14' \in [FileTabs -> Nat]
    BY <1>1 DEF File!Close, File!Abort, File!TypeOK
  <2>3. v3' \in [FileTabs -> File!MaybeAttempt] /\ v8' \subseteq File!Attempts /\ v9' \in File!MaybeAttempt
        /\ v10' \in FileTabs \cup {None} /\ v11' \in BOOLEAN
    BY <1>1, <1>2, <1>3, FileTypes DEF File!TypeOK, File!MaybeAttempt
  <2>4. v2' \in [FileTabs -> {"no", "asked", "answered"}]
        /\ v4' \in [FileTabs -> {"none", "connecting", "awaitingHostKey", "failed", "connected"}]
    BY <1>1, <1>2 DEF File!TypeOK
  <2> QED BY <1>1, <1>2, <2>1, <2>2, <2>3, <2>4 DEF File!TypeOK
<1>11. File!ConnectedIsLive'
  BY <1>1, <1>2, <1>8 DEF File!ConnectedIsLive
<1>12. File!AbortedLeavesNothing'
  <2> SUFFICES ASSUME NEW b \in v8', v7'[b] = "done" PROVE v18[v5[b]] # b
    BY <1>2 DEF File!AbortedLeavesNothing
  <2>1. b \in File!Attempts
    BY <1>2, <1>3, FileTypes
  <2>2. CASE v7[b] = "trust"
    BY <1>1, <2>1, <2>2, FileTypes DEF FileCalls, FileLives, FileOrder, FileStarted
  <2>3. CASE v7[b] # "trust"
    BY <1>1, <1>2, <1>3, <1>4, <2>1, <2>3 DEF File!AbortedLeavesNothing
  <2> QED BY <2>2, <2>3
<1>13. File!SpinnerHasAttempt'
  <2> SUFFICES ASSUME NEW d \in FileTabs,
                      v4'[d] \in {"connecting", "awaitingHostKey"} \/ (v1[d] = "connecting" /\ v2'[d] = "no")
               PROVE  v3'[d] # None /\ v3'[d] \notin v8' /\ v3'[v5[v3'[d]]] = v3'[d]
    BY <1>2 DEF File!SpinnerHasAttempt, File!Current
  <2>1. d # c /\ v4'[d] = v4[d] /\ v3'[d] = v3[d]
    BY <1>2, <1>8, FileTypes
  <2>2. v3[d] # None /\ v3[d] \notin v8 /\ v5[v3[d]] = d
    BY <1>1, <1>8, <2>1 DEF File!SpinnerHasAttempt, File!Current, FileOrder, FileNewest
  <2>3. v3[d] # a
    BY <1>3, <2>1, <2>2
  <2> QED BY <1>2, <2>1, <2>2, <2>3
<1>14. File!OneCommandPerConnection'
  BY <1>5, <1>10, FileOneCommand, PTL DEF FileOrder
<1> QED BY <1>5, <1>6, <1>7, <1>9, <1>10, <1>11, <1>12, <1>13, <1>14 DEF FileSound, File!Inv

(* The disconnect of a tab that closes, and its removal. *)
LEMMA FileClosing ==
  ASSUME FileSound, NEW c \in FileTabs, File!Closed(c) \/ File!DisconnectTab(c)
  PROVE  FileSound'
<1>1. FileOrder /\ FileCalls /\ FileAsked /\ FileLives /\ File!TypeOK /\ File!ConnectedIsLive
      /\ File!AbortedLeavesNothing /\ File!SpinnerHasAttempt /\ File!OneCommandPerConnection
  BY DEF FileSound, File!Inv
<1>2. /\ UNCHANGED <<v3, v4, v5, v6, v7, v8, v9, v10, v11, v12, v13, v14, v15>>
      /\ \/ v2' = [v2 EXCEPT ![c] = "no"] /\ v1' = [v1 EXCEPT ![c] = "closed"] /\ v18' = v18
         \/ v2' = [v2 EXCEPT ![c] = "answered"] /\ v1' = v1 /\ v18' = [v18 EXCEPT ![c] = None]
  BY DEF File!Closed, File!DisconnectTab, File!Disconnect, File!attVars, File!dlgVars, File!backVars
<1>3. FileOrder' /\ FileAsked' /\ FileCalls' /\ File!OneCommandPerConnection'
  BY <1>1, <1>2 DEF FileOrder, FileStarted, FileLine, FileNewest, FileAsked, FileCalls, File!Settled, File!OneCommandPerConnection
<1>4. \A d \in FileTabs : /\ v18'[d] # None => v18'[d] = v18[d]
                          /\ v1'[d] # "closed" => v1'[d] = v1[d] /\ (v2'[d] = "no" => v2[d] = "no" /\ v18'[d] = v18[d])
  BY <1>1, <1>2 DEF File!TypeOK
<1>5. FileLives'
  <2>1. ASSUME NEW b \in File!Attempts, v7[b] = "calling", v15[b] \in {"inserted", "ok"}, File!Current(b),
               v2'[v5[b]] = "no", v1'[v5[b]] # "closed"
        PROVE  v18'[v5[b]] = b
    <3>1. v5[b] \in FileTabs
      BY <2>1, FileOnWay DEF File!Settled
    <3> QED BY <1>1, <1>4, <2>1, <3>1 DEF FileLives
  <2> QED BY <1>1, <1>2, <1>4, <2>1 DEF FileLives, File!Current
<1>6. File!TypeOK'
  <2>1. v16' \in [FileTabs -> File!MaybeAttempt] /\ v17' \subseteq File!Attempts
    BY <1>1, FileTypes DEF File!Closed, File!DisconnectTab, File!Disconnect, File!Revoke, File!TypeOK, File!MaybeAttempt, File!backVars
  <2>2. v18' \in [FileTabs -> File!MaybeAttempt]
    BY <1>2, FileTypes DEF File!MaybeAttempt
  <2>3. v1' \in [FileTabs -> {"closed", "connecting", "connected", "disconnected"}] /\ v2' \in [FileTabs -> {"no", "asked", "answered"}]
    BY <1>1, <1>2 DEF File!TypeOK
  <2> QED BY <1>1, <1>2, <2>1, <2>2, <2>3 DEF File!TypeOK
<1>7. File!ConnectedIsLive' /\ File!SpinnerHasAttempt'
  BY <1>1, <1>2, <1>4 DEF File!ConnectedIsLive, File!SpinnerHasAttempt, File!Current
<1>8. File!AbortedLeavesNothing'
  <2> SUFFICES ASSUME NEW b \in v8, v7[b] = "done" PROVE v18'[v5[b]] # b
    BY <1>2 DEF File!AbortedLeavesNothing
  <2>1. b \in File!Attempts /\ v18[v5[b]] # b /\ v5[b] \in FileTabs
    BY <1>1, FileTypes DEF File!AbortedLeavesNothing, FileOrder, FileStarted
  <2> QED BY <1>4, <2>1, FileTypes
<1> QED BY <1>3, <1>5, <1>6, <1>7, <1>8 DEF FileSound, File!Inv

(* What neither moves an attempt nor shows a tab. *)
LEMMA FileQuiet ==
  ASSUME FileSound, UNCHANGED <<v1, v2, v3, v4, v5, v6, v7, v8, v15, v18>>, FileAsked',
         v9' \in {v9, None}, v10' = v10, v11' \in BOOLEAN, v12' \in BOOLEAN, v13' \subseteq v13,
         v14' \in [FileTabs -> Nat], v16' \in [FileTabs -> File!MaybeAttempt], v17' \subseteq File!Attempts
  PROVE  FileSound'
<1>1. FileOrder /\ FileCalls /\ FileLives /\ File!TypeOK /\ File!ConnectedIsLive
      /\ File!AbortedLeavesNothing /\ File!SpinnerHasAttempt /\ File!OneCommandPerConnection
  BY DEF FileSound, File!Inv
<1>2. FileOrder' /\ FileCalls' /\ FileLives'
  BY <1>1 DEF FileOrder, FileStarted, FileLine, FileNewest, FileCalls, FileLives, File!Settled, File!Current
<1>3. File!TypeOK'
  BY <1>1 DEF File!TypeOK, File!MaybeAttempt
<1>4. File!ConnectedIsLive' /\ File!AbortedLeavesNothing' /\ File!SpinnerHasAttempt' /\ File!OneCommandPerConnection'
  BY <1>1 DEF File!ConnectedIsLive, File!AbortedLeavesNothing, File!SpinnerHasAttempt, File!OneCommandPerConnection,
              File!Current
<1> QED BY <1>2, <1>3, <1>4 DEF FileSound, File!Inv

(* An attempt comes to ask about a host key, is retried, or is refused: it is current. *)
LEMMA FileTrusts ==
  ASSUME FileSound, NEW a \in File!Attempts, v3[v5[a]] = a, v5[a] # None, a \notin v8, v15[a] = "hostKey",
         NEW p \in {"trust", "listening", "done"}, v7' = [v7 EXCEPT ![a] = p],
         v7[a] # "waiting", v7[a] # "done", UNCHANGED <<v2, v5, v6, v14, v15, v16, v17, v18>>,
         v8' = IF p = "done" THEN v8 \cup {a} ELSE v8, FileAsked', v13' \subseteq File!Attempts, v9' \in {a, None, v9},
         v10' \in FileTabs \cup {None}, v11' \in BOOLEAN, v12' \in BOOLEAN,
         v3' = IF p = "done" THEN [v3 EXCEPT ![v5[a]] = None] ELSE v3,
         v1' = IF p = "done" THEN [v1 EXCEPT ![v5[a]] = "disconnected"] ELSE v1,
         \E told \in {"none", "awaitingHostKey", "connecting"} :
           v4' = [v4 EXCEPT ![v5[a]] = told] /\ (p = "done" => told = "none")
  PROVE  FileSound'
<1>1. FileOrder /\ FileCalls /\ FileAsked /\ FileLives /\ File!TypeOK /\ File!ConnectedIsLive
      /\ File!AbortedLeavesNothing /\ File!SpinnerHasAttempt
  BY DEF FileSound, File!Inv
<1>2. v5[a] \in FileTabs
  BY FileTypes
<1>3. v7'[a] = p /\ \A b \in File!Attempts \ {a} : v7'[b] = v7[b]
  BY FileTypes
<1>4. \A d \in FileTabs : /\ v3'[d] # None => v3'[d] = v3[d]
                          /\ d # v5[a] => v3'[d] = v3[d] /\ v1'[d] = v1[d] /\ v4'[d] = v4[d]
                          /\ v1'[d] = v1[d] \/ v1'[d] = "disconnected"
  BY <1>2, FileTypes
<1>5. FileOrder'
  <2>1. v3' = IF p = "done" /\ v3[v5[a]] = a THEN [v3 EXCEPT ![v5[a]] = None] ELSE v3
    BY <1>2
  <2>2. v8' \subseteq v8 \cup {a} /\ v8 \subseteq v8' /\ p \in FilePhases
    BY DEF FilePhases
  <2> QED BY <1>1, <2>1, <2>2, FileMoves
<1>6. FileCalls'
  <2> SUFFICES ASSUME NEW b \in File!Attempts
               PROVE  /\ v7'[b] \in {"none", "waiting", "clearing", "cleared"} => v15[b] = "none"
                      /\ v7'[b] = "listening" => v15[b] \in {"none", "hostKey"}
                      /\ v7'[b] = "calling" => v15[b] # "none"
                      /\ v7'[b] = "undoing" => v15[b] = "ok" /\ b \in v8'
                      /\ v7'[b] = "trust" => v15[b] = "hostKey"
                      /\ v7'[b] = "done" => v15[b] \in FileDone
    BY DEF FileCalls
  <2>1. CASE b = a
    BY <1>3, <2>1 DEF FileDone
  <2>2. CASE b # a
    BY <1>1, <1>3, <2>2 DEF FileCalls
  <2> QED BY <2>1, <2>2
<1>7. FileLives'
  <2>1. ASSUME NEW d \in FileTabs, v1'[d] = "connected" PROVE v3'[d] = None
    BY <1>1, <1>4, <2>1 DEF FileLives
  <2>2. ASSUME NEW b \in File!Attempts, v7'[b] = "calling", v15[b] \in {"inserted", "ok"}, b \notin v8', v3'[v5[b]] = b,
               v2[v5[b]] = "no", v1'[v5[b]] # "closed"
        PROVE  v18[v5[b]] = b
    <3>1. b # a /\ v7[b] = "calling" /\ b \notin v8 /\ v5[b] \in FileTabs
      BY <1>3, <2>2, FileOnWay DEF File!Settled
    <3>2. v3[v5[b]] = b /\ v5[b] # v5[a]
      BY <1>4, <2>2, <3>1, FileTypes
    <3>3. v1[v5[b]] # "closed"
      BY <1>4, <2>2, <3>1, <3>2
    <3> QED BY <1>1, <2>2, <3>1, <3>2, <3>3 DEF FileLives, File!Current
  <2> QED BY <1>1, <2>1, <2>2 DEF FileLives, File!Current
<1>8. File!TypeOK'
  <2>1. v7' \in [File!Attempts -> {"none", "waiting", "clearing", "cleared", "listening", "calling",
                                   "undoing", "trust", "done"}]
    BY FileTypes DEF FilePhases
  <2>2. v1' \in [FileTabs -> {"closed", "connecting", "connected", "disconnected"}]
        /\ v4' \in [FileTabs -> {"none", "connecting", "awaitingHostKey", "failed", "connected"}]
    BY <1>2, FileTypes
  <2>3. v3' \in [FileTabs -> File!MaybeAttempt] /\ v9' \in File!MaybeAttempt /\ v8' \subseteq File!Attempts
    BY <1>2, FileTypes DEF File!MaybeAttempt
  <2> QED BY <1>1, <2>1, <2>2, <2>3 DEF File!TypeOK
<1>9. File!ConnectedIsLive'
  BY <1>1, <1>4 DEF File!ConnectedIsLive
<1>10. File!AbortedLeavesNothing'
  <2> SUFFICES ASSUME NEW b \in v8', v7'[b] = "done" PROVE v18[v5[b]] # b
    BY DEF File!AbortedLeavesNothing
  <2>1. CASE b = a
    BY <1>1, <1>2, <2>1, FileTypes DEF FileLives
  <2>2. CASE b # a
    BY <1>1, <1>3, <2>2, FileTypes DEF File!AbortedLeavesNothing
  <2> QED BY <2>1, <2>2
<1>11. File!SpinnerHasAttempt'
  <2> SUFFICES ASSUME NEW d \in FileTabs,
                      v4'[d] \in {"connecting", "awaitingHostKey"} \/ (v1'[d] = "connecting" /\ v2[d] = "no")
               PROVE  v3'[d] # None /\ v3'[d] \notin v8' /\ v3'[v5[v3'[d]]] = v3'[d]
    BY DEF File!SpinnerHasAttempt, File!Current
  <2>1. CASE d = v5[a]
    <3>1. p # "done"
      BY <1>2, <2>1, FileTypes
    <3> QED BY <2>1, <3>1, FileTypes
  <2>2. CASE d # v5[a]
    <3>1. v3'[d] = v3[d] /\ v3[d] # None /\ v3[d] \notin v8 /\ v5[v3[d]] = d
      BY <1>1, <1>4, <2>2 DEF File!SpinnerHasAttempt, File!Current, FileOrder, FileNewest
    <3> QED BY <2>2, <3>1
  <2> QED BY <2>1, <2>2
<1>12. File!OneCommandPerConnection'
  BY <1>5, <1>8, FileOneCommand, PTL DEF FileOrder
<1> QED BY <1>5, <1>6, <1>7, <1>8, <1>9, <1>10, <1>11, <1>12 DEF FileSound, File!Inv

(* The answers to the host-key dialog. *)
LEMMA FileDialog ==
  ASSUME FileSound, File!Trust \/ File!Trusted \/ File!TrustFails \/ File!Distrust \/ File!Hide
  PROVE  FileSound'
<1> USE DEF File!uiVars, File!attVars, File!backVars
<1>1. FileAsked /\ File!TypeOK
  BY DEF FileSound, File!Inv
<1>2. /\ v11 \in BOOLEAN /\ v12 \in BOOLEAN /\ v10 \in FileTabs \cup {None} /\ v13 \subseteq File!Attempts
      /\ v14 \in [FileTabs -> Nat] /\ v16 \in [FileTabs -> File!MaybeAttempt] /\ v17 \subseteq File!Attempts
  BY <1>1 DEF File!TypeOK
<1>3. CASE File!Trust \/ File!TrustFails \/ File!Hide
  <2>1. FileAsked'
    BY <1>1, <1>3 DEF FileAsked, File!Trust, File!TrustFails, File!Hide
  <2> QED BY <1>2, <1>3, <2>1, FileQuiet DEF File!Trust, File!TrustFails, File!Hide
<1>4. ASSUME v11 \/ v12, v9 # None, File!Current(v9)
      PROVE  /\ v9 \in File!Attempts /\ v3[v5[v9]] = v9 /\ v9 \notin v8 /\ v7[v9] = "trust" /\ v15[v9] = "hostKey"
             /\ v5[v9] # None /\ v10 = v5[v9]
  <2>1. v9 \in File!Attempts /\ v7[v9] = "trust" /\ v10 = v5[v9] /\ v5[v9] # None
    BY <1>1, <1>4, FileTypes DEF FileAsked
  <2>2. v15[v9] = "hostKey"
    BY <2>1 DEF FileSound, FileCalls
  <2> QED BY <1>4, <2>1, <2>2 DEF File!Current
<1>5. CASE File!Trusted
  <2>1. CASE v9 # None /\ File!Current(v9)
    <3>1. FileAsked'
      BY <1>1, <1>5, <2>1 DEF FileAsked, File!Trusted
    <3>2. /\ v7' = [v7 EXCEPT ![v9] = "listening"] /\ v4' = [v4 EXCEPT ![v5[v9]] = "connecting"] /\ v13' = v13 \cup {v9}
          /\ v9' = v9 /\ v10' = v10 /\ v11' = FALSE /\ v12' = FALSE /\ v12
          /\ UNCHANGED <<v1, v2, v3, v5, v6, v8, v14, v15, v16, v17, v18>>
      BY <1>5, <2>1 DEF File!Trusted
    <3>3. v13' \subseteq File!Attempts
      BY <1>2, <1>4, <2>1, <3>2
    <3> QED BY <1>2, <1>4, <2>1, <3>1, <3>2, <3>3, FileTrusts
  <2>2. CASE ~(v9 # None /\ File!Current(v9))
    <3>1. FileAsked'
      BY <1>1, <1>5, <2>2 DEF FileAsked, File!Trusted
    <3> QED BY <1>2, <1>5, <2>2, <3>1, FileQuiet DEF File!Trusted
  <2> QED BY <2>1, <2>2
<1>6. CASE File!Distrust
  <2>1. CASE v9 # None /\ File!Current(v9)
    <3>1. FileAsked'
      BY <1>6, <2>1 DEF FileAsked, File!Distrust
    <3>2. /\ v7' = [v7 EXCEPT ![v9] = "done"] /\ v4' = [v4 EXCEPT ![v5[v9]] = "none"] /\ v8' = v8 \cup {v9}
          /\ v3' = [v3 EXCEPT ![v5[v9]] = None] /\ v1' = [v1 EXCEPT ![v5[v9]] = "disconnected"]
          /\ v9' = None /\ v11' = FALSE /\ v11
          /\ UNCHANGED <<v2, v5, v6, v10, v12, v13, v14, v15, v16, v17, v18>>
      BY <1>6, <2>1 DEF File!Distrust
    <3> QED BY <1>2, <1>4, <2>1, <3>1, <3>2, FileTrusts
  <2>2. CASE ~(v9 # None /\ File!Current(v9))
    <3>1. FileAsked'
      BY <1>6, <2>2 DEF FileAsked, File!Distrust
    <3> QED BY <1>2, <1>6, <2>2, <3>1, FileQuiet DEF File!Distrust
  <2> QED BY <2>1, <2>2
<1> QED BY <1>3, <1>5, <1>6

LEMMA FileStep == FileSound /\ [File!Next]_(File!vars) => FileSound'
<1> SUFFICES ASSUME FileSound, [File!Next]_(File!vars) PROVE FileSound'
  OBVIOUS
<1> USE DEF File!uiVars, File!attVars, File!dlgVars, File!backVars
<1>1. /\ v11 \in BOOLEAN /\ v12 \in BOOLEAN /\ v10 \in FileTabs \cup {None} /\ v13 \subseteq File!Attempts
      /\ v14 \in [FileTabs -> Nat] /\ v16 \in [FileTabs -> File!MaybeAttempt] /\ v17 \subseteq File!Attempts
      /\ FileAsked /\ FileCalls
  BY DEF FileSound, File!Inv, File!TypeOK
<1>2. CASE UNCHANGED File!vars
  <2>1. UNCHANGED <<v1, v2, v3, v4, v5, v6, v7, v8, v9, v10, v11, v12, v13, v14, v15, v16, v17, v18>>
    BY <1>2 DEF File!vars
  <2>2. FileAsked'
    BY <1>1, <2>1 DEF FileAsked
  <2> QED BY <1>1, <2>1, <2>2, FileQuiet
<1>3. CASE \E c \in FileTabs : File!CancelPending(c)
  <2>1. PICK c \in FileTabs : File!CancelPending(c)
    BY <1>3
  <2>2. UNCHANGED <<v1, v2, v3, v4, v5, v6, v7, v8, v9, v10, v11, v12, v13, v15, v18>>
    BY <2>1 DEF File!CancelPending
  <2>3. v14' \in [FileTabs -> Nat]
    BY <1>1, <2>1 DEF File!CancelPending
  <2>4. v16' \in [FileTabs -> File!MaybeAttempt] /\ v17' \subseteq File!Attempts
    BY <1>1, <2>1, FileTypes DEF File!CancelPending, File!Revoke, File!MaybeAttempt
  <2>5. FileAsked'
    BY <1>1, <2>2 DEF FileAsked
  <2> QED BY <1>1, <2>2, <2>3, <2>4, <2>5, FileQuiet
<1>4. CASE \E c \in FileTabs, a \in File!Attempts : File!Open(c, a) \/ File!Reconnect(c, a)
  BY <1>4, FileBegin DEF File!Open, File!Reconnect
<1>5. ASSUME NEW a \in File!Attempts, File!Connecting(a) PROVE FileSound'
  <2>0. v5[a] \in FileTabs /\ v15[a] \in {"sent", "dialing", "inserted"}
    <3>1. v15[a] \in {"sent", "dialing", "inserted"}
      BY <1>5 DEF File!Connecting, File!Register, File!DialFails, File!Dialed, File!ClearPending
    <3>2. v7[a] = "calling"
      BY <1>1, <3>1, FileTypes DEF FileCalls, FileDone, FilePhases
    <3> QED BY <3>1, <3>2, FileOnWay DEF File!Settled
  <2>1. /\ UNCHANGED <<v1, v2, v3, v4, v5, v6, v7, v8, v9, v10, v11, v12, v13, v14>>
        /\ v16' \in [FileTabs -> File!MaybeAttempt] /\ v17' \subseteq File!Attempts
    BY <1>1, <1>5, <2>0 DEF File!Connecting, File!Register, File!DialFails, File!Dialed, File!ClearPending, File!backOnly,
                      File!Clear, File!MaybeAttempt
  <2>2. \E r \in {"dialing", "cancelled", "hostKey", "failed", "inserted", "ok"} :
          /\ v15' = [v15 EXCEPT ![a] = r]
          /\ v15[a] = "inserted" => r = "ok" /\ v18' = v18
          /\ v15[a] # "inserted" => r # "ok"
          /\ IF r = "inserted" THEN v18' = [v18 EXCEPT ![v5[a]] = a] ELSE v18' = v18
    <3>1. CASE File!Register(a)
      BY <3>1 DEF File!Register, File!Replies
    <3>2. CASE File!DialFails(a)
      BY <3>2 DEF File!DialFails, File!Replies
    <3>3. CASE File!Dialed(a)
      BY <3>3 DEF File!Dialed, File!Replies
    <3>4. CASE File!ClearPending(a)
      BY <3>4 DEF File!ClearPending, File!Replies
    <3> QED BY <1>5, <3>1, <3>2, <3>3, <3>4 DEF File!Connecting
  <2> QED BY <2>0, <2>1, <2>2, FileBackend
<1>6. ASSUME NEW a \in File!Attempts, File!Attempt(a) PROVE FileSound'
  <2> USE DEF File!GiveUp
  <2>0. v15[a] \in {"none", "sent", "dialing", "inserted"} \cup FileDone /\ v15 = [v15 EXCEPT ![a] = v15[a]] /\ v18 = v18
    BY FileTypes DEF FileDone
  <2>1. CASE File!GoOn(a, "waiting", "clearing") /\ File!AfterPrevious(a)
    <3>0. v7[a] = "waiting" /\ v15[a] = "none" /\ ~File!Settled(a)
          /\ v6[a] \in {None} \cup {b \in File!Attempts : File!Settled(b)}
      BY <1>1, <2>1 DEF File!GoOn, File!AfterPrevious, FileCalls, File!Settled
    <3>1. CASE File!Current(a)
      BY <1>1, <2>0, <2>1, <3>0, <3>1, FileGoesOn DEF File!GoOn
    <3>2. CASE ~File!Current(a)
      <4>1. v18[v5[a]] # a
        BY <3>0, FileOnWay, FileTypes DEF FileSound, FileLives
      <4> QED BY <1>1, <2>1, <3>0, <3>2, <4>1, FileResolves DEF File!GoOn, FileDone
    <3> QED BY <3>1, <3>2
  <2>2. CASE File!Cleared(a)
    <3>0. v7[a] = "cleared" /\ v15[a] = "none" /\ ~File!Settled(a)
      BY <1>1, <2>2 DEF File!GoOn, File!Cleared, FileCalls, File!Settled
    <3>1. CASE File!Current(a)
      BY <1>1, <2>0, <2>2, <3>0, <3>1, FileGoesOn DEF File!GoOn, File!Cleared
    <3>2. CASE ~File!Current(a)
      <4>1. v18[v5[a]] # a
        BY <3>0, FileOnWay, FileTypes DEF FileSound, FileLives
      <4> QED BY <1>1, <2>2, <3>0, <3>2, <4>1, FileResolves DEF File!GoOn, File!Cleared, FileDone
    <3> QED BY <3>1, <3>2
  <2>3. CASE File!KeyUnreadable(a)
    <3>1. ~File!Settled(a) /\ v7[a] = "listening" /\ v15[a] = "none" /\ File!Current(a) /\ a \notin v8
      BY <2>3 DEF File!KeyUnreadable, File!Settled, File!Current
    <3> QED BY <1>1, <2>3, <3>1, FileResolves DEF File!KeyUnreadable, File!Report, FileDone
  <2>4. CASE File!Call(a)
    <3>0. v7[a] = "listening" /\ v15[a] \in {"none", "hostKey"} /\ ~File!Settled(a)
      BY <1>1, <2>4 DEF File!Call, FileCalls, File!Settled
    <3>1. CASE a \notin v8
      BY <1>1, <2>4, <3>0, <3>1, FileGoesOn DEF File!Call
    <3>2. CASE a \in v8
      <4>1. v18[v5[a]] # a /\ ~File!Current(a)
        BY <3>0, <3>2, FileOnWay, FileTypes DEF FileSound, FileLives, File!Current
      <4> QED BY <1>1, <2>4, <3>0, <3>2, <4>1, FileResolves DEF File!Call, FileDone
    <3> QED BY <3>1, <3>2
  <2>5. CASE File!Answer(a)
    <3>0. v7[a] = "calling" /\ v15[a] \in {"ok", "cancelled", "failed"} /\ ~File!Settled(a)
      BY <2>5 DEF File!Answer, File!Settled
    <3>1. CASE a \in v8 /\ v15[a] = "ok"
      BY <1>1, <2>0, <2>5, <3>0, <3>1, FileGoesOn DEF File!Answer
    <3>2. CASE ~(a \in v8 /\ v15[a] = "ok") /\ ~File!Current(a)
      <4>1. v18[v5[a]] # a
        BY <3>0, <3>2, FileOnWay, FileTypes DEF FileSound, FileLives
      <4> QED BY <1>1, <2>5, <3>0, <3>2, <4>1, FileResolves DEF File!Answer, FileDone
    <3>3. CASE File!Current(a)
      <4>1. \E status \in {"connected", "disconnected"}, told \in {"none", "failed", "connected"} :
              File!Report(a, status, told) /\ (status = "connected" => v15[a] = "ok")
        BY <2>5, <3>0, <3>3 DEF File!Answer, File!Current
      <4>2. UNCHANGED <<v2, v5, v6, v8, v14, v15, v16, v17, v18>> /\ a \notin v8
        BY <2>5, <3>3 DEF File!Answer, File!Current
      <4> QED BY <1>1, <3>0, <3>3, <4>1, <4>2, FileResolves DEF File!Report, FileDone
    <3> QED BY <3>1, <3>2, <3>3
  <2>6. CASE File!AskTrust(a)
    <3>0. v7[a] = "calling" /\ v15[a] = "hostKey" /\ ~File!Settled(a)
      BY <2>6 DEF File!AskTrust, File!Settled
    <3>1. CASE a \in v8
      <4>1. v18[v5[a]] # a /\ ~File!Current(a)
        BY <3>0, <3>1, FileOnWay, FileTypes DEF FileSound, FileLives, File!Current
      <4> QED BY <1>1, <2>6, <3>0, <3>1, <4>1, FileResolves DEF File!AskTrust, FileDone
    <3>2. CASE a \notin v8
      <4>1. v3[v5[a]] = a /\ v5[a] \in FileTabs /\ v5[a] # None
        BY <3>0, <3>2, FileOnWay, FileTypes DEF File!Current
      <4>2. /\ v7' = [v7 EXCEPT ![a] = "trust"] /\ v4' = [v4 EXCEPT ![v5[a]] = "awaitingHostKey"] /\ v9' = a /\ v10' = v5[a]
            /\ v11' = TRUE /\ v13' = v13 \ {a} /\ UNCHANGED <<v1, v2, v3, v5, v6, v8, v12, v14, v15, v16, v17, v18>>
        BY <2>6, <3>2 DEF File!AskTrust
      <4>3. FileAsked' /\ v13' \subseteq File!Attempts
        BY <1>1, <4>1, <4>2, FileTypes DEF FileAsked
      <4> QED BY <1>1, <3>0, <3>2, <4>1, <4>2, <4>3, FileTrusts
    <3> QED BY <3>1, <3>2
  <2>7. CASE File!DisconnectFirst(a)
    <3>0. v7[a] = "clearing" /\ v15[a] = "none" /\ ~File!Settled(a) /\ v5[a] \in FileTabs
      BY <1>1, <2>7, FileOnWay DEF File!DisconnectFirst, FileCalls, File!Settled
    <3>1. v16' \in [FileTabs -> File!MaybeAttempt] /\ v17' \subseteq File!Attempts
      BY <1>1, <2>7, <3>0, FileTypes DEF File!DisconnectFirst, File!Disconnect, File!Revoke, File!MaybeAttempt
    <3>2. /\ v7' = [v7 EXCEPT ![a] = "cleared"] /\ v15' = v15 /\ v18' = [v18 EXCEPT ![v5[a]] = None]
          /\ UNCHANGED <<v1, v2, v3, v4, v5, v6, v8, v9, v10, v11, v12, v13, v14>>
      BY <2>7 DEF File!DisconnectFirst, File!Disconnect
    <3> QED BY <2>0, <3>0, <3>1, <3>2, FileGoesOn
  <2>8. CASE File!DisconnectLate(a)
    <3>0. v7[a] = "undoing" /\ v15[a] = "ok" /\ ~File!Settled(a) /\ v5[a] \in FileTabs /\ a \in v8 /\ ~File!Current(a)
      BY <1>1, <2>8, FileOnWay DEF File!DisconnectLate, FileCalls, File!Settled, File!Current
    <3>1. v16' \in [FileTabs -> File!MaybeAttempt] /\ v17' \subseteq File!Attempts
      BY <1>1, <2>8, <3>0, FileTypes DEF File!DisconnectLate, File!Disconnect, File!Revoke, File!MaybeAttempt
    <3>2. v18' = [v18 EXCEPT ![v5[a]] = None] /\ v18'[v5[a]] # a
      BY <2>8, <3>0, FileTypes DEF File!DisconnectLate, File!Disconnect
    <3> QED BY <1>1, <2>8, <3>0, <3>1, <3>2, FileResolves DEF File!DisconnectLate, File!Disconnect, FileDone
  <2> QED BY <1>6, <2>1, <2>2, <2>3, <2>4, <2>5, <2>6, <2>7, <2>8 DEF File!Attempt, File!AfterPrevious
<1> QED BY <1>2, <1>3, <1>4, <1>5, <1>6, FileClose, FileClosing, FileDialog
        DEF File!Next, File!User, File!TrustAnswers, File!Ending, File!Runs

(***************************************************************************)
(* Terminal tabs: one attempt of a session at a time                       *)
(***************************************************************************)
SshActive == v12 \cup v13   \* the dialogs that are open or await trust_host_key

(* The user starts one attempt of a session at a time, so that only one runs; a dialog *)
(* asks for an attempt that waits for it while no other of its session runs.           *)
SshOrder ==
  /\ \A a \in Ssh!Attempts : v5[a] = None <=> v7[a] = "none"
  /\ \A a, b \in Ssh!Attempts : v5[a] = v5[b] /\ ~Ssh!Over(a) /\ ~Ssh!Over(b) => a = b
  /\ \A d \in SshActive : v11[d] # None =>
       /\ v7[v11[d]] = "trust"
       /\ \A b \in Ssh!Attempts : v5[b] = v5[v11[d]] => Ssh!Over(b)
  /\ \A d \in Ssh!Dialogs : v11[d] # None => v5[v11[d]] # None /\ (v6[v11[d]] = "form" <=> d = "form")
  /\ \A d, e \in SshActive : d # e /\ v11[d] # None /\ v11[e] # None => v5[v11[d]] # v5[v11[e]]

(* handleReconnect hides the terminal before it drops the session. *)
SshHidden == \A a \in Ssh!Attempts : v7[a] = "dropping" => v1[v5[a]] \in {"none", "pending"}

SshSound == Ssh!Inv /\ SshOrder /\ SshHidden

LEMMA SshTypes ==
  Ssh!TypeOK => /\ v5 \in [Ssh!Attempts -> SshTabs \cup {None}] /\ v6 \in [Ssh!Attempts -> Ssh!Kinds]
                /\ v7 \in [Ssh!Attempts -> {"none", "credentials", "dropping", "key", "listening", "calling",
                                            "saving", "trust", "done"}]
                /\ v11 \in [Ssh!Dialogs -> Ssh!Attempts \cup {None}] /\ v12 \subseteq Ssh!Dialogs /\ v13 \subseteq Ssh!Dialogs
                /\ None \notin Ssh!Attempts /\ None \notin SshTabs
                /\ v1 \in [SshTabs -> {"none", "pending", "connecting", "connected", "disconnected"}]
BY ConnectionsConstants DEF Ssh!TypeOK, Ssh!Attempts

LEMMA SshInit == Ssh!Init => SshSound
<1> SUFFICES ASSUME Ssh!Init PROVE SshSound
  OBVIOUS
<1> USE ConnectionsConstants DEF Ssh!Init
<1>1. Ssh!TypeOK
  BY DEF Ssh!TypeOK, Ssh!Kinds
<1>2. Ssh!ConnectedIsLive
  BY DEF Ssh!ConnectedIsLive
<1>3. SshOrder
  BY DEF SshOrder, SshActive, Ssh!Over
<1>4. SshHidden
  BY DEF SshHidden
<1> QED BY <1>1, <1>2, <1>3, <1>4 DEF SshSound, Ssh!Inv

(* An attempt that runs goes on or ends, and with it perhaps the question it answered. *)
LEMMA SshMoves ==
  ASSUME Ssh!TypeOK, SshOrder, NEW a \in Ssh!Attempts, ~Ssh!Over(a),
         NEW p \in {"credentials", "dropping", "key", "listening", "calling", "saving", "done"},
         v7' = [v7 EXCEPT ![a] = p], UNCHANGED <<v5, v6, v12, v13>>,
         \A d \in Ssh!Dialogs : v11'[d] \in {v11[d], None}
  PROVE  SshOrder'
<1>1. v7'[a] = p /\ \A b \in Ssh!Attempts \ {a} : v7'[b] = v7[b] /\ (Ssh!Over(b)' <=> Ssh!Over(b))
  BY SshTypes DEF Ssh!Over
<1>2. v5[a] # None
  BY DEF SshOrder, Ssh!Over
<1>3. \A b \in Ssh!Attempts : v5'[b] = None <=> v7'[b] = "none"
  BY <1>1, <1>2 DEF SshOrder
<1>4. \A x, y \in Ssh!Attempts : v5'[x] = v5'[y] /\ ~Ssh!Over(x)' /\ ~Ssh!Over(y)' => x = y
  BY <1>1 DEF SshOrder
<1>5. ASSUME NEW d \in SshActive', v11'[d] # None
      PROVE  v7'[v11'[d]] = "trust" /\ \A b \in Ssh!Attempts : v5'[b] = v5'[v11'[d]] => Ssh!Over(b)'
  <2>1. v11'[d] = v11[d] /\ d \in SshActive /\ v11[d] \in Ssh!Attempts
    BY <1>5, SshTypes DEF SshActive
  <2>2. v7[v11[d]] = "trust" /\ \A b \in Ssh!Attempts : v5[b] = v5[v11[d]] => Ssh!Over(b)
    BY <1>5, <2>1 DEF SshOrder
  <2>3. v5[a] # v5[v11[d]]
    BY <2>2
  <2> QED BY <1>1, <2>1, <2>2, <2>3
<1>6. ASSUME NEW d \in Ssh!Dialogs, v11'[d] # None
      PROVE  v5'[v11'[d]] # None /\ (v6'[v11'[d]] = "form" <=> d = "form")
  BY <1>6 DEF SshOrder
<1>7. ASSUME NEW d \in SshActive', NEW e \in SshActive', d # e, v11'[d] # None, v11'[e] # None
      PROVE  v5'[v11'[d]] # v5'[v11'[e]]
  BY <1>7, SshTypes DEF SshActive, SshOrder
<1> QED BY <1>3, <1>4, <1>5, <1>6, <1>7 DEF SshOrder

(* The answer that a host key is unknown opens a dialog for its attempt. *)
LEMMA SshAsks ==
  ASSUME Ssh!TypeOK, SshOrder, NEW a \in Ssh!Attempts, v7[a] = "calling", v7' = [v7 EXCEPT ![a] = "trust"],
         v11' = [v11 EXCEPT ![Ssh!DialogOf(a)] = a], v12' = v12 \cup {Ssh!DialogOf(a)}, UNCHANGED <<v5, v6, v13>>
  PROVE  SshOrder'
<1> DEFINE k == Ssh!DialogOf(a)
<1>0. k \in Ssh!Dialogs /\ (k = "form" <=> v6[a] = "form")
  BY DEF Ssh!DialogOf, Ssh!Dialogs
<1>1. /\ v7'[a] = "trust" /\ Ssh!Over(a)' /\ v5[a] # None /\ ~Ssh!Over(a)
      /\ \A b \in Ssh!Attempts \ {a} : v7'[b] = v7[b] /\ (Ssh!Over(b)' <=> Ssh!Over(b))
  BY SshTypes DEF Ssh!Over, SshOrder
<1>2. v11'[k] = a /\ \A d \in Ssh!Dialogs \ {k} : v11'[d] = v11[d] /\ (d \in SshActive' => d \in SshActive)
  BY <1>0, SshTypes DEF SshActive
<1>3. \A b \in Ssh!Attempts : v5[b] = v5[a] /\ b # a => Ssh!Over(b)
  BY <1>1 DEF SshOrder
<1> HIDE DEF k
<1>4. \A b \in Ssh!Attempts : v5'[b] = None <=> v7'[b] = "none"
  BY <1>1 DEF SshOrder
<1>5. \A x, y \in Ssh!Attempts : v5'[x] = v5'[y] /\ ~Ssh!Over(x)' /\ ~Ssh!Over(y)' => x = y
  BY <1>1 DEF SshOrder
<1>6. ASSUME NEW d \in SshActive, d \in Ssh!Dialogs, d # k, v11[d] # None
      PROVE  /\ v7'[v11[d]] = "trust" /\ \A b \in Ssh!Attempts : v5[b] = v5[v11[d]] => Ssh!Over(b)'
             /\ v5[v11[d]] # v5[a]
  <2>1. v11[d] \in Ssh!Attempts /\ v7[v11[d]] = "trust" /\ \A b \in Ssh!Attempts : v5[b] = v5[v11[d]] => Ssh!Over(b)
    BY <1>6, SshTypes DEF SshOrder
  <2>2. v5[v11[d]] # v5[a]
    BY <1>1, <2>1
  <2> QED BY <1>1, <2>1, <2>2
<1>7. ASSUME NEW d \in SshActive', v11'[d] # None
      PROVE  v7'[v11'[d]] = "trust" /\ \A b \in Ssh!Attempts : v5'[b] = v5'[v11'[d]] => Ssh!Over(b)'
  <2>1. d \in Ssh!Dialogs
    BY <1>0, SshTypes DEF SshActive, k
  <2>2. CASE d = k
    BY <1>1, <1>2, <1>3, <2>2
  <2>3. CASE d # k
    BY <1>2, <1>6, <1>7, <2>1, <2>3
  <2> QED BY <2>2, <2>3
<1>8. ASSUME NEW d \in Ssh!Dialogs, v11'[d] # None
      PROVE  v5'[v11'[d]] # None /\ (v6'[v11'[d]] = "form" <=> d = "form")
  BY <1>0, <1>1, <1>2, <1>8 DEF SshOrder
<1>9. ASSUME NEW d \in SshActive', NEW e \in SshActive', d # e, v11'[d] # None, v11'[e] # None
      PROVE  v5'[v11'[d]] # v5'[v11'[e]]
  <2>1. d \in Ssh!Dialogs /\ e \in Ssh!Dialogs
    BY <1>0, SshTypes DEF SshActive, k
  <2>2. CASE d = k
    BY <1>2, <1>6, <1>9, <2>1, <2>2
  <2>3. CASE e = k
    BY <1>2, <1>6, <1>9, <2>1, <2>3
  <2>4. CASE d # k /\ e # k
    BY <1>2, <1>9, <2>1, <2>4 DEF SshOrder
  <2> QED BY <2>2, <2>3, <2>4
<1> QED BY <1>4, <1>5, <1>7, <1>8, <1>9 DEF SshOrder

(* Attempts stay where they are; a dialog may close or forget its question. *)
LEMMA SshQuiet ==
  ASSUME Ssh!TypeOK, SshOrder, UNCHANGED <<v5, v6, v7>>, SshActive' \subseteq SshActive,
         \A d \in Ssh!Dialogs : v11'[d] \in {v11[d], None}
  PROVE  SshOrder'
<1>1. SshActive \subseteq Ssh!Dialogs
  BY SshTypes DEF SshActive
<1>2. \A d \in SshActive' : d \in SshActive /\ d \in Ssh!Dialogs
  BY <1>1
<1>3. ASSUME NEW d \in SshActive', v11'[d] # None
      PROVE  v7[v11'[d]] = "trust" /\ \A b \in Ssh!Attempts : v5[b] = v5[v11'[d]] => Ssh!Over(b)
  BY <1>2, <1>3 DEF SshOrder
<1>4. ASSUME NEW d \in Ssh!Dialogs, v11'[d] # None
      PROVE  v5[v11'[d]] # None /\ (v6[v11'[d]] = "form" <=> d = "form")
  BY <1>4 DEF SshOrder
<1>5. ASSUME NEW d \in SshActive', NEW e \in SshActive', d # e, v11'[d] # None, v11'[e] # None
      PROVE  v5[v11'[d]] # v5[v11'[e]]
  BY <1>2, <1>5 DEF SshOrder
<1> QED BY <1>3, <1>4, <1>5 DEF SshOrder, Ssh!Over

(* The answer to a dialog moves the attempt it asks for, and closes the dialog. *)
LEMMA SshDecides ==
  ASSUME Ssh!TypeOK, SshOrder, NEW d \in SshActive, v11[d] # None, NEW p \in {"listening", "done"},
         v7' = [v7 EXCEPT ![v11[d]] = p], SshActive' \subseteq SshActive \ {d}, UNCHANGED <<v5, v6>>,
         \A e \in Ssh!Dialogs : v11'[e] \in {v11[e], None}
  PROVE  SshOrder'
<1> DEFINE a == v11[d]
<1>1. /\ d \in Ssh!Dialogs /\ a \in Ssh!Attempts /\ v7[a] = "trust" /\ v5[a] # None
      /\ \A b \in Ssh!Attempts : v5[b] = v5[a] => Ssh!Over(b)
  BY SshTypes DEF SshOrder, SshActive
<1>2. v7'[a] = p /\ \A b \in Ssh!Attempts \ {a} : v7'[b] = v7[b] /\ (Ssh!Over(b)' <=> Ssh!Over(b))
  BY <1>1, SshTypes DEF Ssh!Over
<1>3. \A e \in SshActive' : e \in SshActive /\ e \in Ssh!Dialogs /\ e # d
  BY SshTypes DEF SshActive
<1> HIDE DEF a
<1>4. \A b \in Ssh!Attempts : v5'[b] = None <=> v7'[b] = "none"
  BY <1>1, <1>2 DEF SshOrder
<1>5. \A x, y \in Ssh!Attempts : v5'[x] = v5'[y] /\ ~Ssh!Over(x)' /\ ~Ssh!Over(y)' => x = y
  BY <1>1, <1>2 DEF SshOrder
<1>6. ASSUME NEW e \in SshActive', v11'[e] # None
      PROVE  v7'[v11'[e]] = "trust" /\ \A b \in Ssh!Attempts : v5'[b] = v5'[v11'[e]] => Ssh!Over(b)'
  <2>1. e \in SshActive /\ e # d /\ v11'[e] = v11[e] /\ v11[e] \in Ssh!Attempts
    BY <1>3, <1>6, SshTypes
  <2>2. v7[v11[e]] = "trust" /\ (\A b \in Ssh!Attempts : v5[b] = v5[v11[e]] => Ssh!Over(b)) /\ v5[a] # v5[v11[e]]
    BY <1>6, <2>1 DEF SshOrder, a
  <2> QED BY <1>2, <2>1, <2>2
<1>7. ASSUME NEW e \in Ssh!Dialogs, v11'[e] # None
      PROVE  v5'[v11'[e]] # None /\ (v6'[v11'[e]] = "form" <=> e = "form")
  BY <1>7 DEF SshOrder
<1>8. ASSUME NEW e \in SshActive', NEW f \in SshActive', e # f, v11'[e] # None, v11'[f] # None
      PROVE  v5'[v11'[e]] # v5'[v11'[f]]
  BY <1>3, <1>8 DEF SshOrder
<1> QED BY <1>4, <1>5, <1>6, <1>7, <1>8 DEF SshOrder

LEMMA SshStart ==
  ASSUME Ssh!TypeOK, SshOrder, NEW a \in Ssh!Attempts, NEW s \in SshTabs, NEW k \in Ssh!Kinds, Ssh!Start(a, s, k)
  PROVE  SshOrder'
<1>1. /\ v7[a] = "none" /\ v5' = [v5 EXCEPT ![a] = s] /\ v6' = [v6 EXCEPT ![a] = k] /\ v7' = [v7 EXCEPT ![a] = "credentials"]
      /\ UNCHANGED <<v11, v12, v13>> /\ v12 = {} /\ v13 = {}
      /\ \A b \in Ssh!Attempts : v5[b] = s => Ssh!Over(b)
  BY DEF Ssh!Start, Ssh!Idle, Ssh!Move, Ssh!dlgVars
<1>2. /\ v7'[a] = "credentials" /\ v5'[a] = s /\ v5[a] = None
      /\ \A b \in Ssh!Attempts \ {a} : v7'[b] = v7[b] /\ v5'[b] = v5[b] /\ v6'[b] = v6[b] /\ (Ssh!Over(b)' <=> Ssh!Over(b))
  BY <1>1, SshTypes DEF Ssh!Over, SshOrder
<1>3. \A b \in Ssh!Attempts : v5'[b] = None <=> v7'[b] = "none"
  BY <1>2, SshTypes DEF SshOrder
<1>4. \A x, y \in Ssh!Attempts : v5'[x] = v5'[y] /\ ~Ssh!Over(x)' /\ ~Ssh!Over(y)' => x = y
  BY <1>1, <1>2 DEF SshOrder
<1>5. \A d \in Ssh!Dialogs : v11'[d] # None => v5'[v11'[d]] # None /\ (v6'[v11'[d]] = "form" <=> d = "form")
  <2> SUFFICES ASSUME NEW d \in Ssh!Dialogs, v11[d] # None
               PROVE  v5'[v11[d]] # None /\ (v6'[v11[d]] = "form" <=> d = "form")
    BY <1>1
  <2>1. v5[v11[d]] # None /\ (v6[v11[d]] = "form" <=> d = "form") /\ v11[d] \in Ssh!Attempts
    BY SshTypes DEF SshOrder
  <2>2. v11[d] # a
    BY <1>2, <2>1
  <2> QED BY <1>2, <2>1, <2>2
<1> QED BY <1>1, <1>3, <1>4, <1>5 DEF SshOrder, SshActive

(* Every step keeps the order of the attempts and their dialogs. *)
LEMMA SshKeepsOrder == Ssh!TypeOK /\ SshOrder /\ [Ssh!Next]_(Ssh!vars) => SshOrder'
<1> SUFFICES ASSUME Ssh!TypeOK, SshOrder, [Ssh!Next]_(Ssh!vars) PROVE SshOrder'
  OBVIOUS
<1> USE DEF Ssh!uiVars, Ssh!dlgVars, Ssh!formVars, Ssh!attVars
<1> DEFINE Places == {"credentials", "dropping", "key", "listening", "calling", "saving", "done"}
           Moves(a) == /\ ~Ssh!Over(a) /\ UNCHANGED <<v5, v6, v12, v13>>
                       /\ \E p \in Places : v7' = [v7 EXCEPT ![a] = p]
                       /\ \A d \in Ssh!Dialogs : v11'[d] \in {v11[d], None}
           Quiet == /\ UNCHANGED <<v5, v6, v7>> /\ SshActive' \subseteq SshActive
                    /\ \A d \in Ssh!Dialogs : v11'[d] \in {v11[d], None}
<1>1. ASSUME NEW a \in Ssh!Attempts, Moves(a) PROVE SshOrder'
  BY <1>1, SshMoves
<1>2. ASSUME Quiet PROVE SshOrder'
  BY <1>2, SshQuiet
<1>3. ASSUME NEW a \in Ssh!Attempts,
             \/ Ssh!Show(a) \/ Ssh!NoCredentials(a) \/ Ssh!Drop(a) \/ Ssh!BeginAttempt(a) \/ Ssh!NoKey(a)
             \/ Ssh!Submit(a) \/ Ssh!Invalid(a) \/ Ssh!Call(a) \/ Ssh!Saved(a) \/ Ssh!SaveFails(a)
      PROVE  Moves(a)
  <2>1. ~Ssh!Over(a) /\ UNCHANGED <<v5, v6, v11, v12, v13>>
    BY <1>3 DEF Ssh!Show, Ssh!NoCredentials, Ssh!Drop, Ssh!BeginAttempt, Ssh!NoKey, Ssh!Submit,
                Ssh!Invalid, Ssh!Call, Ssh!Saved, Ssh!SaveFails, Ssh!Over
  <2>2. \E p \in Places : v7' = [v7 EXCEPT ![a] = p]
    BY <1>3 DEF Ssh!Show, Ssh!NoCredentials, Ssh!Drop, Ssh!BeginAttempt, Ssh!NoKey, Ssh!Submit,
                Ssh!Invalid, Ssh!Call, Ssh!Saved, Ssh!SaveFails, Ssh!Move
  <2> QED BY <2>1, <2>2
<1>4. ASSUME NEW a \in Ssh!Attempts,
             \/ Ssh!Success(a) \/ Ssh!Failure(a) \/ Ssh!FormSuccess(a) \/ Ssh!FormFailure(a)
             \/ Ssh!Unknown(a) /\ a \in v10
      PROVE  Moves(a)
  <2>1. ~Ssh!Over(a) /\ UNCHANGED <<v5, v6, v12, v13>>
    BY <1>4 DEF Ssh!Success, Ssh!Failure, Ssh!FormSuccess, Ssh!FormFailure, Ssh!Unknown, Ssh!Answered, Ssh!Over
  <2>2. \E p \in Places : v7' = [v7 EXCEPT ![a] = p]
    BY <1>4 DEF Ssh!Success, Ssh!Failure, Ssh!FormSuccess, Ssh!FormFailure, Ssh!Unknown, Ssh!Move
  <2>3. v11' = v11 \/ v11' = [v11 EXCEPT ![Ssh!DialogOf(a)] = None]
    BY <1>4 DEF Ssh!Success, Ssh!Failure, Ssh!FormSuccess, Ssh!FormFailure, Ssh!Unknown, Ssh!Forget
  <2>4. \A d \in Ssh!Dialogs : v11'[d] \in {v11[d], None}
    BY <2>3, SshTypes
  <2> QED BY <2>1, <2>2, <2>4
<1>5. ASSUME NEW a \in Ssh!Attempts, Ssh!FormUnknown(a) \/ (Ssh!Unknown(a) /\ a \notin v10)
      PROVE  SshOrder'
  <2>1. /\ v7[a] = "calling" /\ v7' = [v7 EXCEPT ![a] = "trust"] /\ UNCHANGED <<v5, v6, v13>>
        /\ v11' = [v11 EXCEPT ![Ssh!DialogOf(a)] = a] /\ v12' = v12 \cup {Ssh!DialogOf(a)}
    BY <1>5 DEF Ssh!FormUnknown, Ssh!Unknown, Ssh!Answered, Ssh!Move, Ssh!DialogOf
  <2> QED BY <2>1, SshAsks
<1>6. ASSUME NEW a \in Ssh!Attempts, Ssh!Stage(a) \/ Ssh!Dial(a) PROVE Quiet
  BY <1>6 DEF Ssh!Stage, Ssh!Dial, SshActive
<1>7. ASSUME NEW s \in SshTabs, Ssh!Close(s) \/ Ssh!Closed(s) \/ Ssh!Terminal(s) PROVE Quiet
  BY <1>7 DEF Ssh!Close, Ssh!Closed, Ssh!Terminal, Ssh!Render, Ssh!StartPty, Ssh!SessionLost, SshActive
<1>8. ASSUME NEW d \in Ssh!Dialogs, Ssh!Trust(d) \/ Ssh!Hide(d) \/ Ssh!TrustFails(d) PROVE Quiet
  BY <1>8 DEF Ssh!Trust, Ssh!Hide, Ssh!TrustFails, SshActive
<1>9. CASE Ssh!Stop
  BY <1>2, <1>9 DEF Ssh!Stop, SshActive
<1>10. ASSUME NEW d \in Ssh!Dialogs, Ssh!Trusted(d) PROVE SshOrder'
  <2>1. d \in SshActive /\ SshActive' \subseteq SshActive \ {d} /\ UNCHANGED <<v5, v6, v11>>
    BY <1>10 DEF Ssh!Trusted, SshActive
  <2>2. CASE v11[d] # None /\ v7[v11[d]] = "trust"
    <3>1. v7' = [v7 EXCEPT ![v11[d]] = "listening"]
      BY <1>10, <2>2 DEF Ssh!Trusted, Ssh!Move
    <3> QED BY <2>1, <2>2, <3>1, SshDecides
  <2>3. CASE ~(v11[d] # None /\ v7[v11[d]] = "trust")
    BY <1>2, <1>10, <2>1, <2>3 DEF Ssh!Trusted
  <2> QED BY <2>2, <2>3
<1>11. CASE Ssh!Distrust
  <2>1. /\ "app" \in SshActive /\ "app" \in Ssh!Dialogs /\ SshActive' \subseteq SshActive \ {"app"} /\ UNCHANGED <<v5, v6>>
        /\ v11' = [v11 EXCEPT !["app"] = None]
    BY <1>11 DEF Ssh!Distrust, SshActive, Ssh!Dialogs
  <2>2. \A d \in Ssh!Dialogs : v11'[d] \in {v11[d], None}
    BY <2>1, SshTypes
  <2>3. CASE v11["app"] # None
    <3>1. v7[v11["app"]] = "trust"
      BY <2>1, <2>3 DEF SshOrder
    <3>2. v7' = [v7 EXCEPT ![v11["app"]] = "done"]
      BY <1>11, <2>3, <3>1 DEF Ssh!Distrust, Ssh!Move
    <3> QED BY <2>1, <2>2, <2>3, <3>2, SshDecides
  <2>4. CASE v11["app"] = None
    BY <1>2, <1>11, <2>1, <2>2, <2>4 DEF Ssh!Distrust
  <2> QED BY <2>3, <2>4
<1>12. CASE Ssh!FormDistrust
  <2>1. /\ "form" \in SshActive /\ "form" \in Ssh!Dialogs /\ SshActive' \subseteq SshActive \ {"form"} /\ UNCHANGED <<v5, v6, v11>>
        /\ v7' = [a \in Ssh!Attempts |-> IF a = v11["form"] /\ v7[a] = "trust" THEN "done" ELSE v7[a]]
    BY <1>12 DEF Ssh!FormDistrust, SshActive, Ssh!Dialogs
  <2>2. CASE v11["form"] # None
    <3>1. v7[v11["form"]] = "trust"
      BY <2>1, <2>2 DEF SshOrder
    <3>2. v7' = [v7 EXCEPT ![v11["form"]] = "done"]
      BY <2>1, <3>1, SshTypes
    <3> QED BY <2>1, <2>2, <3>2, SshDecides
  <2>3. CASE v11["form"] = None
    <3>1. v7' = v7
      BY <2>1, <2>3, SshTypes
    <3> QED BY <1>2, <2>1, <3>1
  <2> QED BY <2>2, <2>3
<1>13. ASSUME NEW a \in Ssh!Attempts, Ssh!Step(a) PROVE SshOrder'
  BY <1>1, <1>2, <1>3, <1>4, <1>5, <1>6, <1>13 DEF Ssh!Step
<1>14. CASE Ssh!User
  BY <1>2, <1>7, <1>8, <1>9, <1>11, <1>12, <1>14, SshStart DEF Ssh!User
<1>15. CASE Ssh!Progress
  BY <1>2, <1>7, <1>8, <1>10, <1>13, <1>15 DEF Ssh!Progress
<1>16. CASE UNCHANGED Ssh!vars
  BY <1>2, <1>16 DEF Ssh!vars, SshActive
<1> QED BY <1>14, <1>15, <1>16 DEF Ssh!Next

LEMMA SshKeepsTypes == Ssh!TypeOK /\ [Ssh!Next]_(Ssh!vars) => Ssh!TypeOK'
<1> SUFFICES ASSUME Ssh!TypeOK, [Ssh!Next]_(Ssh!vars) PROVE Ssh!TypeOK'
  OBVIOUS
<1> USE DEF Ssh!uiVars, Ssh!dlgVars, Ssh!formVars, Ssh!attVars, Ssh!TypeOK, Ssh!Status, Ssh!Stored, Ssh!Move
<1>1. ASSUME NEW a \in Ssh!Attempts, Ssh!Step(a) PROVE Ssh!TypeOK'
  <2>1. CASE Ssh!Show(a) \/ Ssh!NoCredentials(a) \/ Ssh!Drop(a)
    BY <2>1 DEF Ssh!Show, Ssh!NoCredentials, Ssh!Drop
  <2>2. CASE Ssh!BeginAttempt(a) \/ Ssh!NoKey(a) \/ Ssh!Submit(a) \/ Ssh!Invalid(a)
    BY <2>2 DEF Ssh!BeginAttempt, Ssh!NoKey, Ssh!Submit, Ssh!Invalid
  <2>3. CASE Ssh!Call(a) \/ Ssh!Stage(a)
    BY <2>3 DEF Ssh!Call, Ssh!Stage
  <2>4. CASE Ssh!Dial(a)
    BY <2>4 DEF Ssh!Dial
  <2>5. v11' = v11 \/ v11' = [v11 EXCEPT ![Ssh!DialogOf(a)] = None] =>
          v11' \in [Ssh!Dialogs -> Ssh!Attempts \cup {None}]
    OBVIOUS
  <2>6. CASE Ssh!Success(a)
    BY <2>5, <2>6 DEF Ssh!Success, Ssh!Forget
  <2>7. CASE Ssh!Failure(a)
    BY <2>5, <2>7 DEF Ssh!Failure, Ssh!Forget
  <2>8. CASE Ssh!Unknown(a)
    <3>1. /\ UNCHANGED <<v2, v4, v5, v6, v8, v9, v10, v13, v14, v15>>
          /\ v3' = [v3 EXCEPT ![v5[a]] = "awaitingHostKey"]
          /\ v1' = v1 \/ v1' = Ssh!Status(v5[a], "disconnected")
          /\ v7' = [v7 EXCEPT ![a] = "done"] \/ v7' = [v7 EXCEPT ![a] = "trust"]
      BY <2>8 DEF Ssh!Unknown
    <3>2. v12' \subseteq Ssh!Dialogs /\ v11' \in [Ssh!Dialogs -> Ssh!Attempts \cup {None}]
      <4>1. CASE a \in v10
        BY <2>5, <2>8, <4>1 DEF Ssh!Unknown, Ssh!Forget
      <4>2. CASE a \notin v10
        <5>1. v12' = v12 \cup {"app"} /\ v11' = [v11 EXCEPT !["app"] = a]
          BY <2>8, <4>2 DEF Ssh!Unknown
        <5> QED BY <5>1 DEF Ssh!Dialogs
      <4> QED BY <4>1, <4>2
    <3>3. v1' \in [SshTabs -> {"none", "pending", "connecting", "connected", "disconnected"}]
      BY <3>1
    <3>4. v3' \in [SshTabs -> {"none", "connecting", "awaitingHostKey", "failed", "connected"}]
      BY <3>1
    <3>5. v7' \in [Ssh!Attempts -> {"none", "credentials", "dropping", "key", "listening", "calling",
                                    "saving", "trust", "done"}]
      BY <3>1
    <3> QED BY <3>1, <3>2, <3>3, <3>4, <3>5
  <2>9. CASE Ssh!FormSuccess(a) \/ Ssh!FormFailure(a)
    BY <2>9 DEF Ssh!FormSuccess, Ssh!FormFailure
  <2>10. CASE Ssh!FormUnknown(a)
    BY <2>10 DEF Ssh!FormUnknown, Ssh!Dialogs
  <2>11. CASE Ssh!Saved(a) \/ Ssh!SaveFails(a)
    BY <2>11 DEF Ssh!Saved, Ssh!SaveFails
  <2> QED BY <1>1, <2>1, <2>2, <2>3, <2>4, <2>6, <2>7, <2>8, <2>9, <2>10, <2>11 DEF Ssh!Step
<1>2. ASSUME NEW a \in Ssh!Attempts, NEW s \in SshTabs, NEW k \in Ssh!Kinds, Ssh!Start(a, s, k) PROVE Ssh!TypeOK'
  BY <1>2 DEF Ssh!Start
<1>3. ASSUME NEW d \in Ssh!Dialogs, Ssh!Trust(d) \/ Ssh!Hide(d) \/ Ssh!TrustFails(d) PROVE Ssh!TypeOK'
  BY <1>3 DEF Ssh!Trust, Ssh!Hide, Ssh!TrustFails
<1>4. ASSUME NEW d \in Ssh!Dialogs, Ssh!Trusted(d) PROVE Ssh!TypeOK'
  BY <1>4 DEF Ssh!Trusted
<1>5. CASE Ssh!Stop
  BY <1>5 DEF Ssh!Stop
<1>6. CASE Ssh!Distrust
  BY <1>6 DEF Ssh!Distrust, Ssh!Dialogs
<1>7. CASE Ssh!FormDistrust
  BY <1>7 DEF Ssh!FormDistrust
<1>8. ASSUME NEW s \in SshTabs, Ssh!Close(s) \/ Ssh!Closed(s) PROVE Ssh!TypeOK'
  BY <1>8 DEF Ssh!Close, Ssh!Closed
<1>9. ASSUME NEW s \in SshTabs, Ssh!Terminal(s) PROVE Ssh!TypeOK'
  BY <1>9 DEF Ssh!Terminal, Ssh!Render, Ssh!StartPty, Ssh!SessionLost
<1>10. CASE Ssh!User
  BY <1>2, <1>3, <1>5, <1>6, <1>7, <1>8, <1>10 DEF Ssh!User
<1>11. CASE Ssh!Progress
  BY <1>1, <1>3, <1>4, <1>8, <1>9, <1>11 DEF Ssh!Progress
<1>12. CASE UNCHANGED Ssh!vars
  BY <1>12 DEF Ssh!vars
<1> QED BY <1>10, <1>11, <1>12 DEF Ssh!Next

(* While handleReconnect awaits ssh_disconnect, nothing shows the tab as more than pending: *)
(* no other attempt of the session runs, and no terminal is mounted over it.                *)
LEMMA SshKeepsHidden == Ssh!TypeOK /\ SshOrder /\ SshHidden /\ [Ssh!Next]_(Ssh!vars) => SshHidden'
<1> SUFFICES ASSUME Ssh!TypeOK, SshOrder, SshHidden, [Ssh!Next]_(Ssh!vars),
                    NEW b \in Ssh!Attempts, v7'[b] = "dropping"
             PROVE  v1'[v5'[b]] \in {"none", "pending"}
  BY DEF SshHidden
<1> USE DEF Ssh!uiVars, Ssh!dlgVars, Ssh!formVars, Ssh!attVars
<1> DEFINE Hidden == v1'[v5'[b]] \in {"none", "pending"}
<1>0. v5[b] \in SshTabs \/ v7[b] = "none"
  BY SshTypes DEF SshOrder
<1>1. ASSUME v7[b] = "dropping", UNCHANGED <<v1, v5>> PROVE Hidden
  BY <1>1 DEF SshHidden
<1>2. ASSUME NEW a \in Ssh!Attempts, a # b, ~Ssh!Over(a), v7[b] = "dropping", v5' = v5,
             NEW p, v1' = [v1 EXCEPT ![v5[a]] = p] \/ v1' = v1
      PROVE  Hidden
  <2>1. v5[a] # v5[b]
    BY <1>2 DEF SshOrder, Ssh!Over
  <2> QED BY <1>0, <1>2, <2>1, SshTypes DEF SshHidden
<1>3. ASSUME NEW a \in Ssh!Attempts, Ssh!Step(a) PROVE Hidden
  <2>1. CASE Ssh!Show(a)
    <3>1. CASE a = b
      BY <1>0, <2>1, <3>1, SshTypes DEF Ssh!Show, Ssh!Status
    <3>2. CASE a # b
      <4>1. v7[b] = "dropping" /\ v5' = v5 /\ ~Ssh!Over(a) /\ \E p : v1' = [v1 EXCEPT ![v5[a]] = p]
        BY <2>1, <3>2, SshTypes DEF Ssh!Show, Ssh!Move, Ssh!Over, Ssh!Status
      <4> QED BY <1>2, <3>2, <4>1
    <3> QED BY <3>1, <3>2
  <2>2. CASE Ssh!NoCredentials(a) \/ Ssh!Drop(a) \/ Ssh!BeginAttempt(a) \/ Ssh!Submit(a) \/ Ssh!Invalid(a)
             \/ Ssh!Call(a) \/ Ssh!Stage(a) \/ Ssh!Dial(a) \/ Ssh!FormSuccess(a) \/ Ssh!FormFailure(a)
             \/ Ssh!FormUnknown(a) \/ Ssh!SaveFails(a)
    <3>1. UNCHANGED <<v1, v5>>
      BY <2>2 DEF Ssh!NoCredentials, Ssh!Drop, Ssh!BeginAttempt, Ssh!Submit, Ssh!Invalid, Ssh!Call, Ssh!Stage, Ssh!Dial,
                  Ssh!FormSuccess, Ssh!FormFailure, Ssh!FormUnknown, Ssh!SaveFails
    <3>2. v7' = v7 \/ \E p \in {"done", "key", "listening", "calling", "saving", "trust"} : v7' = [v7 EXCEPT ![a] = p]
      BY <2>2 DEF Ssh!NoCredentials, Ssh!Drop, Ssh!BeginAttempt, Ssh!Submit, Ssh!Invalid, Ssh!Call, Ssh!Stage, Ssh!Dial,
                  Ssh!FormSuccess, Ssh!FormFailure, Ssh!FormUnknown, Ssh!SaveFails, Ssh!Move
    <3>3. v7[b] = "dropping"
      BY <3>2, SshTypes
    <3> QED BY <1>1, <3>1, <3>3
  <2>3. CASE Ssh!NoKey(a) \/ Ssh!Success(a) \/ Ssh!Failure(a) \/ Ssh!Unknown(a) \/ Ssh!Saved(a)
    <3>1. v5' = v5 /\ ~Ssh!Over(a)
      BY <2>3 DEF Ssh!NoKey, Ssh!Success, Ssh!Failure, Ssh!Unknown, Ssh!Saved, Ssh!Answered, Ssh!Over
    <3>2. v7' = [v7 EXCEPT ![a] = "done"] \/ v7' = [v7 EXCEPT ![a] = "trust"]
      BY <2>3 DEF Ssh!NoKey, Ssh!Success, Ssh!Failure, Ssh!Unknown, Ssh!Saved, Ssh!Move
    <3>3. a # b /\ v7[b] = "dropping"
      BY <3>2, SshTypes
    <3>4. v1' = v1 \/ \E p : v1' = [v1 EXCEPT ![v5[a]] = p]
      BY <2>3 DEF Ssh!NoKey, Ssh!Success, Ssh!Failure, Ssh!Unknown, Ssh!Saved, Ssh!Status
    <3> QED BY <1>2, <3>1, <3>3, <3>4
  <2> QED BY <1>3, <2>1, <2>2, <2>3 DEF Ssh!Step
<1>4. ASSUME NEW a \in Ssh!Attempts, NEW s \in SshTabs, NEW k \in Ssh!Kinds, Ssh!Start(a, s, k) PROVE Hidden
  BY <1>4, SshTypes DEF Ssh!Start, Ssh!Move, SshHidden
<1>5. ASSUME NEW d \in Ssh!Dialogs, Ssh!Trust(d) \/ Ssh!Hide(d) \/ Ssh!TrustFails(d) \/ Ssh!Trusted(d) PROVE Hidden
  <2>1. UNCHANGED <<v1, v5>> /\ v7[b] = "dropping"
    BY <1>5, SshTypes DEF Ssh!Trust, Ssh!Hide, Ssh!TrustFails, Ssh!Trusted, Ssh!Move
  <2> QED BY <1>1, <2>1
<1>6. CASE Ssh!Stop \/ Ssh!FormDistrust
  <2>1. UNCHANGED <<v1, v5>> /\ v7[b] = "dropping"
    BY <1>6 DEF Ssh!Stop, Ssh!FormDistrust
  <2> QED BY <1>1, <2>1
<1>7. CASE Ssh!Distrust
  <2>1. v5' = v5 /\ v7[b] = "dropping"
    BY <1>7, SshTypes DEF Ssh!Distrust, Ssh!Move
  <2>2. CASE v11["app"] = None
    BY <1>1, <1>7, <2>1, <2>2 DEF Ssh!Distrust
  <2>3. CASE v11["app"] # None
    <3>1. v5[v11["app"]] # v5[b]
      BY <1>7, <2>1, <2>3 DEF SshOrder, SshActive, Ssh!Distrust, Ssh!Over
    <3>2. v1' = v1 \/ \E p : v1' = [v1 EXCEPT ![v5[v11["app"]]] = p]
      BY <1>7, <2>3 DEF Ssh!Distrust, Ssh!Status
    <3>3. v1'[v5[b]] = v1[v5[b]]
      BY <1>0, <2>1, <3>1, <3>2, SshTypes
    <3> QED BY <2>1, <3>3 DEF SshHidden
  <2> QED BY <2>2, <2>3
<1>8. ASSUME NEW s \in SshTabs, Ssh!Close(s) \/ Ssh!Closed(s) \/ Ssh!Render(s) PROVE Hidden
  <2>1. UNCHANGED <<v5, v7>> /\ (v1' = v1 \/ v1' = [v1 EXCEPT ![s] = "none"])
    BY <1>8 DEF Ssh!Close, Ssh!Closed, Ssh!Render
  <2> QED BY <1>0, <2>1, SshTypes DEF SshHidden
<1>9. ASSUME NEW s \in SshTabs, Ssh!StartPty(s) \/ Ssh!SessionLost(s) PROVE Hidden
  <2>1. UNCHANGED <<v5, v7>> /\ v1[s] \notin {"none", "pending"} /\ \E p : v1' = [v1 EXCEPT ![s] = p]
    BY <1>9 DEF Ssh!StartPty, Ssh!SessionLost, Ssh!Status, Ssh!Surface
  <2>2. v5[b] # s /\ v1'[v5[b]] = v1[v5[b]]
    BY <1>0, <2>1, SshTypes DEF SshHidden
  <2> QED BY <2>1, <2>2 DEF SshHidden
<1>10. CASE Ssh!User
  BY <1>4, <1>5, <1>6, <1>7, <1>8, <1>10 DEF Ssh!User
<1>11. CASE Ssh!Progress
  BY <1>3, <1>5, <1>8, <1>9, <1>11 DEF Ssh!Progress, Ssh!Terminal
<1>12. CASE UNCHANGED Ssh!vars
  BY <1>1, <1>12 DEF Ssh!vars
<1> QED BY <1>10, <1>11, <1>12 DEF Ssh!Next

(* A tab that is connected keeps its session: only the tab's own closing takes it away, and *)
(* a reconnect, once it hid the tab.                                                        *)
LEMMA SshKeepsLive == SshSound /\ [Ssh!Next]_(Ssh!vars) => Ssh!ConnectedIsLive'
<1> SUFFICES ASSUME Ssh!TypeOK, Ssh!ConnectedIsLive, SshOrder, SshHidden, [Ssh!Next]_(Ssh!vars),
                    NEW s \in SshTabs, v1'[s] = "connected", s \notin v2'
             PROVE  v9'[s] # None /\ v4'[s] # "dead"
  BY DEF SshSound, Ssh!Inv, Ssh!ConnectedIsLive
<1> USE DEF Ssh!uiVars, Ssh!dlgVars, Ssh!formVars, Ssh!attVars
<1> DEFINE Live == v9'[s] # None /\ v4'[s] # "dead"
<1>0. v9 \in [SshTabs -> Ssh!Attempts \cup {None}] /\ v4 \in [SshTabs -> {"none", "starting", "up", "dead"}]
  BY DEF Ssh!TypeOK
<1>1. ASSUME v1[s] = "connected", s \notin v2, v9' = v9, v4' = v4 PROVE Live
  BY <1>1 DEF Ssh!ConnectedIsLive
<1>2. ASSUME NEW t, NEW q \in {"none", "pending", "connecting", "disconnected"},
             v1' = [v1 EXCEPT ![t] = q] \/ v1' = Ssh!Status(t, q)
      PROVE  v1[s] = "connected" /\ (t = s => FALSE)
  BY <1>2, SshTypes DEF Ssh!Status
<1>3. ASSUME NEW a \in Ssh!Attempts, Ssh!Step(a) PROVE Live
  <2>1. CASE Ssh!NoCredentials(a) \/ Ssh!BeginAttempt(a) \/ Ssh!Submit(a) \/ Ssh!Invalid(a) \/ Ssh!Call(a)
             \/ Ssh!Stage(a) \/ Ssh!FormSuccess(a) \/ Ssh!FormFailure(a) \/ Ssh!FormUnknown(a) \/ Ssh!SaveFails(a)
    <3>1. UNCHANGED <<v1, v2, v4, v9>>
      BY <2>1 DEF Ssh!NoCredentials, Ssh!BeginAttempt, Ssh!Submit, Ssh!Invalid, Ssh!Call, Ssh!Stage,
                  Ssh!FormSuccess, Ssh!FormFailure, Ssh!FormUnknown, Ssh!SaveFails
    <3> QED BY <1>1, <3>1
  <2>2. CASE Ssh!Show(a) \/ Ssh!NoKey(a) \/ Ssh!Failure(a) \/ Ssh!Unknown(a) \/ Ssh!Saved(a)
    <3>1. UNCHANGED <<v2, v4, v9>>
      BY <2>2 DEF Ssh!Show, Ssh!NoKey, Ssh!Failure, Ssh!Unknown, Ssh!Saved
    <3>2. v1'[s] \in {v1[s], "none", "pending", "connecting", "disconnected"}
      <4>1. CASE Ssh!Show(a)
        BY <4>1, SshTypes DEF Ssh!Show, Ssh!Status
      <4>2. CASE Ssh!NoKey(a) \/ Ssh!Failure(a)
        BY <4>2, SshTypes DEF Ssh!NoKey, Ssh!Failure, Ssh!Status
      <4>3. CASE Ssh!Unknown(a)
        BY <4>3, SshTypes DEF Ssh!Unknown, Ssh!Status
      <4>4. CASE Ssh!Saved(a)
        BY <4>4, SshTypes DEF Ssh!Saved
      <4> QED BY <2>2, <4>1, <4>2, <4>3, <4>4
    <3> QED BY <1>1, <3>1, <3>2
  <2>3. CASE Ssh!Success(a)
    <3>1. v1[s] = "connected" /\ v5[a] # s
      BY <1>2, <2>3 DEF Ssh!Success
    <3>2. UNCHANGED <<v2, v9>> /\ v4' = [v4 EXCEPT ![v5[a]] = "none"]
      BY <2>3 DEF Ssh!Success
    <3> QED BY <1>0, <3>1, <3>2 DEF Ssh!ConnectedIsLive
  <2>4. CASE Ssh!Drop(a)
    <3>1. v1[s] = "connected" /\ v7[a] = "dropping"
      BY <2>4 DEF Ssh!Drop
    <3>2. v5[a] # s
      BY <3>1 DEF SshHidden
    <3>3. UNCHANGED <<v2, v4>> /\ v9' = [v9 EXCEPT ![v5[a]] = None]
      BY <2>4 DEF Ssh!Drop
    <3> QED BY <1>0, <3>1, <3>2, <3>3 DEF Ssh!ConnectedIsLive
  <2>5. CASE Ssh!Dial(a)
    <3>1. UNCHANGED <<v1, v2, v4>> /\ (v9' = v9 \/ v9' = [v9 EXCEPT ![v5[a]] = a])
      BY <2>5 DEF Ssh!Dial
    <3> QED BY <1>0, <3>1, SshTypes DEF Ssh!ConnectedIsLive
  <2> QED BY <1>3, <2>1, <2>2, <2>3, <2>4, <2>5 DEF Ssh!Step
<1>4. ASSUME NEW a \in Ssh!Attempts, NEW t \in SshTabs, NEW k \in Ssh!Kinds, Ssh!Start(a, t, k) PROVE Live
  BY <1>1, <1>4 DEF Ssh!Start
<1>5. ASSUME NEW d \in Ssh!Dialogs, Ssh!Trust(d) \/ Ssh!Hide(d) \/ Ssh!TrustFails(d) \/ Ssh!Trusted(d) PROVE Live
  BY <1>1, <1>5 DEF Ssh!Trust, Ssh!Hide, Ssh!TrustFails, Ssh!Trusted
<1>6. CASE Ssh!Stop \/ Ssh!FormDistrust
  BY <1>1, <1>6 DEF Ssh!Stop, Ssh!FormDistrust
<1>7. CASE Ssh!Distrust
  <2>1. UNCHANGED <<v2, v4, v9>>
    BY <1>7 DEF Ssh!Distrust
  <2>2. v1'[s] \in {v1[s], "none", "disconnected"}
    BY <1>7, SshTypes DEF Ssh!Distrust, Ssh!Status
  <2> QED BY <1>1, <2>1, <2>2
<1>8. ASSUME NEW t \in SshTabs, Ssh!Close(t) PROVE Live
  BY <1>1, <1>8 DEF Ssh!Close
<1>9. ASSUME NEW t \in SshTabs, Ssh!Closed(t) PROVE Live
  <2>1. v1[s] = "connected" /\ t # s
    BY <1>2, <1>9 DEF Ssh!Closed
  <2>2. v4' = v4 /\ v2' = v2 \ {t} /\ v9' = [v9 EXCEPT ![t] = None]
    BY <1>9 DEF Ssh!Closed
  <2> QED BY <1>0, <2>1, <2>2 DEF Ssh!ConnectedIsLive
<1>10. ASSUME NEW t \in SshTabs, Ssh!Render(t) PROVE Live
  <2>1. UNCHANGED <<v1, v2, v9>> /\ (v4'[s] = v4[s] \/ v4'[s] \in {"none", "starting"})
    BY <1>0, <1>10 DEF Ssh!Render
  <2> QED BY <2>1 DEF Ssh!ConnectedIsLive
<1>11. ASSUME NEW t \in SshTabs, Ssh!StartPty(t) \/ Ssh!SessionLost(t) PROVE Live
  <2>1. UNCHANGED <<v2, v9>> /\ \E p, q : v1' = Ssh!Status(t, p) /\ v4' = [v4 EXCEPT ![t] = q]
    BY <1>11 DEF Ssh!StartPty, Ssh!SessionLost
  <2>2. CASE t # s
    <3>1. v1[s] = "connected" /\ v4'[s] = v4[s]
      BY <1>0, <2>1, <2>2, SshTypes DEF Ssh!Status
    <3> QED BY <2>1, <3>1 DEF Ssh!ConnectedIsLive
  <2>3. CASE t = s
    <3>1. v1' # Ssh!Status(s, "disconnected")
      BY <1>2
    <3>2. v9[s] # None /\ v4' = [v4 EXCEPT ![s] = "up"]
      BY <1>11, <2>3, <3>1 DEF Ssh!StartPty, Ssh!SessionLost
    <3> QED BY <1>0, <2>1, <3>2
  <2> QED BY <2>2, <2>3
<1>12. CASE Ssh!User
  BY <1>4, <1>5, <1>6, <1>7, <1>8, <1>12 DEF Ssh!User
<1>13. CASE Ssh!Progress
  BY <1>3, <1>5, <1>9, <1>10, <1>11, <1>13 DEF Ssh!Progress, Ssh!Terminal
<1>14. CASE UNCHANGED Ssh!vars
  BY <1>1, <1>14 DEF Ssh!vars
<1> QED BY <1>12, <1>13, <1>14 DEF Ssh!Next

LEMMA SshStep == SshSound /\ [Ssh!Next]_(Ssh!vars) => SshSound'
<1> SUFFICES ASSUME SshSound, [Ssh!Next]_(Ssh!vars) PROVE SshSound'
  OBVIOUS
<1>1. Ssh!TypeOK /\ SshOrder /\ SshHidden
  BY DEF SshSound, Ssh!Inv
<1> QED BY <1>1, SshKeepsOrder, SshKeepsTypes, SshKeepsHidden, SshKeepsLive DEF SshSound, Ssh!Inv

(* Every step that writes the status of a tab passes over a tab that is gone, except the *)
(* first of an opening and the one that saves a form.                                    *)
LEMMA SshRevives == Ssh!TypeOK /\ [Ssh!Next]_(Ssh!vars) => Ssh!ShowsOnlyOpened
<1> SUFFICES ASSUME Ssh!TypeOK, [Ssh!Next]_(Ssh!vars), NEW s \in SshTabs, v1[s] = "none", v1'[s] # "none"
             PROVE  \E a \in Ssh!Attempts : v5[a] = s /\ v7[a] \in {"credentials", "saving"} /\ v7'[a] # v7[a]
  BY DEF Ssh!ShowsOnlyOpened
<1> USE DEF Ssh!uiVars, Ssh!dlgVars, Ssh!formVars, Ssh!attVars
<1> DEFINE Opened == \E a \in Ssh!Attempts : v5[a] = s /\ v7[a] \in {"credentials", "saving"} /\ v7'[a] # v7[a]
<1>1. v1' # v1 /\ \A t, q : v1' # Ssh!Status(t, q) /\ v1' # [v1 EXCEPT ![t] = "none"]
  BY SshTypes DEF Ssh!Status
<1>2. ASSUME NEW a \in Ssh!Attempts, Ssh!Step(a) PROVE Opened
  <2>1. CASE Ssh!Show(a)
    <3>1. v1' = [v1 EXCEPT ![v5[a]] = "pending"] /\ v7[a] = "credentials" /\ v7' = [v7 EXCEPT ![a] = "key"]
      BY <1>1, <2>1 DEF Ssh!Show, Ssh!Move
    <3> QED BY <3>1, SshTypes
  <2>2. CASE Ssh!Saved(a)
    <3>1. v1' = [v1 EXCEPT ![v5[a]] = "connecting"] /\ v7[a] = "saving" /\ v7' = [v7 EXCEPT ![a] = "done"]
      BY <2>2 DEF Ssh!Saved, Ssh!Move
    <3> QED BY <3>1, SshTypes
  <2>3. ~(Ssh!NoCredentials(a) \/ Ssh!Drop(a) \/ Ssh!BeginAttempt(a) \/ Ssh!NoKey(a) \/ Ssh!Submit(a) \/ Ssh!Invalid(a))
    BY <1>1 DEF Ssh!NoCredentials, Ssh!Drop, Ssh!BeginAttempt, Ssh!NoKey, Ssh!Submit, Ssh!Invalid
  <2>4. ~(Ssh!Call(a) \/ Ssh!Stage(a) \/ Ssh!Dial(a) \/ Ssh!Success(a) \/ Ssh!Failure(a) \/ Ssh!Unknown(a))
    BY <1>1 DEF Ssh!Call, Ssh!Stage, Ssh!Dial, Ssh!Success, Ssh!Failure, Ssh!Unknown
  <2>5. ~(Ssh!FormSuccess(a) \/ Ssh!FormFailure(a) \/ Ssh!FormUnknown(a) \/ Ssh!SaveFails(a))
    BY <1>1 DEF Ssh!FormSuccess, Ssh!FormFailure, Ssh!FormUnknown, Ssh!SaveFails
  <2> QED BY <1>2, <2>1, <2>2, <2>3, <2>4, <2>5 DEF Ssh!Step
<1>3. ~(\E a \in Ssh!Attempts, t \in SshTabs, k \in Ssh!Kinds : Ssh!Start(a, t, k))
  BY <1>1 DEF Ssh!Start
<1>4. ~(\E d \in Ssh!Dialogs : Ssh!Trust(d) \/ Ssh!Hide(d) \/ Ssh!TrustFails(d) \/ Ssh!Trusted(d))
  BY <1>1 DEF Ssh!Trust, Ssh!Hide, Ssh!TrustFails, Ssh!Trusted
<1>5. ~(Ssh!Stop \/ Ssh!FormDistrust \/ Ssh!Distrust)
  BY <1>1 DEF Ssh!Stop, Ssh!FormDistrust, Ssh!Distrust
<1>6. ~(\E t \in SshTabs : Ssh!Close(t) \/ Ssh!Closed(t) \/ Ssh!Terminal(t))
  BY <1>1 DEF Ssh!Close, Ssh!Closed, Ssh!Terminal, Ssh!Render, Ssh!StartPty, Ssh!SessionLost
<1>7. Ssh!Next
  BY <1>1 DEF Ssh!vars
<1> QED BY <1>2, <1>3, <1>4, <1>5, <1>6, <1>7 DEF Ssh!Next, Ssh!User, Ssh!Progress

(***************************************************************************)
(* The link of a terminal                                                  *)
(***************************************************************************)
LinkInv == Link!TypeOK /\ Link!OnlyTheMountTalks /\ Link!ConnectedIsLive /\ Link!DropCountRestarts

LEMMA LinkBounds ==
  /\ MaxMounts \in Nat \ {0} /\ {MaxDrops, MaxChunks} \subseteq Nat
  /\ {MaxReconnects, MaxDropRetries} \subseteq Nat \ {0}
BY ConnectionsConstants

LEMMA LinkInit == Link!Init => LinkInv
<1> SUFFICES ASSUME Link!Init PROVE LinkInv
  OBVIOUS
<1>1. v1 \in Link!Mounts /\ v3 \in [Link!Mounts -> Link!Phase]
  BY LinkBounds DEF Link!Init, Link!Mounts, Link!Phase
<1>2. /\ v11 \in Seq(BOOLEAN) /\ v12 \in Seq(1 .. Len(v11)) /\ v14 \in Seq(1 .. Len(v11))
      /\ v13 \in 0 .. Len(v11)
  BY DEF Link!Init
<1>3. /\ v6 \in 0 .. MaxReconnects /\ v7 \in 0 .. MaxDropRetries /\ v10 \in 0 .. MaxDrops
      /\ Link!DropCountRestarts
  BY LinkBounds DEF Link!Init, Link!DropCountRestarts
<1>4. Link!OnlyTheMountTalks /\ Link!ConnectedIsLive
  BY DEF Link!Init, Link!OnlyTheMountTalks, Link!ConnectedIsLive, Link!Running, Link!Socket
<1> QED BY <1>1, <1>2, <1>3, <1>4 DEF Link!Init, LinkInv, Link!TypeOK

(* What a step on the chain of the mounted run has to respect. *)
LEMMA PhaseStep ==
  ASSUME LinkInv, UNCHANGED <<v1, v2>>, v2,
         NEW p \in Link!Phase, Link!At(p),
         v8' \in {"connecting", "connected", "disconnected"},
         v8' = "connected" => p \in {"started", "closing", "sizing"}
  PROVE  /\ v1' \in Link!Mounts /\ v2' \in BOOLEAN /\ v3' \in [Link!Mounts -> Link!Phase]
         /\ Link!OnlyTheMountTalks' /\ Link!ConnectedIsLive'
BY DEF LinkInv, Link!TypeOK, Link!OnlyTheMountTalks, Link!ConnectedIsLive, Link!At, Link!Running

(* Scheduling keeps the counters within their limits, and the drops count at zero  *)
(* while the session that was connected last is still the reason to reconnect.     *)
LEMMA ScheduleStep ==
  ASSUME LinkInv, Link!Schedule
  PROVE  /\ \E p \in {"stopped", "timer"} : Link!At(p)
         /\ v8' \in {"connecting", "disconnected"}
         /\ v4' \in BOOLEAN /\ v5' \in BOOLEAN
         /\ v6' \in 0 .. MaxReconnects /\ v7' \in 0 .. MaxDropRetries
         /\ Link!DropCountRestarts'
<1> USE DEF LinkInv, Link!TypeOK, Link!DropCountRestarts
<1>1. CASE Link!GiveUp
  <2>1. Link!At("stopped") /\ v8' = "disconnected" /\ UNCHANGED <<v4, v5, v6, v7>>
    BY <1>1 DEF Link!GiveUp, Link!retries
  <2> QED BY <2>1
<1>2. CASE v4 /\ v9 /\ v7 < MaxDropRetries
  <2>1. /\ Link!At("timer") /\ v8' = "connecting" /\ v5' = TRUE /\ v4' = FALSE
        /\ v6' = 0 /\ v7' = v7 + 1
    BY <1>2, LinkBounds DEF Link!Schedule, Link!AfterDrop
  <2>2. v6' \in 0 .. MaxReconnects /\ v7' \in 0 .. MaxDropRetries
    BY <1>2, <2>1, LinkBounds
  <2> QED BY <2>1, <2>2
<1>3. CASE ~v4 /\ v6 < MaxReconnects
  BY <1>3, LinkBounds DEF Link!Schedule, Link!AfterFailure
<1> QED BY <1>1, <1>2, <1>3, LinkBounds DEF Link!Schedule, Link!AfterDrop, Link!AfterFailure

(* A chunk that arrives or has been written moves within what came. *)
LEMMA PumpStep ==
  ASSUME NEW n \in Nat, NEW q \in Seq(1 .. n), Link!Pump(q)
  PROVE  v12' \in Seq(1 .. n) /\ v13' \in 0 .. n
<1>1. CASE q = <<>>
  BY <1>1 DEF Link!Pump
<1>2. CASE q # <<>>
  <2>1. Head(q) \in 1 .. n /\ Tail(q) \in Seq(1 .. n)
    BY <1>2
  <2> QED BY <1>2, <2>1 DEF Link!Pump
<1> QED BY <1>1, <1>2

LEMMA LinkStep == LinkInv /\ [Link!Next]_(Link!vars) => LinkInv'
<1> SUFFICES ASSUME LinkInv, [Link!Next]_(Link!vars) PROVE LinkInv'
  OBVIOUS
<1> USE DEF LinkInv, Link!TypeOK, Link!DropCountRestarts
<1>1. ASSUME NEW m \in Link!Mounts, Link!Attempt(m) PROVE LinkInv'
  <2>1. /\ UNCHANGED <<v1, v2, Link!retries, v9, v10, Link!output>>
        /\ \/ Link!Quits(m) /\ v3[m] \in {"sizing", "dialing"}
           \/ Link!Running(m) /\ Link!At("dialing") /\ v8' = "connecting"
           \/ Link!Running(m) /\ v3[m] = "dialing" /\ Link!At("opening") /\ UNCHANGED v8
    BY <1>1 DEF Link!Attempt, Link!Sized, Link!Endpoint
  <2>2. CASE Link!Quits(m)
    BY <2>1, <2>2 DEF Link!Quits, Link!Running, Link!OnlyTheMountTalks, Link!ConnectedIsLive, Link!retries, Link!output,
                      Link!Phase, Link!Socket
  <2>3. CASE Link!Running(m) /\ Link!At("dialing") /\ v8' = "connecting"
    BY <2>1, <2>3, PhaseStep DEF Link!Running, Link!retries, Link!output, Link!Phase
  <2>4. CASE Link!Running(m) /\ v3[m] = "dialing" /\ Link!At("opening") /\ UNCHANGED v8
    <3>1. v8 # "connected"
      BY <2>4 DEF Link!Running, Link!ConnectedIsLive
    <3> QED BY <2>1, <2>4, <3>1, PhaseStep DEF Link!Running, Link!retries, Link!output, Link!Phase, Link!Socket
  <2> QED BY <2>1, <2>2, <2>3, <2>4
<1>2. CASE Link!NoEndpoint \/ Link!Closed
  <2>1. UNCHANGED <<v1, v2, v9, v10, Link!output>> /\ v2 /\ Link!Schedule
    BY <1>2 DEF Link!NoEndpoint, Link!Closed, Link!Here
  <2>2. PICK p \in {"stopped", "timer"} : Link!At(p)
    BY <2>1, ScheduleStep
  <2>3. Link!OnlyTheMountTalks' /\ Link!ConnectedIsLive' /\ v3' \in [Link!Mounts -> Link!Phase]
    BY <2>1, <2>2, ScheduleStep, PhaseStep DEF Link!Phase
  <2> QED BY <2>1, <2>3, ScheduleStep DEF Link!output
<1>3. CASE Link!TimerFires \/ Link!Opens \/ Link!Refused \/ Link!PtyStarted \/ Link!DropsEarly
  <2>1. UNCHANGED <<v1, v2, Link!retries, v9, v10, Link!output>> /\ v2
    BY <1>3 DEF Link!TimerFires, Link!Opens, Link!Refused, Link!PtyStarted, Link!DropsEarly, Link!Here
  <2>2. \E p \in Link!Phase :
          /\ Link!At(p) /\ v8' \in {"connecting", "connected", "disconnected"}
          /\ v8' = "connected" => p \in {"started", "closing", "sizing"}
    BY <1>3 DEF Link!TimerFires, Link!Opens, Link!Refused, Link!PtyStarted, Link!DropsEarly, Link!Here, Link!At, Link!Phase, Link!Socket,
                Link!ConnectedIsLive
  <2> QED BY <2>1, <2>2, PhaseStep DEF Link!retries, Link!output
<1>4. CASE Link!Success
  <2>1. Link!At("started") /\ v2 /\ "started" \in Link!Phase
    BY <1>4 DEF Link!Success, Link!Here, Link!Phase, Link!Socket
  <2>2. Link!OnlyTheMountTalks' /\ Link!ConnectedIsLive' /\ v3' \in [Link!Mounts -> Link!Phase]
    BY <1>4, <2>1, PhaseStep DEF Link!Success
  <2>3. /\ UNCHANGED <<v1, v2, v8, v9, v10, v11, v12, v13, v14>>
        /\ v6' = 0 /\ v7' = 0 /\ v4' = TRUE /\ v5' = FALSE
    BY <1>4 DEF Link!Success, Link!output
  <2>4. 0 \in 0 .. MaxReconnects /\ 0 \in 0 .. MaxDropRetries
    BY LinkBounds
  <2> QED BY <2>2, <2>3, <2>4
<1>5. ASSUME NEW b \in BOOLEAN, Link!StartError(b) \/ Link!LostError(b) PROVE LinkInv'
  <2>1. /\ UNCHANGED <<v1, v2, v4, v5, v7, v9, Link!output>> /\ v2
        /\ Link!At("closing") /\ v8' = "disconnected" /\ "closing" \in Link!Phase
        /\ v6' \in {v6, MaxReconnects} /\ v10' \in 0 .. MaxDrops
    BY <1>5, LinkBounds DEF Link!StartError, Link!LostError, Link!Here, Link!Phase
  <2>2. Link!OnlyTheMountTalks' /\ Link!ConnectedIsLive' /\ v3' \in [Link!Mounts -> Link!Phase]
    BY <2>1, PhaseStep
  <2> QED BY <2>1, <2>2, LinkBounds DEF Link!output
<1>6. CASE Link!Drops
  <2>1. /\ UNCHANGED <<v1, v2, Link!retries, v8, v9, Link!output>> /\ v2
        /\ Link!At("closing") /\ "closing" \in Link!Phase /\ v10' \in 0 .. MaxDrops
    BY <1>6, LinkBounds DEF Link!Drops, Link!Here, Link!Phase
  <2>2. Link!OnlyTheMountTalks' /\ Link!ConnectedIsLive' /\ v3' \in [Link!Mounts -> Link!Phase]
    BY <2>1, PhaseStep
  <2> QED BY <2>1, <2>2 DEF Link!output, Link!retries
<1>7. ASSUME NEW b \in BOOLEAN, Link!Output(b) PROVE LinkInv'
  <2>1. UNCHANGED <<v1, v2, v3, Link!retries, v8, v9, v10, v14>>
    BY <1>7 DEF Link!Output
  <2> DEFINE n == Len(v11) + 1
             q == Append(v12, n)
  <2>2. n \in Nat /\ v11' \in Seq(BOOLEAN) /\ Len(v11') = n
    BY <1>7 DEF Link!Output, Link!Arrives
  <2>3. q \in Seq(1 .. n) /\ v14 \in Seq(1 .. n) /\ v13 \in 0 .. n
    BY <2>2, 1 .. Len(v11) \subseteq 1 .. n
  <2>4. v12' \in Seq(1 .. n) /\ v13' \in 0 .. n
    BY <1>7, <2>2, <2>3, PumpStep DEF Link!Output
  <2> HIDE DEF n, q
  <2>5. Link!OnlyTheMountTalks' /\ Link!ConnectedIsLive'
    BY <2>1 DEF Link!OnlyTheMountTalks, Link!ConnectedIsLive, Link!Running
  <2> QED BY <2>1, <2>2, <2>3, <2>4, <2>5 DEF Link!retries
<1>8. CASE Link!Written
  <2>1. UNCHANGED <<v1, v2, v3, Link!retries, v8, v9, v10, v11>>
    BY <1>8 DEF Link!Written
  <2>2. Len(v11) \in Nat /\ v14' \in Seq(1 .. Len(v11))
    BY <1>8 DEF Link!Written
  <2>3. v12' \in Seq(1 .. Len(v11)) /\ v13' \in 0 .. Len(v11)
    BY <1>8, <2>2, PumpStep DEF Link!Written
  <2>4. Link!OnlyTheMountTalks' /\ Link!ConnectedIsLive'
    BY <2>1 DEF Link!OnlyTheMountTalks, Link!ConnectedIsLive, Link!Running
  <2> QED BY <2>1, <2>2, <2>3, <2>4 DEF Link!retries
<1>9. CASE Link!Remount \/ Link!Restart
  <2>1. /\ Link!Starts /\ v1 + 1 \in Link!Mounts /\ v1 \in Link!Mounts /\ v1 # v1 + 1
        /\ v6' \in {0, v6} /\ v7' \in {0, v7}
        /\ v8' \in {"connecting", v8}
    BY <1>9, LinkBounds DEF Link!Remount, Link!Restart, Link!Starts, Link!Mounts
  <2>2. Link!CleanedPhase \in {"sizing", "dialing", "ended"} /\ Link!CleanedPhase \in Link!Phase
    BY DEF Link!CleanedPhase, Link!Phase
  <2>3. v3' \in [Link!Mounts -> Link!Phase] /\ v3'[v1 + 1] = "sizing"
    BY <2>1, <2>2 DEF Link!Starts, Link!Phase
  <2>4. Link!OnlyTheMountTalks'
    BY <2>1, <2>2 DEF Link!Starts, Link!OnlyTheMountTalks, Link!Running, Link!Socket
  <2>5. Link!ConnectedIsLive'
    BY <2>1, <2>3 DEF Link!Starts, Link!ConnectedIsLive
  <2>6. /\ v11' \in Seq(BOOLEAN) /\ v12' \in Seq(1 .. Len(v11')) /\ v14' \in Seq(1 .. Len(v11'))
        /\ v13' \in 0 .. Len(v11')
    BY <2>1 DEF Link!Starts, Link!Cleaned
  <2>7. /\ v1' \in Link!Mounts /\ UNCHANGED <<v2, v9, v10>> /\ v4' = FALSE /\ v5' = FALSE
        /\ v6' \in 0 .. MaxReconnects /\ v7' \in 0 .. MaxDropRetries
    BY <2>1, LinkBounds DEF Link!Starts
  <2> QED BY <2>1, <2>3, <2>4, <2>5, <2>6, <2>7
<1>10. CASE Link!Unmount
  <2>1. Link!CleanedPhase \in {"sizing", "dialing", "ended"} /\ Link!CleanedPhase \in Link!Phase
    BY DEF Link!CleanedPhase, Link!Phase
  <2>2. v3' \in [Link!Mounts -> Link!Phase] /\ Link!OnlyTheMountTalks' /\ Link!ConnectedIsLive'
    BY <1>10, <2>1 DEF Link!Unmount, Link!OnlyTheMountTalks, Link!ConnectedIsLive, Link!Running, Link!Socket
  <2>3. /\ v11' \in Seq(BOOLEAN) /\ v12' \in Seq(1 .. Len(v11')) /\ v14' \in Seq(1 .. Len(v11'))
        /\ v13' \in 0 .. Len(v11')
    BY <1>10 DEF Link!Unmount, Link!Cleaned
  <2>4. UNCHANGED <<v1, v4, v5, v6, v7, v8, v9, v10>> /\ v2' = FALSE
    BY <1>10 DEF Link!Unmount, Link!retries
  <2> QED BY <2>2, <2>3, <2>4
<1>11. CASE Link!ToggleAuto \/ UNCHANGED Link!vars
  <2>1. UNCHANGED <<v1, v2, v3, Link!retries, v8, v10, Link!output>> /\ v9' \in BOOLEAN
    BY <1>11 DEF Link!ToggleAuto, Link!vars, Link!retries, Link!output
  <2> QED BY <2>1 DEF Link!retries, Link!output, Link!OnlyTheMountTalks, Link!ConnectedIsLive, Link!Running
<1> QED BY <1>1, <1>2, <1>3, <1>4, <1>5, <1>6, <1>7, <1>8, <1>9, <1>10, <1>11 DEF Link!Next, Link!Handlers

(* The pump hands the first of what is queued to xterm, which keeps the order. *)
LEMMA PumpOrder ==
  ASSUME NEW t \in Nat, v11' \in Seq(BOOLEAN), NEW q \in Seq(1 .. Len(v11')), v14' \in Seq(1 .. Len(v11')),
         Len(v11') = t + Len(q), \A k \in DOMAIN q : q[k] = t + k,
         {v14'[i] : i \in DOMAIN v14'} = {n \in 1 .. t : ~v11'[n]},
         \A i, j \in DOMAIN v14' : i < j => v14'[i] < v14'[j],
         Link!Pump(q)
  PROVE  Link!OutputInOrder'
<1>1. CASE q = <<>>
  <2>1. v12' = <<>> /\ v13' = 0 /\ t = Len(v11')
    BY <1>1 DEF Link!Pump
  <2>2. Len(v11') - Len(v12') = t
    BY <2>1
  <2> QED BY <2>1, <2>2 DEF Link!OutputInOrder
<1>2. CASE q # <<>>
  <2>1. /\ q[1] = t + 1 /\ Head(q) = t + 1 /\ Len(q) \in Nat \ {0} /\ v12' = Tail(q)
        /\ v13' = IF v11'[t + 1] THEN 0 ELSE t + 1
    BY <1>2 DEF Link!Pump
  <2>a. Len(v12') = Len(q) - 1 /\ DOMAIN v12' = 1 .. Len(q) - 1 /\ \A k \in 1 .. Len(q) - 1 : v12'[k] = q[k + 1]
    BY <1>2, <2>1
  <2>2. /\ Len(v12') = Len(q) - 1 /\ Len(v11') - Len(v12') = t + 1
        /\ \A k \in DOMAIN v12' : v12'[k] = t + 1 + k
    <3>1. Len(v11') - Len(v12') = t + 1
      BY <2>1, <2>a
    <3>2. ASSUME NEW k \in DOMAIN v12' PROVE v12'[k] = t + 1 + k
      <4>1. k \in 1 .. Len(q) - 1 /\ k + 1 \in DOMAIN q /\ v12'[k] = q[k + 1]
        BY <2>1, <2>a
      <4> QED BY <4>1
    <3> QED BY <2>a, <3>1, <3>2
  <2>3. /\ {n \in 1 .. t + 1 : ~v11'[n]} = {n \in 1 .. t : ~v11'[n]} \cup ({v13'} \ {0})
        /\ v13' = 0 => v11'[t + 1]
    BY <2>1
  <2>4. \A i \in DOMAIN v14' : v14'[i] < t + 1
    <3> SUFFICES ASSUME NEW i \in DOMAIN v14' PROVE v14'[i] < t + 1
      OBVIOUS
    <3>1. v14'[i] \in {n \in 1 .. t : ~v11'[n]}
      OBVIOUS
    <3> QED BY <3>1
  <2> QED BY <2>1, <2>2, <2>3, <2>4 DEF Link!OutputInOrder
<1> QED BY <1>1, <1>2

(* Output that neither comes, is written nor is dropped stays as it is. *)
LEMMA OutputStays == Link!OutputInOrder /\ UNCHANGED Link!output => Link!OutputInOrder'
BY DEF Link!OutputInOrder, Link!output

LEMMA OutputStep == LinkInv /\ Link!OutputInOrder /\ [Link!Next]_(Link!vars) => Link!OutputInOrder'
<1> SUFFICES ASSUME LinkInv, Link!OutputInOrder, [Link!Next]_(Link!vars) PROVE Link!OutputInOrder'
  OBVIOUS
<1> DEFINE t == Len(v11) - Len(v12)
<1>1. /\ v11 \in Seq(BOOLEAN) /\ v12 \in Seq(1 .. Len(v11)) /\ v14 \in Seq(1 .. Len(v11)) /\ v13 \in 0 .. Len(v11)
      /\ \A k \in DOMAIN v12 : v12[k] = t + k
      /\ {v14[i] : i \in DOMAIN v14} \cup ({v13} \ {0}) = {n \in 1 .. t : ~v11[n]}
      /\ \A i, j \in DOMAIN v14 : i < j => v14[i] < v14[j]
      /\ v13 # 0 => \A i \in DOMAIN v14 : v14[i] < v13
      /\ v12 # <<>> /\ v13 = 0 => v11[t]
  BY DEF LinkInv, Link!TypeOK, Link!OutputInOrder
<1>2. t \in Nat
  <2>1. CASE v12 = <<>>
    BY <1>1, <2>1
  <2>2. CASE v12 # <<>>
    <3>1. Len(v12) \in DOMAIN v12 /\ 1 \in DOMAIN v12
      BY <1>1, <2>2
    <3>2. v12[1] = t + 1 /\ v12[1] \in 1 .. Len(v11)
      BY <1>1, <3>1
    <3> QED BY <3>2, <1>1
  <2> QED BY <2>1, <2>2
<1>3. Len(v11) = t + Len(v12)
  BY <1>1
<1> HIDE DEF t
<1>4. ASSUME NEW b \in BOOLEAN, Link!Output(b) PROVE Link!OutputInOrder'
  <2> DEFINE q == Append(v12, Len(v11) + 1)
  <2>1. /\ v11' = Append(v11, b) /\ v14' = v14 /\ v11' \in Seq(BOOLEAN) /\ Len(v11') = Len(v11) + 1
        /\ IF v13 # 0 THEN v12' = q /\ v13' = v13 ELSE Link!Pump(q)
    BY <1>1, <1>4 DEF Link!Output, Link!Arrives
  <2>2. q \in Seq(1 .. Len(v11')) /\ v14' \in Seq(1 .. Len(v11')) /\ Len(q) = Len(v12) + 1
    BY <1>1, <2>1, 1 .. Len(v11) \subseteq 1 .. Len(v11')
  <2>3. \A k \in DOMAIN q : q[k] = t + k
    <3> SUFFICES ASSUME NEW k \in DOMAIN q PROVE q[k] = t + k
      OBVIOUS
    <3>1. (k \in DOMAIN v12 /\ q[k] = v12[k]) \/ (k = Len(v12) + 1 /\ q[k] = Len(v11) + 1)
      BY <1>1
    <3>2. (\A j \in DOMAIN v12 : v12[j] = t + j) /\ Len(v11) + 1 = t + (Len(v12) + 1)
      BY <1>1, <1>2, <1>3
    <3> HIDE DEF q
    <3> QED BY <3>1, <3>2
  <2>4. Len(v11') = t + Len(q)
    BY <1>1, <1>2, <1>3, <2>1, <2>2
  <2>5. {n \in 1 .. t : ~v11'[n]} = {n \in 1 .. t : ~v11[n]}
    BY <1>1, <1>2, <1>3, <2>1
  <2> HIDE DEF q
  <2>6. CASE v13 # 0
    <3>0. v12' = q /\ v13' = v13 /\ Len(q) \in Nat
      BY <2>1, <2>2, <2>6
    <3>1. v12' = q /\ v13' = v13 /\ Len(v11') - Len(v12') = t
      BY <1>2, <2>4, <3>0
    <3>2. {v14'[i] : i \in DOMAIN v14'} \cup ({v13'} \ {0}) = {n \in 1 .. t : ~v11'[n]}
      <4>1. v14' = v14
        BY <2>1
      <4>2. {v14'[i] : i \in DOMAIN v14'} = {v14[i] : i \in DOMAIN v14}
        BY <4>1
      <4>3. {v13'} \ {0} = {v13} \ {0}
        BY <3>1
      <4>4. {v14[i] : i \in DOMAIN v14} \cup ({v13} \ {0}) = {n \in 1 .. t : ~v11'[n]}
        BY <1>1, <2>5
      <4> QED BY <4>2, <4>3, <4>4
    <3> QED BY <1>1, <2>1, <2>3, <2>6, <3>1, <3>2 DEF Link!OutputInOrder
  <2>7. CASE v13 = 0
    <3>1. {v14'[i] : i \in DOMAIN v14'} = {n \in 1 .. t : ~v11'[n]}
      <4>1. {v14'[i] : i \in DOMAIN v14'} = {v14[i] : i \in DOMAIN v14}
        BY <2>1
      <4>2. {v13} \ {0} = {}
        BY <2>7
      <4>3. {v14[i] : i \in DOMAIN v14} \cup ({v13} \ {0}) = {n \in 1 .. t : ~v11'[n]}
        BY <1>1, <2>5
      <4> QED BY <4>1, <4>2, <4>3
    <3>2. \A i, j \in DOMAIN v14' : i < j => v14'[i] < v14'[j]
      BY <1>1, <2>1
    <3>3. Link!Pump(q)
      BY <2>1, <2>7
    <3> QED BY <1>2, <2>1, <2>2, <2>3, <2>4, <3>1, <3>2, <3>3, PumpOrder
  <2> QED BY <2>6, <2>7
<1>5. CASE Link!Written
  <2>1. v11' = v11 /\ v14' = Append(v14, v13) /\ Link!Pump(v12) /\ v13 # 0
    BY <1>5 DEF Link!Written
  <2>2. v14' \in Seq(1 .. Len(v11')) /\ Len(v14') = Len(v14) + 1
    BY <1>1, <2>1
  <2>3. /\ \A i \in DOMAIN v14 : v14'[i] = v14[i]
        /\ v14'[Len(v14) + 1] = v13 /\ DOMAIN v14' = DOMAIN v14 \cup {Len(v14) + 1}
    BY <1>1, <2>1
  <2>4. {v14'[i] : i \in DOMAIN v14'} = {v14[i] : i \in DOMAIN v14} \cup {v13}
    BY <2>3
  <2>5. {v14'[i] : i \in DOMAIN v14'} = {n \in 1 .. t : ~v11'[n]}
    BY <1>1, <2>1, <2>4
  <2>6. \A i, j \in DOMAIN v14' : i < j => v14'[i] < v14'[j]
    <3> SUFFICES ASSUME NEW i \in DOMAIN v14', NEW j \in DOMAIN v14', i < j PROVE v14'[i] < v14'[j]
      OBVIOUS
    <3>1. i \in DOMAIN v14
      BY <1>1, <2>2, <2>3
    <3>2. j \in DOMAIN v14 \/ j = Len(v14) + 1
      BY <2>3
    <3> QED BY <1>1, <2>1, <2>3, <3>1, <3>2
  <2> QED BY <1>1, <1>2, <1>3, <2>1, <2>2, <2>5, <2>6, PumpOrder
<1>6. CASE Link!Remount \/ Link!Restart \/ Link!Unmount
  <2>1. Link!Cleaned
    BY <1>6 DEF Link!Remount, Link!Restart, Link!Unmount, Link!Starts
  <2> QED BY <2>1 DEF Link!Cleaned, Link!OutputInOrder
<1>7. ASSUME NEW m \in Link!Mounts, Link!Attempt(m) PROVE UNCHANGED Link!output
  BY <1>7 DEF Link!Attempt, Link!Sized, Link!Endpoint
<1>8. ASSUME NEW b \in BOOLEAN, Link!StartError(b) \/ Link!LostError(b) PROVE UNCHANGED Link!output
  BY <1>8 DEF Link!StartError, Link!LostError
<1>9. CASE \/ Link!NoEndpoint \/ Link!TimerFires \/ Link!Opens \/ Link!Refused \/ Link!Success \/ Link!PtyStarted
           \/ Link!Closed \/ Link!DropsEarly \/ Link!Drops \/ Link!ToggleAuto \/ UNCHANGED Link!vars
  <2>1. UNCHANGED Link!output
    BY <1>9 DEF Link!NoEndpoint, Link!TimerFires, Link!Opens, Link!Refused, Link!Success, Link!PtyStarted,
                Link!Closed, Link!DropsEarly, Link!Drops, Link!ToggleAuto, Link!vars, Link!output
  <2> QED BY <2>1, OutputStays
<1> QED BY <1>4, <1>5, <1>6, <1>7, <1>8, <1>9, OutputStays DEF Link!Next, Link!Handlers

(***************************************************************************)
(* The size of a terminal                                                  *)
(***************************************************************************)
(* The induction needs that the size last sent is the terminal's: a size equal to it is *)
(* not sent again, so were it another one, a terminal coming back to it would leave its *)
(* shell with the size in between.                                                      *)
Cells == (Nat \ {0}) \X (Nat \ {0})
FitSound == Fit!Inv /\ v3 = v2 /\ v2 \in Cells

LEMMA CellsOf == Sizes \subseteq Cells /\ Fresh \in Cells /\ \A s \in Cells : s[1] \in Nat \ {0} /\ s[2] \in Nat \ {0} /\ s = <<s[1], s[2]>>
BY ConnectionsConstants DEF Cells

LEMMA FitInit == Fit!Init => FitSound
<1> SUFFICES ASSUME Fit!Init PROVE FitSound
  OBVIOUS
<1>1. Fit!TypeOK
  BY DEF Fit!Init, Fit!TypeOK
<1>2. Fit!SizeReachesShell
  BY DEF Fit!Init, Fit!SizeReachesShell
<1>3. v2 \in Cells /\ v3 = v2
  BY CellsOf DEF Fit!Init
<1> QED BY <1>1, <1>2, <1>3 DEF FitSound, Fit!Inv

(* Setting the size tells the shell, if its socket is open. *)
LEMMA FitTells ==
  ASSUME NEW size \in Cells, v3 = v2, Fit!TermIs(size), v5' = v5, v5 = "open" => v4 = v2
  PROVE  v2' = size /\ v3' = v2' /\ (v5' = "open" => v4' = v2')
BY DEF Fit!TermIs

(* A fit ends with the rows, and the columns or the timer for them. *)
LEMMA FitFits ==
  ASSUME FitSound, NEW immediate \in BOOLEAN, Fit!FitTerminal(immediate), UNCHANGED <<v1, v5>>
  PROVE  /\ v2' \in Cells /\ v3' = v2' /\ (v5' = "open" => v4' = v2')
         /\ v9' \in {0} \cup {s[1] : s \in Sizes}
         /\ v1 # Fit!Hidden => /\ v2'[2] = v1[2]
                               /\ IF v2'[1] = v1[1] THEN v9' \in {0, v1[1]} ELSE v9' = v1[1]
<1> USE DEF FitSound, Fit!Inv, Fit!TypeOK, Fit!SizeReachesShell
<1>1. CASE v1 = Fit!Hidden
  BY <1>1 DEF Fit!FitTerminal, Fit!Unchanged
<1>2. CASE v1 # Fit!Hidden /\ (immediate \/ ~v11)
  <2>1. v1 \in Cells /\ Fit!TermIs(v1) /\ v9' = 0
    BY <1>2, CellsOf DEF Fit!FitTerminal
  <2> QED BY <1>2, <2>1, FitTells
<1>3. CASE v1 # Fit!Hidden /\ ~immediate /\ v11
  <2> DEFINE size == <<v2[1], v1[2]>>
  <2>1. v1 \in Sizes /\ size \in Cells /\ size[1] = v2[1] /\ size[2] = v1[2]
    BY <1>3, CellsOf DEF Cells
  <2>2. Fit!TermIs(size) /\ v9' = IF v1[1] = v2[1] THEN 0 ELSE v1[1]
    BY <1>3 DEF Fit!FitTerminal
  <2> HIDE DEF size
  <2>3. v2' = size /\ v3' = v2' /\ (v5' = "open" => v4' = v2')
    BY <2>1, <2>2, FitTells
  <2> QED BY <2>1, <2>2, <2>3
<1> QED BY <1>1, <1>2, <1>3

LEMMA FitStep == FitSound /\ [Fit!Next]_(Fit!vars) => FitSound'
<1> SUFFICES ASSUME FitSound, [Fit!Next]_(Fit!vars) PROVE FitSound'
  OBVIOUS
<1> USE DEF FitSound, Fit!Inv, Fit!TypeOK, Fit!SizeReachesShell
<1>1. ASSUME NEW size \in Sizes \cup {Fit!Hidden}, Fit!Container(size) PROVE FitSound'
  BY <1>1 DEF Fit!Container, Fit!Unchanged
<1>2. ASSUME NEW size \in Sizes \cup {Fit!Hidden}, Fit!Font(size) PROVE FitSound'
  <2>1. size \in Cells /\ Fit!TermIs(size) /\ v9' = 0 /\ v1' = size /\ v5' = v5
    BY <1>2, CellsOf DEF Fit!Font
  <2>2. v2' = size /\ v3' = v2' /\ (v5' = "open" => v4' = v2')
    BY <2>1, FitTells
  <2> QED BY <2>1, <2>2
<1>3. CASE Fit!WindowResize \/ Fit!Settle \/ Fit!Activate \/ Fit!Scroll \/ UNCHANGED Fit!vars
  <2>1. UNCHANGED <<v1, v2, v3, v4, v5, v6, v9>>
    BY <1>3 DEF Fit!WindowResize, Fit!Settle, Fit!Activate, Fit!Scroll, Fit!Unchanged, Fit!pending, Fit!vars
  <2> QED BY <2>1
<1>4. CASE Fit!Observe
  <2>1. CASE v1 \in {Fit!Hidden, Tiny}
    BY <1>4, <2>1 DEF Fit!Observe, Fit!Unchanged
  <2>2. CASE v1 \notin {Fit!Hidden, Tiny}
    <3>1. Fit!FitTerminal(FALSE) /\ UNCHANGED <<v1, v5>>
      BY <1>4, <2>2 DEF Fit!Observe
    <3> QED BY <2>2, <3>1, FitFits
  <2> QED BY <2>1, <2>2
<1>5. CASE Fit!Frame
  <2>1. Fit!FitTerminal(FALSE) /\ UNCHANGED <<v1, v5, v6>>
    BY <1>5 DEF Fit!Frame
  <2> QED BY <2>1, FitFits
<1>6. CASE Fit!ColumnTimer
  <2>1. CASE v1 = Fit!Hidden
    BY <1>6, <2>1 DEF Fit!ColumnTimer, Fit!Unchanged
  <2>2. CASE v1 # Fit!Hidden
    <3> DEFINE size == <<v9, v2[2]>>
    <3>1. PICK s \in Sizes : v9 = s[1]
      BY <1>6 DEF Fit!ColumnTimer
    <3>2. size \in Cells /\ size[1] = v9 /\ size[2] = v2[2]
      BY <3>1, CellsOf DEF Cells
    <3>3. Fit!TermIs(size) /\ v9' = 0 /\ UNCHANGED <<v1, v5, v6>> /\ v9 # 0
      BY <1>6, <2>2 DEF Fit!ColumnTimer
    <3> HIDE DEF size
    <3>4. v2' = size /\ v3' = v2' /\ (v5' = "open" => v4' = v2')
      BY <3>2, <3>3, FitTells
    <3> QED BY <3>2, <3>3, <3>4
  <2> QED BY <2>1, <2>2
<1>7. CASE Fit!Focus
  <2>1. CASE v1 = Fit!Hidden
    BY <1>7, <2>1 DEF Fit!Focus, Fit!Unchanged
  <2>2. CASE v1 # Fit!Hidden
    <3>1. Fit!FitTerminal(TRUE) /\ UNCHANGED <<v1, v5, v6>>
      BY <1>7, <2>2 DEF Fit!Focus
    <3> QED BY <3>1, FitFits
  <2> QED BY <2>1, <2>2
<1>8. CASE Fit!Sized
  <2>1. UNCHANGED <<v1, v6, v9>> /\ v5' # "open"
    BY <1>8 DEF Fit!Sized, Fit!pending
  <2>2. CASE v1 = Fit!Hidden
    BY <1>8, <2>1, <2>2 DEF Fit!Sized, Fit!Unchanged
  <2>3. CASE v1 # Fit!Hidden
    <3>1. Fit!TermIs(v1) /\ v1 \in Cells
      BY <1>8, <2>3, CellsOf DEF Fit!Sized
    <3>2. v2' = v1 /\ v3' = v2'
      BY <3>1 DEF Fit!TermIs
    <3> QED BY <2>1, <3>1, <3>2
  <2> QED BY <2>2, <2>3
<1>9. CASE Fit!Opens \/ Fit!Closes
  BY <1>9 DEF Fit!Opens, Fit!Closes, Fit!pending
<1> QED BY <1>1, <1>2, <1>3, <1>4, <1>5, <1>6, <1>7, <1>8, <1>9 DEF Fit!Next

(***************************************************************************)
(* Keyboard-interactive challenges                                         *)
(***************************************************************************)
BrokerCame == v7 \cup v8 \cup v10   \* events, prompts and answers: what names a challenge

(* Numbers of attempts and ids of challenges are given once and never again. *)
BrokerIds ==
  /\ \A a, b \in v1 : a.n = b.n => a = b
  /\ \A a \in v1 : a.n <= v2 /\ (a.asked # None => a.asked <= v5) /\ (a.stage = "asking" => a.asked # None)
  /\ \A c \in Hosts : v4[c] # None => v4[c].n <= v2
  /\ \A x \in BrokerCame : x.id <= v5

(* The sender that the broker keeps for a connection is that of an attempt on it, which *)
(* waits for the answer to just this challenge.                                         *)
BrokerHolds ==
  \A c \in Hosts : v4[c] # None =>
    \A a \in v1 : a.n = v4[c].n => a.of = c /\ a.stage = "asking" /\ a.asked = v4[c].id

(* Two attempts on a connection have met. *)
BrokerMeets == \A a, b \in v1 : a.of = b.of /\ a # b => a.of \in v11

(* What names the challenge of an attempt is about its connection. *)
BrokerNames == \A x \in BrokerCame, a \in v1 : x.id = a.asked => x.of = a.of

BrokerSound == Broker!Inv /\ BrokerIds /\ BrokerHolds /\ BrokerMeets /\ BrokerNames

BrokerAttempts ==
  [n : 1 .. MaxDials, of : Hosts, stage : {"working", "asking", "settled"},
   asked : Broker!Ids \cup {None}, heard : Broker!Ids \cup {None}]

LEMMA BrokerTypes ==
  Broker!TypeOK => /\ v1 \subseteq BrokerAttempts /\ v2 \in 0 .. MaxDials /\ v5 \in 0 .. MaxChallenges /\ MaxDials \in Nat /\ MaxChallenges \in Nat
                   /\ v4 \in [Hosts -> [id : Broker!Ids, n : 1 .. MaxDials] \cup {None}]
                   /\ None \notin Broker!Ids /\ Broker!Ids = 1 .. MaxChallenges /\ None \notin Nat
                   /\ \A a \in v1 : a.asked # None => [id |-> a.asked, n |-> a.n] # None
                   /\ \A a \in v1 : a.n \in 1 .. MaxDials /\ a.of \in Hosts /\ a.asked \in Broker!Ids \cup {None}
                   /\ \A x \in BrokerCame : x.id \in Broker!Ids /\ x.of \in Hosts
<1> SUFFICES ASSUME Broker!TypeOK
             PROVE  /\ None \notin Broker!Ids
                    /\ \A a \in v1 : a.n \in 1 .. MaxDials /\ a.of \in Hosts /\ a.asked \in Broker!Ids \cup {None}
                    /\ \A a \in v1 : a.asked # None => [id |-> a.asked, n |-> a.n] # None
                    /\ \A x \in BrokerCame : x.id \in Broker!Ids /\ x.of \in Hosts
  BY ConnectionsConstants DEF Broker!TypeOK, BrokerAttempts, Broker!Ids
<1>1. None \notin Broker!Ids
  BY ConnectionsConstants DEF Broker!Ids
<1>2. \A a \in v1 : a.n \in 1 .. MaxDials /\ a.of \in Hosts /\ a.asked \in Broker!Ids \cup {None}
  BY DEF Broker!TypeOK
<1>3. \A x \in BrokerCame : x.id \in Broker!Ids /\ x.of \in Hosts
  BY DEF Broker!TypeOK, BrokerCame, Broker!Prompts
<1>4. \A i, j \in Nat : [id |-> i, n |-> j] # None
  BY ConnectionsConstants
<1>5. \A a \in v1 : a.asked # None => a.asked \in Nat /\ a.n \in Nat
  BY <1>2, ConnectionsConstants DEF Broker!Ids
<1> QED BY <1>1, <1>2, <1>3, <1>4, <1>5

LEMMA BrokerInit == Broker!Init => BrokerSound
<1> SUFFICES ASSUME Broker!Init PROVE BrokerSound
  OBVIOUS
<1>1. Broker!TypeOK
  BY ConnectionsConstants DEF Broker!Init, Broker!TypeOK
<1>2. Broker!AnswerIsOwn /\ Broker!AskerHasPrompt
  BY DEF Broker!Init, Broker!AnswerIsOwn, Broker!AskerHasPrompt
<1>3. BrokerIds /\ BrokerHolds /\ BrokerMeets /\ BrokerNames
  BY DEF Broker!Init, BrokerIds, BrokerHolds, BrokerMeets, BrokerNames, BrokerCame
<1> QED BY <1>1, <1>2, <1>3 DEF BrokerSound, Broker!Inv

LEMMA BrokerBegins ==
  ASSUME BrokerSound, NEW c \in Hosts, NEW ok \in BOOLEAN, Broker!Begin(c, ok)
  PROVE  BrokerSound'
<1> DEFINE new == [n |-> v2', of |-> c, stage |-> "working", asked |-> None, heard |-> None]
<1>0. Broker!TypeOK /\ Broker!AnswerIsOwn /\ Broker!AskerHasPrompt /\ BrokerIds /\ BrokerHolds /\ BrokerMeets /\ BrokerNames
  BY DEF BrokerSound, Broker!Inv
<1>1. UNCHANGED <<v4, v5, v7, v8, v9, v10, v12, v13>> /\ v6' \in {"none", "ready", "broken"} /\ BrokerCame' = BrokerCame
  BY <1>0 DEF Broker!Begin, Broker!ensureReady, Broker!TypeOK, BrokerCame
<1>2. CASE UNCHANGED <<v1, v2, v3, v11>>
  <2>1. Broker!TypeOK'
    BY <1>0, <1>1, <1>2 DEF Broker!TypeOK
  <2>2. Broker!AnswerIsOwn' /\ Broker!AskerHasPrompt'
    BY <1>0, <1>1, <1>2 DEF Broker!AnswerIsOwn, Broker!AskerHasPrompt
  <2>3. BrokerIds' /\ BrokerHolds' /\ BrokerMeets' /\ BrokerNames'
    BY <1>0, <1>1, <1>2 DEF BrokerIds, BrokerHolds, BrokerMeets, BrokerNames
  <2> QED BY <2>1, <2>2, <2>3 DEF BrokerSound, Broker!Inv
<1>3. CASE ~UNCHANGED <<v1, v2, v3, v11>>
  <2>1. /\ v2 < MaxDials /\ v2' = v2 + 1 /\ v3' = [v3 EXCEPT ![c] = v2'] /\ v1' = v1 \cup {new}
        /\ v11' = v11 \cup {a.of : a \in {b \in v1 : b.of = c}}
    BY <1>3 DEF Broker!Begin
  <2>2. new.n = v2' /\ new.of = c /\ new.stage = "working" /\ new.asked = None /\ new.heard = None /\ v2' \in 1 .. MaxDials
    BY <1>0, <2>1, BrokerTypes
  <2>3. new \in BrokerAttempts
    BY <2>2 DEF BrokerAttempts
  <2>4. v11' \subseteq Hosts /\ v11 \subseteq v11' /\ \A a \in v1 : a.of = c => c \in v11'
    BY <1>0, <2>1 DEF Broker!TypeOK
  <2> HIDE DEF new
  <2>5. \A a \in v1 : a.n <= v2 /\ a.n # v2'
    BY <1>0, <2>1, BrokerTypes DEF BrokerIds
  <2>6. Broker!TypeOK'
    <3>1. v1' \subseteq BrokerAttempts /\ v3' \in [Hosts -> (1 .. MaxDials) \cup {None}] /\ v2' \in 0 .. MaxDials
      BY <1>0, <2>1, <2>2, <2>3, BrokerTypes DEF Broker!TypeOK
    <3> QED BY <1>0, <1>1, <2>4, <3>1 DEF Broker!TypeOK, BrokerAttempts
  <2>7. Broker!AnswerIsOwn'
    BY <1>0, <2>1, <2>2 DEF Broker!AnswerIsOwn
  <2>8. Broker!AskerHasPrompt'
    BY <1>0, <1>1, <2>1, <2>2, <2>4 DEF Broker!AskerHasPrompt
  <2>9. BrokerIds'
    BY <1>0, <1>1, <2>1, <2>2, <2>5, BrokerTypes DEF BrokerIds
  <2>10. BrokerHolds'
    BY <1>0, <1>1, <2>1, <2>2, BrokerTypes DEF BrokerIds, BrokerHolds
  <2>11. BrokerMeets'
    BY <1>0, <2>1, <2>2, <2>4 DEF BrokerMeets
  <2>12. BrokerNames'
    BY <1>0, <1>1, <2>1, <2>2, BrokerTypes DEF BrokerNames
  <2> QED BY <2>6, <2>7, <2>8, <2>9, <2>10, <2>11, <2>12 DEF BrokerSound, Broker!Inv
<1> QED BY <1>2, <1>3

LEMMA BrokerAsks ==
  ASSUME BrokerSound, NEW a \in v1, NEW empty \in BOOLEAN, Broker!request(a, empty)
  PROVE  BrokerSound'
<1> DEFINE b == [a EXCEPT !.stage = "asking", !.asked = v5']
           e == [id |-> v5', of |-> a.of, empty |-> empty]
<1>0. Broker!TypeOK /\ Broker!AnswerIsOwn /\ Broker!AskerHasPrompt /\ BrokerIds /\ BrokerHolds /\ BrokerMeets /\ BrokerNames
  BY DEF BrokerSound, Broker!Inv
<1>1. /\ UNCHANGED <<v2, v3, v6, v8, v9, v10, v11, v12, v13>> /\ v5 < MaxChallenges /\ v5' = v5 + 1
      /\ v1' = (v1 \ {a}) \cup {b} /\ v7' = v7 \cup {e} /\ v4' = [v4 EXCEPT ![a.of] = [id |-> v5', n |-> a.n]]
      /\ a.stage = "working"
  BY DEF Broker!request, Broker!Becomes
<1>2. a \in BrokerAttempts /\ a.of \in Hosts /\ a.n \in 1 .. MaxDials /\ v5' \in 1 .. MaxChallenges
  BY <1>0, <1>1, BrokerTypes
<1>3. b.n = a.n /\ b.of = a.of /\ b.stage = "asking" /\ b.asked = v5' /\ b.heard = a.heard /\ b \in BrokerAttempts
  BY <1>2 DEF BrokerAttempts, Broker!Ids
<1>4. e.id = v5' /\ e.of = a.of /\ e \in [id : Broker!Ids, of : Hosts, empty : BOOLEAN]
  BY <1>2 DEF Broker!Ids
<1> HIDE DEF b, e
<1>5. BrokerCame' = BrokerCame \cup {e}
  BY <1>1 DEF BrokerCame
<1>6. \A x \in v1 \ {a} : x.n # a.n /\ x.asked # v5'
  BY <1>0, <1>1, BrokerTypes DEF BrokerIds
<1>7. \A x \in BrokerCame : x.id # v5'
  BY <1>0, <1>1, BrokerTypes DEF BrokerIds
<1>8. \A c \in Hosts : v4[c] # None => v4[c].n # a.n
  BY <1>0, <1>1 DEF BrokerHolds
<1>9. v4'[a.of] = [id |-> v5', n |-> a.n] /\ v4'[a.of].id = v5' /\ v4'[a.of].n = a.n /\ \A c \in Hosts \ {a.of} : v4'[c] = v4[c]
  BY <1>0, <1>1, <1>2, BrokerTypes
<1>10. Broker!TypeOK'
  <2>1. v4' \in [Hosts -> [id : Broker!Ids, n : 1 .. MaxDials] \cup {None}]
    BY <1>0, <1>1, <1>2, BrokerTypes
  <2> QED BY <1>0, <1>1, <1>2, <1>3, <1>4, <2>1 DEF Broker!TypeOK, BrokerAttempts
<1>11. Broker!AnswerIsOwn'
  BY <1>0, <1>1, <1>3 DEF Broker!AnswerIsOwn
<1>12. Broker!AskerHasPrompt'
  <2> SUFFICES ASSUME NEW x \in v1', x.stage = "asking", v4'[x.of] = [id |-> x.asked, n |-> x.n],
                      x.of \notin v11, x.asked \notin v12
               PROVE  \E y \in BrokerCame' : y.id = x.asked
    BY <1>1 DEF Broker!AskerHasPrompt, BrokerCame
  <2>1. CASE x = b
    BY <1>3, <1>4, <1>5, <2>1
  <2>2. CASE x # b
    <3>1. x \in v1 /\ x # a /\ x.of \in Hosts
      BY <1>0, <1>1, <2>2, BrokerTypes
    <3>2. x.of # a.of
      BY <1>0, <3>1, <1>6, <1>9
    <3>3. \E y \in BrokerCame : y.id = x.asked
      BY <1>0, <1>9, <3>1, <3>2 DEF Broker!AskerHasPrompt, BrokerCame
    <3> QED BY <1>5, <3>3
  <2> QED BY <2>1, <2>2
<1>13. BrokerIds'
  <2>1. \A x, y \in v1' : x.n = y.n => x = y
    BY <1>0, <1>1, <1>3, <1>6 DEF BrokerIds
  <2>2. \A x \in v1' : x.n <= v2' /\ (x.asked # None => x.asked <= v5') /\ (x.stage = "asking" => x.asked # None)
    BY <1>0, <1>1, <1>2, <1>3, BrokerTypes DEF BrokerIds
  <2>3. \A c \in Hosts : v4'[c] # None => v4'[c].n <= v2'
    BY <1>0, <1>1, <1>9 DEF BrokerIds
  <2>4. \A x \in BrokerCame' : x.id <= v5'
    BY <1>0, <1>1, <1>2, <1>4, <1>5, BrokerTypes DEF BrokerIds
  <2> QED BY <2>1, <2>2, <2>3, <2>4 DEF BrokerIds
<1>14. BrokerHolds'
  BY <1>0, <1>1, <1>3, <1>6, <1>8, <1>9 DEF BrokerHolds
<1>15. BrokerMeets'
  BY <1>0, <1>1, <1>3 DEF BrokerMeets
<1>16. BrokerNames'
  BY <1>0, <1>1, <1>3, <1>4, <1>5, <1>6, <1>7 DEF BrokerNames
<1> QED BY <1>10, <1>11, <1>12, <1>13, <1>14, <1>15, <1>16 DEF BrokerSound, Broker!Inv

LEMMA BrokerEnds ==
  ASSUME BrokerSound, NEW a \in v1, Broker!Ends(a)
  PROVE  BrokerSound'
<1> DEFINE b == [a EXCEPT !.stage = "settled"]
<1>0. Broker!TypeOK /\ Broker!AnswerIsOwn /\ Broker!AskerHasPrompt /\ BrokerIds /\ BrokerHolds /\ BrokerMeets /\ BrokerNames
  BY DEF BrokerSound, Broker!Inv
<1>1. /\ UNCHANGED <<v2, v5, v6, v7, v8, v9, v10, v11, v12, v13>> /\ BrokerCame' = BrokerCame
      /\ v1' = (v1 \ {a}) \cup {b} /\ v3' = [v3 EXCEPT ![a.of] = None] /\ v4' = [v4 EXCEPT ![a.of] = None]
  BY DEF Broker!Ends, Broker!Becomes, Broker!webview, BrokerCame
<1>2. a \in BrokerAttempts /\ a.of \in Hosts
  BY <1>0, BrokerTypes
<1>3. b.n = a.n /\ b.of = a.of /\ b.stage = "settled" /\ b.asked = a.asked /\ b \in BrokerAttempts
  BY <1>2 DEF BrokerAttempts
<1> HIDE DEF b
<1>4. \A c \in Hosts : v4'[c] = (IF c = a.of THEN None ELSE v4[c])
  BY <1>0, <1>1, <1>2, BrokerTypes
<1>5. Broker!TypeOK'
  BY <1>0, <1>1, <1>3, <1>4, BrokerTypes DEF Broker!TypeOK, BrokerAttempts
<1>6. Broker!AnswerIsOwn'
  BY <1>0, <1>1, <1>3 DEF Broker!AnswerIsOwn
<1>7. Broker!AskerHasPrompt'
  <2> SUFFICES ASSUME NEW x \in v1', x.stage = "asking", v4'[x.of] = [id |-> x.asked, n |-> x.n],
                      x.of \notin v11, x.asked \notin v12
               PROVE  \E y \in BrokerCame : y.id = x.asked
    BY <1>1 DEF Broker!AskerHasPrompt, BrokerCame
  <2>1. x \in v1 /\ x.of \in Hosts
    BY <1>0, <1>1, <1>3, BrokerTypes
  <2>2. v4[x.of] = [id |-> x.asked, n |-> x.n]
    BY <1>0, <1>4, <2>1, BrokerTypes DEF BrokerIds
  <2> QED BY <1>0, <2>1, <2>2 DEF Broker!AskerHasPrompt, BrokerCame
<1>8. BrokerIds'
  BY <1>0, <1>1, <1>3, <1>4 DEF BrokerIds
<1>9. BrokerHolds'
  BY <1>0, <1>1, <1>3, <1>4 DEF BrokerHolds
<1>10. BrokerMeets'
  BY <1>0, <1>1, <1>3 DEF BrokerMeets
<1>11. BrokerNames'
  BY <1>0, <1>1, <1>3 DEF BrokerNames
<1> QED BY <1>5, <1>6, <1>7, <1>8, <1>9, <1>10, <1>11 DEF BrokerSound, Broker!Inv

LEMMA BrokerCancels ==
  ASSUME BrokerSound, NEW c \in Hosts, Broker!cancel_pending_connection(c)
  PROVE  BrokerSound'
<1>0. Broker!TypeOK /\ Broker!AnswerIsOwn /\ Broker!AskerHasPrompt /\ BrokerIds /\ BrokerHolds /\ BrokerMeets /\ BrokerNames
  BY DEF BrokerSound, Broker!Inv
<1>1. /\ UNCHANGED <<v1, v2, v5, v6, v7, v8, v9, v10, v11, v12, v13>> /\ BrokerCame' = BrokerCame
      /\ v3' = [v3 EXCEPT ![c] = None] /\ v4' = [v4 EXCEPT ![c] = None]
  BY DEF Broker!cancel_pending_connection, Broker!webview, BrokerCame
<1>2. \A h \in Hosts : v4'[h] = (IF h = c THEN None ELSE v4[h])
  BY <1>0, <1>1, BrokerTypes
<1>3. Broker!TypeOK'
  BY <1>0, <1>1 DEF Broker!TypeOK
<1>4. Broker!AnswerIsOwn' /\ BrokerMeets' /\ BrokerNames'
  BY <1>0, <1>1 DEF Broker!AnswerIsOwn, BrokerMeets, BrokerNames
<1>5. Broker!AskerHasPrompt'
  <2> SUFFICES ASSUME NEW x \in v1, x.stage = "asking", v4'[x.of] = [id |-> x.asked, n |-> x.n],
                      x.of \notin v11, x.asked \notin v12
               PROVE  \E y \in BrokerCame : y.id = x.asked
    BY <1>1 DEF Broker!AskerHasPrompt, BrokerCame
  <2>1. x.of \in Hosts
    BY <1>0, BrokerTypes
  <2>2. v4[x.of] = [id |-> x.asked, n |-> x.n]
    BY <1>0, <1>2, <2>1, BrokerTypes DEF BrokerIds
  <2> QED BY <1>0, <2>2 DEF Broker!AskerHasPrompt, BrokerCame
<1>6. BrokerIds' /\ BrokerHolds'
  BY <1>0, <1>1, <1>2 DEF BrokerIds, BrokerHolds
<1> QED BY <1>3, <1>4, <1>5, <1>6 DEF BrokerSound, Broker!Inv

(* Prompts go with the attempt that ended, or at the user's will, and come and are answered: *)
(* a step of the webview keeps the prompts that an attempt may still wait for.               *)
LEMMA BrokerShows ==
  ASSUME BrokerSound, UNCHANGED <<v2, v4, v5, v11>>, v1' \subseteq v1, v12 \subseteq v12', Broker!TypeOK',
         \A x \in BrokerCame' : \E y \in BrokerCame : x.id = y.id /\ x.of = y.of,
         \A a \in v1', y \in BrokerCame :
            a.stage = "asking" /\ y.id = a.asked /\ y.of = a.of /\ a.of \notin v11 /\ a.asked \notin v12'
               => \E x \in BrokerCame' : x.id = a.asked
  PROVE  BrokerSound'
<1>0. Broker!TypeOK /\ Broker!AnswerIsOwn /\ Broker!AskerHasPrompt /\ BrokerIds /\ BrokerHolds /\ BrokerMeets /\ BrokerNames
  BY DEF BrokerSound, Broker!Inv
<1>1. Broker!AnswerIsOwn' /\ BrokerMeets' /\ BrokerHolds'
  BY <1>0 DEF Broker!AnswerIsOwn, BrokerMeets, BrokerHolds
<1>2. BrokerNames'
  BY <1>0 DEF BrokerNames
<1>3. BrokerIds'
  BY <1>0 DEF BrokerIds
<1>4. Broker!AskerHasPrompt'
  <2> SUFFICES ASSUME NEW a \in v1', a.stage = "asking", v4[a.of] = [id |-> a.asked, n |-> a.n],
                      a.of \notin v11, a.asked \notin v12'
               PROVE  \E x \in BrokerCame' : x.id = a.asked
    BY DEF Broker!AskerHasPrompt, BrokerCame
  <2>1. PICK y \in BrokerCame : y.id = a.asked
    BY <1>0 DEF Broker!AskerHasPrompt, BrokerCame
  <2>2. y.of = a.of
    BY <1>0, <2>1 DEF BrokerNames
  <2> QED BY <2>1, <2>2
<1> QED BY <1>1, <1>2, <1>3, <1>4 DEF BrokerSound, Broker!Inv

LEMMA BrokerFinishes ==
  ASSUME BrokerSound, NEW a \in v1, Broker!Finish(a)
  PROVE  BrokerSound'
<1>0. Broker!TypeOK /\ BrokerMeets
  BY DEF BrokerSound, Broker!Inv
<1>1. /\ UNCHANGED <<v2, v3, v4, v5, v6, v7, v9, v10, v11, v12, v13>> /\ v1' = v1 \ {a}
      /\ v8' = {q \in v8 : q.of # a.of \/ q.id \notin Broker!Ids}
  BY DEF Broker!Finish, Broker!removeChallenge
<1>2. Broker!TypeOK'
  BY <1>0, <1>1 DEF Broker!TypeOK
<1>3. \A x \in BrokerCame' : x \in BrokerCame
  BY <1>1 DEF BrokerCame
<1>4. ASSUME NEW b \in v1', NEW y \in BrokerCame, y.of = b.of, b.of \notin v11
      PROVE  y \in BrokerCame'
  <2>1. b.of # a.of
    BY <1>0, <1>1, <1>4 DEF BrokerMeets
  <2> QED BY <1>1, <1>4, <2>1 DEF BrokerCame
<1> QED BY <1>1, <1>2, <1>3, <1>4, BrokerShows

LEMMA BrokerDelivers ==
  ASSUME BrokerSound, NEW e \in v7, Broker!Deliver(e)
  PROVE  BrokerSound'
<1> DEFINE r == [id |-> e.id, of |-> e.of]
           q == [id |-> e.id, of |-> e.of, nth |-> v13']
<1>0. Broker!TypeOK
  BY DEF BrokerSound, Broker!Inv
<1>1. /\ UNCHANGED <<v1, v2, v3, v4, v5, v6, v9, v11, v12>> /\ v7' = v7 \ {e}
      /\ \/ v10' = v10 \cup {r} /\ UNCHANGED <<v8, v13>>
         \/ v13' = v13 + 1 /\ v8' = v8 \cup {q} /\ v10' = v10
  BY DEF Broker!Deliver
<1>2. e.id \in Broker!Ids /\ e.of \in Hosts /\ v13' \in Nat
  BY <1>0, <1>1 DEF Broker!TypeOK
<1>3. r \in Broker!Prompts /\ q \in [id : Broker!Ids, of : Hosts, nth : Nat]
  BY <1>2 DEF Broker!Prompts
<1>4. r.id = e.id /\ r.of = e.of /\ q.id = e.id /\ q.of = e.of
  OBVIOUS
<1> HIDE DEF r, q
<1>5. Broker!TypeOK'
  BY <1>0, <1>1, <1>2, <1>3 DEF Broker!TypeOK
<1>6. e \in BrokerCame /\ \A x \in BrokerCame' : x \in BrokerCame \/ x = r \/ x = q
  BY <1>1 DEF BrokerCame
<1>7. \A y \in BrokerCame : y = e \/ y \in BrokerCame'
  BY <1>1 DEF BrokerCame
<1>8. r \in BrokerCame' \/ q \in BrokerCame'
  BY <1>1 DEF BrokerCame
<1>9. \A x \in BrokerCame' : \E y \in BrokerCame : x.id = y.id /\ x.of = y.of
  BY <1>4, <1>6
<1>10. \A y \in BrokerCame : \E x \in BrokerCame' : x.id = y.id
  BY <1>4, <1>7, <1>8
<1> QED BY <1>1, <1>5, <1>9, <1>10, BrokerShows

LEMMA BrokerSubmits ==
  ASSUME BrokerSound, NEW q \in v8, Broker!Submit(q)
  PROVE  BrokerSound'
<1> DEFINE r == [id |-> q.id, of |-> q.of]
<1>0. Broker!TypeOK
  BY DEF BrokerSound, Broker!Inv
<1>1. /\ UNCHANGED <<v1, v2, v3, v4, v5, v6, v7, v8, v11, v12, v13>>
      /\ v9' = q.id /\ v10' = v10 \cup {r}
  BY DEF Broker!Submit
<1>2. q.id \in Broker!Ids /\ q.of \in Hosts
  BY <1>0 DEF Broker!TypeOK
<1>3. r \in Broker!Prompts /\ r.id = q.id /\ r.of = q.of
  BY <1>2 DEF Broker!Prompts
<1> HIDE DEF r
<1>4. Broker!TypeOK'
  BY <1>0, <1>1, <1>2, <1>3 DEF Broker!TypeOK
<1>5. q \in BrokerCame /\ BrokerCame' = BrokerCame \cup {r}
  BY <1>1 DEF BrokerCame
<1> QED BY <1>1, <1>3, <1>4, <1>5, BrokerShows

LEMMA BrokerDismisses ==
  ASSUME BrokerSound, NEW q \in v8, Broker!Dismiss(q)
  PROVE  BrokerSound'
<1>0. Broker!TypeOK
  BY DEF BrokerSound, Broker!Inv
<1>1. /\ UNCHANGED <<v1, v2, v3, v4, v5, v6, v7, v9, v10, v11, v13>>
      /\ v12' = v12 \cup {p.id : p \in {x \in v8 : x.of = q.of}}
      /\ v8' = {x \in v8 : x.of # q.of \/ x.id \notin Broker!Ids}
  BY DEF Broker!Dismiss, Broker!removeChallenge
<1>2. \A x \in v8 : x.id \in Broker!Ids
  BY <1>0 DEF Broker!TypeOK
<1>3. Broker!TypeOK'
  BY <1>0, <1>1, <1>2 DEF Broker!TypeOK
<1>4. \A x \in BrokerCame' : x \in BrokerCame
  BY <1>1 DEF BrokerCame
<1>5. \A y \in BrokerCame : y.id \in v12' \/ y \in BrokerCame'
  BY <1>1 DEF BrokerCame
<1> QED BY <1>1, <1>3, <1>4, <1>5, BrokerShows

(* An answer that the broker takes is that to the challenge its attempt asked. *)
LEMMA BrokerResponds ==
  ASSUME BrokerSound, NEW r \in v10, Broker!respond(r)
  PROVE  BrokerSound'
<1>0. Broker!TypeOK /\ Broker!AnswerIsOwn /\ Broker!AskerHasPrompt /\ BrokerIds /\ BrokerHolds /\ BrokerMeets /\ BrokerNames
  BY DEF BrokerSound, Broker!Inv
<1>1. UNCHANGED <<v2, v3, v5, v6, v7, v11, v12, v13>> /\ v10' = v10 \ {r} /\ r.id \in Broker!Ids /\ r.of \in Hosts /\ r \in BrokerCame
  BY <1>0, BrokerTypes DEF Broker!respond, BrokerCame
<1>2. CASE ~(v4[r.of] # None /\ v4[r.of].id = r.id)
  <2>1. UNCHANGED <<v1, v4, v8>> /\ v9' \in {v9, None}
    BY <1>2 DEF Broker!respond, Broker!Refused
  <2>2. Broker!TypeOK'
    BY <1>0, <1>1, <2>1 DEF Broker!TypeOK
  <2>3. \A x \in BrokerCame' : x \in BrokerCame
    BY <1>1, <2>1 DEF BrokerCame
  <2>4. \A y \in BrokerCame : y = r \/ y \in BrokerCame'
    BY <1>1, <2>1 DEF BrokerCame
  <2>5. Broker!AskerHasPrompt'
    <3> SUFFICES ASSUME NEW a \in v1, a.stage = "asking", v4[a.of] = [id |-> a.asked, n |-> a.n],
                        a.of \notin v11, a.asked \notin v12
                 PROVE  \E x \in BrokerCame' : x.id = a.asked
      BY <1>1, <2>1 DEF Broker!AskerHasPrompt, BrokerCame
    <3>1. PICK y \in BrokerCame : y.id = a.asked
      BY <1>0 DEF Broker!AskerHasPrompt, BrokerCame
    <3>2. v4[a.of] # None /\ v4[a.of].id = a.asked
      BY <1>0, BrokerTypes DEF BrokerIds
    <3>3. y # r
      BY <1>0, <1>2, <3>1, <3>2 DEF BrokerNames
    <3> QED BY <2>4, <3>1, <3>3
  <2>6. Broker!AnswerIsOwn' /\ BrokerIds' /\ BrokerHolds' /\ BrokerMeets' /\ BrokerNames'
    BY <1>0, <1>1, <2>1, <2>3 DEF Broker!AnswerIsOwn, BrokerIds, BrokerHolds, BrokerMeets, BrokerNames
  <2> QED BY <2>2, <2>5, <2>6 DEF BrokerSound, Broker!Inv
<1>3. CASE v4[r.of] # None /\ v4[r.of].id = r.id
  <2> DEFINE n == v4[r.of].n
             Heard(a) == IF a.n = n THEN [a EXCEPT !.stage = "working", !.heard = r.id] ELSE a
  <2>1. /\ v1' = {Heard(a) : a \in v1} /\ v4' = [v4 EXCEPT ![r.of] = None] /\ v9' = v9
        /\ v8' = {q \in v8 : q.of # r.of \/ q.id \notin {r.id}}
    BY <1>3 DEF Broker!respond, Broker!Hears, Broker!removeChallenge
  <2>2. ASSUME NEW a \in v1
        PROVE  /\ Heard(a) \in BrokerAttempts /\ Heard(a).n = a.n /\ Heard(a).of = a.of /\ Heard(a).asked = a.asked
               /\ a.n = n => a.asked = r.id /\ a.of = r.of /\ Heard(a).stage = "working" /\ Heard(a).heard = r.id
               /\ a.n # n => Heard(a) = a
    <3>1. a \in BrokerAttempts
      BY <1>0, BrokerTypes
    <3>2. a.n = n => a.asked = r.id /\ a.of = r.of
      BY <1>0, <1>1, <1>3 DEF BrokerHolds
    <3> QED BY <1>1, <3>1, <3>2 DEF BrokerAttempts
  <2> HIDE DEF n, Heard
  <2>3. \A x \in v1' : \E a \in v1 : x = Heard(a)
    BY <2>1
  <2>4. \A c \in Hosts : v4'[c] = (IF c = r.of THEN None ELSE v4[c])
    BY <1>0, <1>1, <2>1, BrokerTypes
  <2>5. \A x \in BrokerCame' : x \in BrokerCame
    BY <1>1, <2>1 DEF BrokerCame
  <2>6. \A y \in BrokerCame : (y.id = r.id) \/ y \in BrokerCame'
    BY <1>1, <2>1 DEF BrokerCame
  <2>7. Broker!TypeOK'
    <3>1. v1' \subseteq BrokerAttempts
      BY <2>2, <2>3
    <3>2. v4' \in [Hosts -> [id : Broker!Ids, n : 1 .. MaxDials] \cup {None}] /\ v8' \subseteq v8 /\ v10' \subseteq v10
      BY <1>0, <1>1, <2>1, BrokerTypes
    <3> QED BY <1>0, <1>1, <2>1, <3>1, <3>2 DEF Broker!TypeOK, BrokerAttempts
  <2>8. Broker!AnswerIsOwn'
    <3> SUFFICES ASSUME NEW x \in v1', x.stage = "working" PROVE x.heard = x.asked
      BY DEF Broker!AnswerIsOwn
    <3>1. PICK a \in v1 : x = Heard(a)
      BY <2>3
    <3> QED BY <1>0, <2>2, <3>1 DEF Broker!AnswerIsOwn
  <2>9. Broker!AskerHasPrompt'
    <3> SUFFICES ASSUME NEW x \in v1', x.stage = "asking", v4'[x.of] = [id |-> x.asked, n |-> x.n],
                        x.of \notin v11, x.asked \notin v12
                 PROVE  \E y \in BrokerCame' : y.id = x.asked
      BY <1>1 DEF Broker!AskerHasPrompt, BrokerCame
    <3>1. PICK a \in v1 : x = Heard(a)
      BY <2>3
    <3>2. x = a /\ a.n # n /\ a.of \in Hosts
      BY <1>0, <2>2, <3>1, BrokerTypes
    <3>3. a.of # r.of /\ v4[a.of] = [id |-> a.asked, n |-> a.n]
      BY <1>0, <2>4, <3>2, BrokerTypes DEF BrokerIds
    <3>4. PICK y \in BrokerCame : y.id = a.asked
      BY <1>0, <3>2, <3>3 DEF Broker!AskerHasPrompt, BrokerCame
    <3>5. y.id # r.id
      BY <1>0, <1>1, <3>3, <3>4 DEF BrokerNames
    <3> QED BY <2>6, <3>2, <3>4, <3>5
  <2>10. BrokerIds'
    <3>1. \A x, y \in v1' : x.n = y.n => x = y
      BY <1>0, <2>2, <2>3 DEF BrokerIds
    <3>2. \A x \in v1' : x.n <= v2' /\ (x.asked # None => x.asked <= v5') /\ (x.stage = "asking" => x.asked # None)
      BY <1>0, <1>1, <2>2, <2>3 DEF BrokerIds
    <3>3. \A c \in Hosts : v4'[c] # None => v4'[c].n <= v2'
      BY <1>0, <1>1, <2>4 DEF BrokerIds
    <3>4. \A x \in BrokerCame' : x.id <= v5'
      BY <1>0, <1>1, <2>5 DEF BrokerIds
    <3> QED BY <3>1, <3>2, <3>3, <3>4 DEF BrokerIds
  <2>11. BrokerHolds'
    <3> SUFFICES ASSUME NEW c \in Hosts, v4'[c] # None, NEW x \in v1', x.n = v4'[c].n
                 PROVE  x.of = c /\ x.stage = "asking" /\ x.asked = v4'[c].id
      BY DEF BrokerHolds
    <3>1. c # r.of /\ v4'[c] = v4[c]
      BY <2>4
    <3>2. PICK a \in v1 : x = Heard(a)
      BY <2>3
    <3>3. a.of = c /\ a.stage = "asking" /\ a.asked = v4[c].id
      BY <1>0, <2>2, <3>1, <3>2 DEF BrokerHolds
    <3>4. x = a
      BY <2>2, <3>1, <3>2, <3>3
    <3> QED BY <3>1, <3>3, <3>4
  <2>12. BrokerMeets'
    BY <1>0, <1>1, <2>2, <2>3 DEF BrokerMeets
  <2>13. BrokerNames'
    BY <1>0, <2>2, <2>3, <2>5 DEF BrokerNames
  <2> QED BY <2>7, <2>8, <2>9, <2>10, <2>11, <2>12, <2>13 DEF BrokerSound, Broker!Inv
<1> QED BY <1>2, <1>3

LEMMA BrokerStep == BrokerSound /\ [Broker!Next]_(Broker!vars) => BrokerSound'
<1> SUFFICES ASSUME BrokerSound, [Broker!Next]_(Broker!vars) PROVE BrokerSound'
  OBVIOUS
<1>1. CASE UNCHANGED Broker!vars
  BY <1>1 DEF Broker!vars, BrokerSound, Broker!Inv, Broker!TypeOK, Broker!AnswerIsOwn, Broker!AskerHasPrompt,
              BrokerIds, BrokerHolds, BrokerMeets, BrokerNames, BrokerCame
<1>2. CASE Broker!Next
  BY <1>2, BrokerBegins, BrokerCancels, BrokerEnds, BrokerFinishes, BrokerAsks, BrokerDelivers, BrokerSubmits,
     BrokerDismisses, BrokerResponds DEF Broker!Next
<1> QED BY <1>1, <1>2

(***************************************************************************)
(* The compose pane                                                        *)
(***************************************************************************)
(* Each terminal has a text of its own in sessionStorage; the editor's is that of the terminal *)
(* it was mounted for.                                                                         *)
ComposeSound ==
  /\ Compose!TypeOK /\ Compose!DraftsKept
  /\ v5 \in [Terminals -> Compose!Texts] /\ v9 \in [Terminals -> Compose!Texts]

LEMMA ComposeBlank == <<>> \in Compose!Texts
<1>1. <<>> \in [1 .. 0 -> {"x", "cr", "lf"}] /\ 0 \in 0 .. MaxText
  BY ConnectionsConstants
<1> QED BY <1>1 DEF Compose!Texts, Compose!BoundedSeq, Compose!SeqOf

LEMMA ComposeInit == Compose!Init => ComposeSound
BY ComposeBlank, ConnectionsConstants DEF Compose!Init, ComposeSound, Compose!TypeOK, Compose!DraftsKept

LEMMA ComposeStep == ComposeSound /\ [Compose!Next]_(Compose!vars) => ComposeSound'
<1> SUFFICES ASSUME ComposeSound, [Compose!Next]_(Compose!vars) PROVE ComposeSound'
  OBVIOUS
<1>0. /\ v1 \in Terminals \cup {None} /\ v2 \in Compose!Texts /\ v8 \subseteq v7 /\ None \notin Terminals
      /\ v5 \in [Terminals -> Compose!Texts] /\ v9 \in [Terminals -> Compose!Texts]
      /\ \A t \in Terminals : v9[t] = (IF t = v1 THEN v2 ELSE v5[t])
  BY ConnectionsConstants DEF ComposeSound, Compose!TypeOK, Compose!DraftsKept
<1> DEFINE Kept == /\ v1' \in Terminals \cup {None} /\ v2' \in Compose!Texts /\ v8' \subseteq v7'
                   /\ v5' \in [Terminals -> Compose!Texts] /\ v9' \in [Terminals -> Compose!Texts]
                   /\ \A t \in Terminals : v9'[t] = (IF t = v1' THEN v2' ELSE v5'[t])
<1>1. ASSUME Kept PROVE ComposeSound'
  BY <1>1 DEF ComposeSound, Compose!TypeOK, Compose!DraftsKept
<1>2. ASSUME NEW t \in Terminals \cup {None}, Compose!Show(t) PROVE Kept
  <2>1. /\ v1' = t /\ UNCHANGED <<v7, v8, v9>>
        /\ v5' = IF v1 = None THEN v5 ELSE [v5 EXCEPT ![v1] = v2]
        /\ v2' = IF t = None THEN <<>> ELSE v5'[t]
    BY <1>2 DEF Compose!Show, Compose!Mounts, Compose!link
  <2>2. v5' \in [Terminals -> Compose!Texts] /\ \A u \in Terminals : v5'[u] = (IF u = v1 THEN v2 ELSE v5[u])
    BY <1>0, <2>1
  <2>3. v2' \in Compose!Texts
    BY <1>2, <2>1, <2>2, ComposeBlank
  <2> QED BY <1>0, <2>1, <2>2, <2>3
<1>3. ASSUME NEW text \in Compose!Texts, Compose!Type(text) PROVE Kept
  <2>1. UNCHANGED <<v1, v5, v7, v8>> /\ v2' = text /\ v9' = [v9 EXCEPT ![v1] = text]
    BY <1>3 DEF Compose!Type, Compose!Edits, Compose!link
  <2> QED BY <1>0, <2>1
<1>4. CASE Compose!Debounced
  <2>1. UNCHANGED <<v1, v2, v7, v8, v9>> /\ v5' = [v5 EXCEPT ![v1] = v2]
    BY <1>4 DEF Compose!Debounced, Compose!link
  <2> QED BY <1>0, <1>1, <2>1
<1>5. CASE Compose!handleClear
  <2>1. UNCHANGED <<v1, v7, v8>> /\ v2' = <<>> /\ v5' = [v5 EXCEPT ![v1] = <<>>] /\ v9' = [v9 EXCEPT ![v1] = <<>>]
    BY <1>5 DEF Compose!handleClear, Compose!Clears, Compose!Edits, Compose!link
  <2> QED BY <1>0, <1>1, <2>1, ComposeBlank
<1>6. CASE Compose!handleSend
  <2>1. CASE Compose!Sent(v1) /\ v4
    <3>1. UNCHANGED <<v1, v7, v8>> /\ v2' = <<>> /\ v5' = [v5 EXCEPT ![v1] = <<>>] /\ v9' = [v9 EXCEPT ![v1] = <<>>]
      BY <1>6, <2>1 DEF Compose!handleSend, Compose!Delivers, Compose!Clears, Compose!Edits, Compose!link
    <3> QED BY <1>0, <1>1, <3>1, ComposeBlank
  <2>2. CASE ~(Compose!Sent(v1) /\ v4)
    <3>1. UNCHANGED <<v1, v2, v5, v7, v8, v9>>
      BY <1>6, <2>2 DEF Compose!handleSend, Compose!Delivers, Compose!link
    <3> QED BY <1>0, <1>1, <3>1
  <2> QED BY <2>1, <2>2
<1>7. ASSUME NEW t \in Terminals, Compose!Opens(t) \/ Compose!Closes(t) \/ Compose!Unmounts(t) \/ Compose!Reports(t)
      PROVE  Kept
  <2>1. UNCHANGED <<v1, v2, v5, v9>> /\ v8' \subseteq v7'
    BY <1>0, <1>7 DEF Compose!Opens, Compose!Closes, Compose!Unmounts, Compose!Reports
  <2> QED BY <1>0, <2>1
<1>8. CASE Compose!ToggleClear \/ UNCHANGED Compose!vars
  <2>1. UNCHANGED <<v1, v2, v5, v7, v8, v9>>
    BY <1>8 DEF Compose!ToggleClear, Compose!vars, Compose!link
  <2> QED BY <1>0, <1>1, <2>1
<1> QED BY <1>1, <1>2, <1>3, <1>4, <1>5, <1>6, <1>7, <1>8 DEF Compose!Next

(***************************************************************************)
(* The parts together                                                      *)
(***************************************************************************)
LEMMA PartsStep ==
  [Next]_vars => /\ part' = part
                 /\ part = "file" => [File!Next]_(File!vars)
                 /\ part = "ssh" => [Ssh!Next]_(Ssh!vars)
                 /\ part = "link" => [Link!Next]_(Link!vars)
                 /\ part = "fit" => [Fit!Next]_(Fit!vars)
                 /\ part = "challenge" => [Broker!Next]_(Broker!vars)
                 /\ part = "compose" => [Compose!Next]_(Compose!vars)
<1> SUFFICES ASSUME [Next]_vars
             PROVE  /\ part' = part
                    /\ part = "file" => [File!Next]_(File!vars)
                    /\ part = "ssh" => [Ssh!Next]_(Ssh!vars)
                    /\ part = "link" => [Link!Next]_(Link!vars)
                    /\ part = "fit" => [Fit!Next]_(Fit!vars)
                    /\ part = "challenge" => [Broker!Next]_(Broker!vars)
                    /\ part = "compose" => [Compose!Next]_(Compose!vars)
  OBVIOUS
<1>1. part' = part
  BY DEF Next, vars
<1>2. ASSUME part = "file" PROVE [File!Next]_(File!vars)
  BY <1>2 DEF Next, vars, File!vars, File!uiVars, File!dlgVars, File!backVars, File!attVars
<1>3. ASSUME part = "ssh" PROVE [Ssh!Next]_(Ssh!vars)
  BY <1>3 DEF Next, vars, Ssh!vars, Ssh!uiVars, Ssh!dlgVars, Ssh!formVars, Ssh!attVars
<1>4. ASSUME part = "link" PROVE [Link!Next]_(Link!vars)
  BY <1>4 DEF Next, vars, Link!vars
<1>5. ASSUME part = "fit" PROVE [Fit!Next]_(Fit!vars)
  BY <1>5 DEF Next, vars, Fit!vars
<1>6. ASSUME part = "challenge" PROVE [Broker!Next]_(Broker!vars)
  BY <1>6 DEF Next, vars, Broker!vars
<1>7. ASSUME part = "compose" PROVE [Compose!Next]_(Compose!vars)
  BY <1>7 DEF Next, vars, Compose!vars, Compose!link
<1> QED BY <1>1, <1>2, <1>3, <1>4, <1>5, <1>6, <1>7

(* What holds of the part that runs. *)
Sound ==
  /\ part = "file" => FileSound
  /\ part = "ssh" => SshSound
  /\ part = "link" => LinkInv /\ Link!OutputInOrder
  /\ part = "fit" => FitSound
  /\ part = "challenge" => BrokerSound
  /\ part = "compose" => ComposeSound

LEMMA SoundInit == Init => Sound
<1> SUFFICES ASSUME Init PROVE Sound
  OBVIOUS
<1>1. /\ part = "file" => File!Init
      /\ part = "ssh" => Ssh!Init
      /\ part = "link" => Link!Init
      /\ part = "fit" => Fit!Init
      /\ part = "challenge" => Broker!Init
      /\ part = "compose" => Compose!Init
  BY DEF Init
<1>2. Link!Init => Link!OutputInOrder
  BY DEF Link!Init, Link!OutputInOrder
<1> QED BY <1>1, <1>2, FileInit, SshInit, LinkInit, FitInit, BrokerInit, ComposeInit DEF Sound

LEMMA SoundStep == Sound /\ [Next]_vars => Sound'
<1> SUFFICES ASSUME Sound, [Next]_vars PROVE Sound'
  OBVIOUS
<1>1. part = "file" => FileSound'
  BY PartsStep, FileStep DEF Sound
<1>2. part = "ssh" => SshSound'
  BY PartsStep, SshStep DEF Sound
<1>3. part = "link" => LinkInv' /\ Link!OutputInOrder'
  BY PartsStep, LinkStep, OutputStep DEF Sound
<1>4. part = "fit" => FitSound'
  BY PartsStep, FitStep DEF Sound
<1>5. part = "challenge" => BrokerSound'
  BY PartsStep, BrokerStep DEF Sound
<1>6. part = "compose" => ComposeSound'
  BY PartsStep, ComposeStep DEF Sound
<1> QED BY <1>1, <1>2, <1>3, <1>4, <1>5, <1>6, PartsStep DEF Sound

LEMMA PartsAreSound == Spec => []Sound
<1> QED BY SoundInit, SoundStep, PTL DEF Spec

(* A file tab called connected has its session, nothing spins for an attempt that was     *)
(* replaced, an aborted attempt leaves nothing connected, and a connection has one        *)
(* command in the backend; a terminal tab called connected has a session and a terminal   *)
(* that has not given up: in App.tsx, ssh-connect.ts and connection_manager.rs, however   *)
(* attempts, retries, trust dialogs, closings and the answers of the backend interleave.  *)
THEOREM SessionsOfTabs == Spec => []TabsHaveSessions
<1>1. Sound => TabsHaveSessions
  BY DEF Sound, FileSound, SshSound, TabsHaveSessions
<1> QED BY <1>1, PartsAreSound, PTL

(* No answer, failure or status of an attempt brings back a terminal tab that was closed: *)
(* only the first step of an opening and the saved form show one.                         *)
THEOREM LateAnswers == Spec => LateAnswerRevivesNothing
<1>1. Sound /\ [Next]_vars => [part = "ssh" => Ssh!ShowsOnlyOpened]_vars
  BY PartsStep, SshRevives DEF Sound, SshSound, Ssh!Inv
<1> QED BY <1>1, PartsAreSound, PTL DEF Spec, LateAnswerRevivesNothing

(* Only the mounted run of the effect of pty-terminal.tsx has a socket or a timer; the    *)
(* application is told "connected" only of a session that started and whose end is not    *)
(* yet known; a drop finds the count of drops at zero; and xterm is given what the shell  *)
(* writes in order, without gaps and once, whatever chunks, drops and restarts come       *)
(* between.                                                                               *)
THEOREM OutputOfLinks == Spec => []OutputInOrder
<1>1. Sound => OutputInOrder
  BY DEF Sound, LinkInv, OutputInOrder, Link!Inv
<1> QED BY <1>1, PartsAreSound, PTL

(* While its socket is open, a shell has been told the size of its terminal: whatever      *)
(* container sizes, fonts, frames, debounced columns and reconnections interleave.         *)
THEOREM SizesReachShells == Spec => []SizeReachesShell
<1>1. Sound => SizeReachesShell
  BY DEF Sound, FitSound, SizeReachesShell
<1> QED BY <1>1, PartsAreSound, PTL

(* An attempt hears only the answer to the challenge it asked last, and while an answer    *)
(* could still reach it its prompt is on its way, shown or answered, unless the user       *)
(* closed it or two attempts on the connection met.                                        *)
THEOREM PromptsAndAnswers == Spec => []PromptsReachAttempts
<1>1. Sound => PromptsReachAttempts
  BY DEF Sound, BrokerSound, PromptsReachAttempts
<1> QED BY <1>1, PartsAreSound, PTL

(* What was typed for a terminal is in its editor or saved under its own name, until it is *)
(* erased or delivered: whatever editors come and go, saves are pending or sends fail.     *)
THEOREM DraftsOfTerminals == Spec => [](part = "compose" => Compose!TypeOK /\ Compose!DraftsKept)
<1>1. Sound => (part = "compose" => Compose!TypeOK /\ Compose!DraftsKept)
  BY DEF Sound, ComposeSound
<1> QED BY <1>1, PartsAreSound, PTL
=============================================================================
