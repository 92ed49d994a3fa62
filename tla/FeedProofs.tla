------------------------------ MODULE FeedProofs ------------------------------
(***************************************************************************)
(* What a webview shows of the transfer queue and what its done promises   *)
(* say, for every set of jobs, batch length and number of other calls.     *)
(*                                                                         *)
(* None of NoRollback, ViewCatchesUp and PromiseIsTrue is inductive.  What *)
(* makes them so is an order on statuses: snapshots that are still on      *)
(* their way are behind the queue and, among themselves, in the order of   *)
(* their revisions (SnapshotsSound); the list is behind the queue and      *)
(* behind every snapshot it may still apply (ViewSound); and a call that   *)
(* may still fail holds jobs that the queue does not know and the list     *)
(* shows as queued (CallsSound).                                           *)
(***************************************************************************)
EXTENDS TransferFeed, SequenceTheorems, TLAPS

\* The order of statuses: a later one has a higher rank.
Le(s, t) == Rank(s) < Rank(t) \/ s = t

\* Every snapshot that may still be applied.
Sent == outbox \cup (IF query = NONE THEN {} ELSE {query})

\* The queue: a job waits, is served or has an outcome, and its item is in the list from
\* when it is accepted until it is cleared.
QueueSound ==
  /\ IsInjective(line)
  /\ \A j \in Range(line) \cup serving : outcome[j] = NONE /\ j \in present
  /\ Range(line) \cap serving = {}
  /\ (present \cup accepted) \cap Queue!Unknown = {}
  /\ changes = 0 => present = {}

\* A snapshot shows what was true when it was taken, and later ones no earlier status.
SnapshotsSound ==
  /\ \A m \in outbox : m.event \subseteq DOMAIN m.items \cap submitted
  /\ \A m \in Sent :
       /\ m.rev <= changes /\ DOMAIN m.items \cap Queue!Unknown = {}
       /\ \A j \in DOMAIN m.items : Le(m.items[j], Status(j))
       /\ m.rev = changes => m.items = Items
  /\ \A m, n \in Sent : m.rev < n.rev =>
       \A j \in DOMAIN m.items \cap DOMAIN n.items : Le(m.items[j], n.items[j])

\* What is shown is behind the queue and behind every snapshot that is still to come.
ViewSound ==
  /\ revision <= changes
  /\ DOMAIN view \cap Queue!Unknown \subseteq submitted
  /\ \A j \in DOMAIN view \ Queue!Unknown : Le(view[j], Status(j))
  /\ \A m \in Sent : m.rev > revision =>
       \A j \in DOMAIN m.items \cap DOMAIN view : Le(view[j], m.items[j])
  /\ revision = changes => \A j \in present : j \in DOMAIN view /\ view[j] = Status(j)

\* A call that may still fail has open jobs that the queue does not know and the list
\* shows as queued; no two calls have a job in common.
CallsSound ==
  /\ \A j \in Jobs : promise[j] # NONE => j \in submitted
  /\ \A c \in calls : Range(c.ids) \subseteq submitted
  /\ \A c \in calls : c.stage = "ok" => Range(c.ids) \cap Queue!Unknown = {}
  /\ \A c \in calls : c.stage # "ok" => \A j \in Range(c.ids) :
       j \in pending \cap Open \cap Queue!Unknown /\ view[j] = "queued"
  /\ \A c, d \in calls : c # d => Range(c.ids) \cap Range(d.ids) = {}

\* From the answer to the query on, the newest snapshot is applied or on its way.
NewestComes ==
  /\ query # NONE => ready = "querying"
  /\ ready = "yes" \/ query # NONE =>
       changes = 0 \/ revision = changes \/ \E m \in Sent : m.rev = changes

FeedInv ==
  /\ TypeOK /\ CancelNotLost /\ pending \subseteq DOMAIN view /\ PromiseIsTrue
  /\ QueueSound /\ SnapshotsSound /\ ViewSound /\ CallsSound /\ NewestComes

(***************************************************************************)
(* Sequences                                                               *)
(***************************************************************************)

\* A sequence without its k-th element: those behind it move up.
LEMMA RemovedAt ==
  ASSUME NEW S, NEW s \in Seq(S), NEW k \in 1 .. Len(s)
  PROVE  LET w == SubSeq(s, 1, k - 1) \o SubSeq(s, k + 1, Len(s))
         IN  /\ w \in Seq(S) /\ Len(w) = Len(s) - 1 /\ DOMAIN w = 1 .. Len(w)
             /\ \A a \in 1 .. Len(w) : w[a] = IF a < k THEN s[a] ELSE s[a + 1]
<1> DEFINE p == SubSeq(s, 1, k - 1)
           q == SubSeq(s, k + 1, Len(s))
<1>1. Len(s) \in Nat /\ k \in Int /\ 1 <= k /\ k <= Len(s) /\ \A i \in 1 .. Len(s) : s[i] \in S
  OBVIOUS
<1>2. p \in Seq(S) /\ Len(p) = k - 1 /\ \A i \in 1 .. (k - 1) : p[i] = s[i]
  <2>1. 1 \in Int /\ k - 1 \in Int /\ \A i \in 1 .. (k - 1) : s[i] \in S
    BY <1>1
  <2>2. /\ p \in Seq(S) /\ Len(p) = IF 1 <= k - 1 THEN k - 1 - 1 + 1 ELSE 0
        /\ \A i \in 1 .. (k - 1 - 1 + 1) : p[i] = s[1 + i - 1]
    BY <2>1, SubSeqProperties
  <2>3. \A i \in 1 .. (k - 1) : i \in 1 .. (k - 1 - 1 + 1) /\ 1 + i - 1 = i
    BY <1>1
  <2> QED BY <1>1, <2>2, <2>3
<1>3. q \in Seq(S) /\ Len(q) = Len(s) - k /\ \A i \in 1 .. (Len(s) - k) : q[i] = s[i + k]
  <2>1. k + 1 \in Int /\ Len(s) \in Int /\ \A i \in (k + 1) .. Len(s) : s[i] \in S
    BY <1>1
  <2>2. /\ q \in Seq(S) /\ Len(q) = IF k + 1 <= Len(s) THEN Len(s) - (k + 1) + 1 ELSE 0
        /\ \A i \in 1 .. (Len(s) - (k + 1) + 1) : q[i] = s[k + 1 + i - 1]
    BY <2>1, SubSeqProperties
  <2>3. \A i \in 1 .. (Len(s) - k) : i \in 1 .. (Len(s) - (k + 1) + 1) /\ k + 1 + i - 1 = i + k
    BY <1>1
  <2> QED BY <1>1, <2>2, <2>3
<1> HIDE DEF p, q
<1>4. /\ p \o q \in Seq(S) /\ Len(p \o q) = Len(s) - 1
      /\ \A i \in 1 .. (Len(p) + Len(q)) : (p \o q)[i] = IF i <= Len(p) THEN p[i] ELSE q[i - Len(p)]
  <2>1. /\ p \o q \in Seq(S) /\ Len(p \o q) = Len(p) + Len(q)
        /\ \A i \in 1 .. (Len(p) + Len(q)) : (p \o q)[i] = IF i <= Len(p) THEN p[i] ELSE q[i - Len(p)]
    BY <1>2, <1>3, ConcatProperties
  <2> QED BY <1>1, <1>2, <1>3, <2>1
<1>5. \A i \in 1 .. (Len(s) - 1) : (p \o q)[i] = IF i < k THEN s[i] ELSE s[i + 1]
  <2> SUFFICES ASSUME NEW i \in 1 .. (Len(s) - 1)
               PROVE  (p \o q)[i] = IF i < k THEN s[i] ELSE s[i + 1]
    OBVIOUS
  <2>1. i \in Nat /\ 1 <= i /\ i <= Len(s) - 1
    BY <1>1
  <2>2. (p \o q)[i] = IF i <= k - 1 THEN p[i] ELSE q[i - (k - 1)]
    BY <1>1, <1>2, <1>3, <1>4, <2>1
  <2> HIDE DEF p, q
  <2>3. CASE i < k
    <3>1. i <= k - 1 /\ i \in 1 .. (k - 1)
      BY <1>1, <2>1, <2>3
    <3> QED BY <1>2, <2>2, <2>3, <3>1
  <2>4. CASE i >= k
    <3>1. ~(i <= k - 1) /\ i - (k - 1) \in 1 .. (Len(s) - k) /\ i - (k - 1) + k = i + 1 /\ ~(i < k)
      BY <1>1, <2>1, <2>4
    <3> QED BY <1>3, <2>2, <3>1
  <2>5. i < k \/ i >= k
    BY <1>1, <2>1
  <2> QED BY ONLY <2>3, <2>4, <2>5
<1>6. PICK w : w = p \o q
  OBVIOUS
<1>7. /\ w \in Seq(S) /\ Len(w) = Len(s) - 1 /\ DOMAIN w = 1 .. Len(w)
      /\ \A a \in 1 .. Len(w) : w[a] = IF a < k THEN s[a] ELSE s[a + 1]
  BY <1>1, <1>4, <1>5, <1>6
<1>8. w = SubSeq(s, 1, k - 1) \o SubSeq(s, k + 1, Len(s))
  BY <1>6 DEF p, q
<1> QED BY ONLY <1>7, <1>8

(***************************************************************************)
(* Statuses                                                                *)
(***************************************************************************)

LEMMA Ranks ==
  /\ Rank("queued") = 0 /\ Rank("transferring") = 1 /\ Rank("cancelling") = 2
  /\ \A o \in Outcomes : Rank(o) = 3
  /\ \A s \in Statuses : Rank(s) \in 0 .. 3
BY DEF Rank, Outcomes, Statuses

LEMMA LeFacts ==
  /\ \A s, t, u \in Statuses : Le(s, t) /\ Le(t, u) => Le(s, u)
  /\ \A s \in Statuses : Le(s, s) /\ Le("queued", s)
  /\ \A s \in Statuses, o \in Outcomes : Le(s, o) \/ s \in Outcomes
  /\ \A s \in Statuses, o \in Outcomes : Le(o, s) => s = o
BY Ranks DEF Le, Outcomes, Statuses

LEMMA StatusType ==
  ASSUME TypeOK
  PROVE  /\ \A j \in Jobs : Status(j) \in Statuses
         /\ \A j \in Jobs : Status(j) \in Outcomes <=> outcome[j] # NONE
         /\ \A j \in Jobs : outcome[j] # NONE => Status(j) = outcome[j]
         /\ Items \in Lists /\ DOMAIN Items = present
<1>1. \A j \in Jobs : Status(j) \in Statuses
  BY DEF TypeOK, Status, Statuses
<1>2. \A j \in Jobs : Status(j) \in Outcomes <=> outcome[j] # NONE
  BY FeedConstants DEF TypeOK, Status, Outcomes
<1>3. Items \in [present -> Statuses] /\ present \in SUBSET Jobs
  BY <1>1 DEF TypeOK, Items
<1> QED BY <1>1, <1>2, <1>3 DEF Lists, Status

LEMMA ListFacts == \A f \in Lists : DOMAIN f \subseteq Jobs /\ \A j \in DOMAIN f : f[j] \in Statuses
BY DEF Lists

LEMMA NotAnAnswer == NONE \notin Snapshots /\ NONE \notin Outcomes
BY FeedConstants

(***************************************************************************)
(* What a step of the queue does to its jobs                               *)
(***************************************************************************)

\* The queue goes on: the jobs in new become known, no status goes back, and an outcome
\* and a request to stop are kept.
GoesOn(new) ==
  /\ Queue!Unknown' = Queue!Unknown \ new
  /\ \A j \in Jobs : j \notin Queue!Unknown => Le(Status(j), Status(j)')
  /\ \A j \in Jobs : outcome[j] # NONE => outcome'[j] = outcome[j]
  /\ \A j \in stopping : j \in stopping' \/ outcome'[j] # NONE
  /\ IsInjective(line') /\ Range(line') \cap serving' = {}
  /\ \A j \in Range(line') \cup serving' : outcome'[j] = NONE
  /\ Range(line') \cup serving' \subseteq Range(line) \cup serving \cup new
  /\ line' \in Seq(Jobs) /\ serving' \subseteq Jobs /\ stopping' \subseteq serving'
  /\ outcome' \in [Jobs -> Outcomes \cup {NONE}]

LEMMA UnknownIs ==
  Queue!Unknown = {j \in Jobs : outcome[j] = NONE} \ (Range(line) \cup serving)
BY DEF Queue!Unknown, Queue!InLine, Range

LEMMA UnknownWillBe ==
  Queue!Unknown' = {j \in Jobs : outcome'[j] = NONE} \ (Range(line') \cup serving')
BY DEF Queue!Unknown, Queue!InLine, Range

LEMMA BeginGoesOn ==
  ASSUME TypeOK, QueueSound, Queue!Begin
  PROVE  GoesOn({})
<1>1. /\ line \in Seq(Jobs) /\ line # <<>> /\ serving = {} /\ stopping = {}
      /\ serving' = {Head(line)} /\ line' = Tail(line) /\ UNCHANGED <<stopping, outcome>>
      /\ \A k, l \in DOMAIN line : line[k] = line[l] => k = l
  BY DEF TypeOK, QueueSound, Queue!Begin, IsInjective
<1>2. /\ line' \in Seq(Jobs) /\ Head(line) \in Jobs /\ Len(line') = Len(line) - 1 /\ Len(line) \in Nat \ {0}
      /\ Head(line) = line[1] /\ \A k \in 1 .. Len(line') : line'[k] = line[k + 1]
      /\ DOMAIN line = 1 .. Len(line) /\ DOMAIN line' = 1 .. Len(line')
  BY <1>1
<1>3. Range(line) = Range(line') \cup {Head(line)}
  <2>1. ASSUME NEW k \in DOMAIN line PROVE line[k] = line[1] \/ \E l \in DOMAIN line' : line'[l] = line[k]
    <3>1. CASE k = 1
      BY <3>1
    <3>2. CASE k # 1
      <4>1. k - 1 \in DOMAIN line' /\ line'[k - 1] = line[k]
        BY <1>2, <3>2
      <4> QED BY <4>1
    <3> QED BY <3>1, <3>2
  <2>2. \A l \in DOMAIN line' : l + 1 \in DOMAIN line /\ line'[l] = line[l + 1]
    BY <1>2
  <2>3. 1 \in DOMAIN line
    BY <1>2
  <2> QED BY <1>2, <2>1, <2>2, <2>3 DEF Range
<1>4. IsInjective(line') /\ Head(line) \notin Range(line')
  BY <1>1, <1>2 DEF IsInjective, Range
<1>5. \A j \in Range(line) : outcome[j] = NONE
  BY DEF QueueSound
<1>6. ASSUME NEW j \in Jobs PROVE Le(Status(j), Status(j)')
  <2>1. CASE outcome[j] # NONE
    BY <1>1, <2>1 DEF Status, Le
  <2>2. CASE outcome[j] = NONE
    <3>1. Status(j) = "queued" /\ Status(j)' \in {"queued", "transferring"}
      BY <1>1, <2>2 DEF Status
    <3> QED BY <3>1, LeFacts DEF Statuses
  <2> QED BY <2>1, <2>2
<1>7. Queue!Unknown' = Queue!Unknown
  BY <1>1, <1>3, UnknownIs, UnknownWillBe
<1> QED BY <1>1, <1>2, <1>3, <1>4, <1>5, <1>6, <1>7 DEF GoesOn, TypeOK

LEMMA AcceptGoesOn ==
  ASSUME TypeOK, QueueSound, NEW batch \in Seq(Jobs), Queue!Accept(batch)
  PROVE  GoesOn(Range(batch)) /\ Range(batch) \subseteq Queue!Unknown
<1>1. /\ line \in Seq(Jobs) /\ line' = line \o batch /\ UNCHANGED <<serving, stopping, outcome>>
      /\ \A k, l \in DOMAIN line : line[k] = line[l] => k = l
      /\ \A k, l \in DOMAIN batch : batch[k] = batch[l] => k = l
      /\ Range(batch) \subseteq Queue!Unknown
  BY DEF TypeOK, QueueSound, Queue!Accept, IsInjective, Range
<1>2. /\ line' \in Seq(Jobs) /\ Len(line') = Len(line) + Len(batch)
      /\ Len(line) \in Nat /\ Len(batch) \in Nat
      /\ \A k \in 1 .. Len(line') : line'[k] = IF k <= Len(line) THEN line[k] ELSE batch[k - Len(line)]
      /\ DOMAIN line = 1 .. Len(line) /\ DOMAIN line' = 1 .. Len(line') /\ DOMAIN batch = 1 .. Len(batch)
  BY <1>1
<1>3. Range(line') = Range(line) \cup Range(batch)
  <2>1. \A k \in DOMAIN line : k \in DOMAIN line' /\ line'[k] = line[k]
    BY <1>2
  <2>2. \A k \in DOMAIN batch : k + Len(line) \in DOMAIN line' /\ line'[k + Len(line)] = batch[k]
    BY <1>2
  <2>3. \A k \in DOMAIN line' : (k \in DOMAIN line /\ line'[k] = line[k])
                                \/ (k - Len(line) \in DOMAIN batch /\ line'[k] = batch[k - Len(line)])
    BY <1>2
  <2> QED BY <2>1, <2>2, <2>3 DEF Range
<1>4. Range(line) \cap Range(batch) = {}
  BY <1>1, UnknownIs
<1>5. IsInjective(line')
  <2> SUFFICES ASSUME NEW k \in DOMAIN line', NEW l \in DOMAIN line', line'[k] = line'[l] PROVE k = l
    BY DEF IsInjective
  <2>1. \A a \in DOMAIN line, b \in DOMAIN batch : line[a] # batch[b]
    BY <1>4 DEF Range
  <2>2. CASE k <= Len(line) /\ l <= Len(line)
    BY <1>1, <1>2, <2>2
  <2>3. CASE k > Len(line) /\ l > Len(line)
    <3>1. k - Len(line) \in DOMAIN batch /\ l - Len(line) \in DOMAIN batch
      BY <1>2, <2>3
    <3>2. batch[k - Len(line)] = batch[l - Len(line)]
      BY <1>2, <2>3
    <3>3. k - Len(line) = l - Len(line)
      BY <1>1, <3>1, <3>2
    <3> QED BY <1>2, <3>3
  <2>4. CASE k <= Len(line) /\ l > Len(line)
    <3>1. k \in DOMAIN line /\ l - Len(line) \in DOMAIN batch
      BY <1>2, <2>4
    <3>2. line[k] = batch[l - Len(line)]
      BY <1>2, <2>4
    <3> QED BY <2>1, <3>1, <3>2
  <2>5. CASE k > Len(line) /\ l <= Len(line)
    <3>1. l \in DOMAIN line /\ k - Len(line) \in DOMAIN batch
      BY <1>2, <2>5
    <3>2. line[l] = batch[k - Len(line)]
      BY <1>2, <2>5
    <3> QED BY <2>1, <3>1, <3>2
  <2> QED BY <1>2, <2>2, <2>3, <2>4, <2>5
<1>6. \A j \in Jobs : Status(j)' = Status(j)
  BY <1>1 DEF Status
<1>7. Queue!Unknown' = Queue!Unknown \ Range(batch)
  BY <1>1, <1>3, UnknownIs, UnknownWillBe
<1>8. \A j \in Range(line') \cup serving' : outcome'[j] = NONE
  BY <1>1, <1>3, UnknownIs DEF QueueSound
<1>9. Range(line') \cap serving' = {}
  BY <1>1, <1>3, UnknownIs DEF QueueSound
<1> QED
  BY <1>1, <1>2, <1>3, <1>5, <1>6, <1>7, <1>8, <1>9 DEF GoesOn, TypeOK, Le

LEMMA WithdrawGoesOn ==
  ASSUME TypeOK, QueueSound, NEW k \in DOMAIN line, Queue!Withdraw(k)
  PROVE  GoesOn({}) /\ outcome'[line[k]] = "cancelled"
<1> DEFINE j == line[k]
<1>1. /\ line \in Seq(Jobs) /\ outcome' = [outcome EXCEPT ![j] = "cancelled"]
      /\ line' = SubSeq(line, 1, k - 1) \o SubSeq(line, k + 1, Len(line))
      /\ UNCHANGED <<serving, stopping>>
      /\ \A a, b \in DOMAIN line : line[a] = line[b] => a = b
      /\ k \in 1 .. Len(line) /\ Len(line) \in Nat /\ DOMAIN line = 1 .. Len(line)
      /\ outcome \in [Jobs -> Outcomes \cup {NONE}] /\ j \in Jobs
  BY DEF TypeOK, QueueSound, Queue!Withdraw, IsInjective
<1>2. /\ line' \in Seq(Jobs) /\ Len(line') = Len(line) - 1 /\ DOMAIN line' = 1 .. Len(line')
      /\ \A a \in 1 .. Len(line') : line'[a] = IF a < k THEN line[a] ELSE line[a + 1]
  BY ONLY <1>1, RemovedAt
<1> HIDE DEF j
<1>a. /\ k \in Int /\ 1 <= k /\ k <= Len(line) /\ Len(line) \in Nat /\ Len(line') = Len(line) - 1
      /\ \A a : a \in DOMAIN line <=> a \in Int /\ 1 <= a /\ a <= Len(line)
      /\ \A a : a \in DOMAIN line' <=> a \in Int /\ 1 <= a /\ a < Len(line)
      /\ \A a \in DOMAIN line' : line'[a] = IF a < k THEN line[a] ELSE line[a + 1]
  <2>1. k \in 1 .. Len(line) /\ Len(line) \in Nat /\ DOMAIN line = 1 .. Len(line)
    BY <1>1
  <2>2. Len(line') = Len(line) - 1 /\ DOMAIN line' = 1 .. (Len(line) - 1)
    BY <1>2
  <2>3. \A a \in DOMAIN line' : line'[a] = IF a < k THEN line[a] ELSE line[a + 1]
    BY <1>2
  <2>4. \A a : a \in DOMAIN line' <=> a \in Int /\ 1 <= a /\ a < Len(line)
    BY <2>1, <2>2
  <2> QED BY ONLY <2>1, <2>2, <2>3, <2>4
<1>3. Range(line') = Range(line) \ {j}
  <2>1. \A a \in DOMAIN line' : \E b \in DOMAIN line : b # k /\ line'[a] = line[b]
    <3> SUFFICES ASSUME NEW a \in DOMAIN line' PROVE \E b \in DOMAIN line : b # k /\ line'[a] = line[b]
      OBVIOUS
    <3>1. CASE a < k
      BY <1>a, <3>1
    <3>2. CASE a >= k
      <4>1. a + 1 \in DOMAIN line /\ a + 1 # k /\ line'[a] = line[a + 1]
        BY <1>a, <3>2
      <4> QED BY <4>1
    <3> QED BY <1>a, <3>1, <3>2
  <2>2. \A b \in DOMAIN line : b # k => \E a \in DOMAIN line' : line'[a] = line[b]
    <3> SUFFICES ASSUME NEW b \in DOMAIN line, b # k PROVE \E a \in DOMAIN line' : line'[a] = line[b]
      OBVIOUS
    <3>1. CASE b < k
      <4>1. b \in DOMAIN line' /\ line'[b] = line[b]
        BY <1>a, <3>1
      <4> QED BY <4>1
    <3>2. CASE b > k
      <4>1. b - 1 \in DOMAIN line' /\ line'[b - 1] = line[b]
        BY <1>a, <3>2
      <4> QED BY <4>1
    <3> QED BY <1>a, <3>1, <3>2
  <2>3. \A b \in DOMAIN line : b # k => line[b] # line[k]
    BY <1>1
  <2> QED BY ONLY <2>1, <2>2, <2>3 DEF Range, j
<1>4. IsInjective(line')
  <2> SUFFICES ASSUME NEW a \in DOMAIN line', NEW b \in DOMAIN line', line'[a] = line'[b] PROVE a = b
    BY DEF IsInjective
  <2> DEFINE at(x) == IF x < k THEN x ELSE x + 1
  <2>1. at(a) \in DOMAIN line /\ at(b) \in DOMAIN line /\ line[at(a)] = line[at(b)]
    BY <1>a
  <2>2. at(a) = at(b)
    BY <1>1, <2>1
  <2> QED BY <1>a, <2>2
<1>5. j \in Range(line) /\ outcome[j] = NONE /\ j \notin serving
  BY DEF QueueSound, Range, j
<1>6. Queue!Unknown' = Queue!Unknown
  <2>1. outcome'[j] # NONE
    BY <1>1, NotAnAnswer DEF Outcomes
  <2> QED BY <1>1, <1>3, <1>5, <2>1, UnknownIs, UnknownWillBe
<1>7. ASSUME NEW i \in Jobs PROVE Le(Status(i), Status(i)')
  <2>1. CASE i # j
    <3>1. Status(i)' = Status(i)
      BY <1>1, <2>1 DEF Status
    <3> QED BY <3>1 DEF Le
  <2>2. CASE i = j
    <3>1. Status(i) = "queued" /\ Status(i)' = "cancelled"
      BY <1>1, <1>5, <2>2, NotAnAnswer DEF Status, TypeOK, Outcomes
    <3> QED BY <3>1, LeFacts DEF Statuses, Outcomes
  <2> QED BY <2>1, <2>2
<1>8. \A i \in Range(line') \cup serving' : outcome'[i] = NONE
  <2>1. Range(line) \subseteq Jobs /\ serving \subseteq Jobs
    BY DEF TypeOK, Range
  <2> QED BY <1>1, <1>3, <1>5, <2>1 DEF QueueSound
<1>9. \A i \in Jobs : outcome[i] # NONE => outcome'[i] = outcome[i]
  BY <1>1, <1>5
<1>10. outcome' \in [Jobs -> Outcomes \cup {NONE}] /\ outcome'[j] = "cancelled"
  BY <1>1 DEF Outcomes
<1> QED BY <1>1, <1>2, <1>3, <1>4, <1>6, <1>7, <1>8, <1>9, <1>10 DEF GoesOn, TypeOK, QueueSound, j

LEMMA StopGoesOn ==
  ASSUME TypeOK, QueueSound, NEW j \in Jobs, Queue!RequestStop(j)
  PROVE  GoesOn({}) /\ j \in stopping'
<1>1. j \in serving /\ stopping' = stopping \cup {j} /\ UNCHANGED <<line, serving, outcome>>
  BY DEF Queue!RequestStop
<1>2. ASSUME NEW i \in Jobs PROVE Le(Status(i), Status(i)')
  <2>1. CASE Status(i)' = Status(i)
    BY <2>1 DEF Le
  <2>2. CASE Status(i)' # Status(i)
    <3>1. Status(i) = "transferring" /\ Status(i)' = "cancelling"
      BY <1>1, <2>2 DEF Status
    <3> QED BY <3>1, Ranks DEF Le
  <2> QED BY <2>1, <2>2
<1>3. Queue!Unknown' = Queue!Unknown
  BY <1>1, UnknownIs, UnknownWillBe
<1> QED BY <1>1, <1>2, <1>3 DEF GoesOn, TypeOK, QueueSound

LEMMA EndGoesOn ==
  ASSUME TypeOK, QueueSound, NEW j \in Jobs, NEW o \in Outcomes, Queue!End(j, o)
  PROVE  GoesOn({})
<1>1. /\ j \in serving /\ outcome' = [outcome EXCEPT ![j] = o] /\ serving' = serving \ {j}
      /\ stopping' = stopping \ {j} /\ UNCHANGED line
      /\ outcome \in [Jobs -> Outcomes \cup {NONE}]
  BY DEF Queue!End, TypeOK
<1>2. outcome[j] = NONE /\ outcome'[j] = o /\ o # NONE /\ j \notin Range(line)
  BY <1>1, NotAnAnswer DEF QueueSound
<1>3. ASSUME NEW i \in Jobs PROVE Le(Status(i), Status(i)')
  <2>1. CASE i # j
    <3>1. Status(i)' = Status(i)
      BY <1>1, <2>1 DEF Status
    <3> QED BY <3>1 DEF Le
  <2>2. CASE i = j
    <3>1. Status(i) \in {"transferring", "cancelling"} /\ Status(i)' = o
      BY <1>1, <1>2, <2>2 DEF Status
    <3> QED BY <3>1, Ranks DEF Le
  <2> QED BY <2>1, <2>2
<1>4. Queue!Unknown' = Queue!Unknown
  BY <1>1, <1>2, UnknownIs, UnknownWillBe
<1>5. \A i \in Range(line') \cup serving' : outcome'[i] = NONE
  <2>1. Range(line) \subseteq Jobs /\ serving \subseteq Jobs
    BY DEF TypeOK, Range
  <2> QED BY <1>1, <1>2, <2>1 DEF QueueSound
<1>6. \A i \in Jobs : outcome[i] # NONE => outcome'[i] = outcome[i]
  BY <1>1, <1>2
<1> QED BY <1>1, <1>2, <1>3, <1>4, <1>5, <1>6 DEF GoesOn, TypeOK, QueueSound

(***************************************************************************)
(* A critical section of the queue publishes a snapshot                    *)
(***************************************************************************)

\* The list of items in a step of the queue: what is cleared has an outcome.
ListedWith(new) ==
  /\ new \subseteq Queue!Unknown /\ present' \subseteq present \cup new
  /\ Range(line') \cup serving' \cup new \subseteq present'

LEMMA ListedNext ==
  ASSUME TypeOK, QueueSound, NEW new \in SUBSET Jobs, GoesOn(new), ListedWith(new), UNCHANGED accepted,
         changes' # 0
  PROVE  /\ QueueSound' /\ present' \subseteq Jobs
         /\ \A j \in Jobs : Status(j)' \in Statuses
         /\ Items' \in Lists /\ DOMAIN Items' = present'
         /\ \A j \in present' : Items'[j] = Status(j)'
<1>1. present' \subseteq Jobs
  BY DEF ListedWith, TypeOK
<1>2. ASSUME NEW j \in Jobs PROVE Status(j)' \in Statuses
  BY DEF GoesOn, Status, Statuses
<1>3. Items' = [j \in present' |-> Status(j)']
  BY DEF Items
<1>4. Items' \in Lists
  BY <1>1, <1>2, <1>3 DEF Lists
<1>5. QueueSound'
  BY DEF QueueSound, GoesOn, ListedWith
<1> QED BY <1>1, <1>2, <1>3, <1>4, <1>5

LEMMA Published ==
  ASSUME TypeOK, QueueSound, SnapshotsSound, ViewSound, NewestComes,
         NEW new \in SUBSET Jobs, GoesOn(new), ListedWith(new),
         \A j \in new \cap DOMAIN view : view[j] = "queued",
         NEW events \in SUBSET Jobs, events \cap submitted \subseteq present',
         NEW by \in {"pump", "main", "other"}, Changed(events, by),
         UNCHANGED <<query, ready, shownVars, submitted, accepted>>
  PROVE  /\ QueueSound' /\ SnapshotsSound' /\ ViewSound' /\ NewestComes'
         /\ outbox' \subseteq Messages /\ changes' \in Nat /\ present' \subseteq Jobs
<1> DEFINE n == [rev |-> changes + 1, items |-> Items', event |-> events \cap submitted, by |-> by]
<1>1. changes \in Nat /\ changes' = changes + 1 /\ outbox' = outbox \cup {n}
  BY DEF TypeOK, Changed
<1>2. /\ QueueSound' /\ present' \subseteq Jobs /\ Items' \in Lists /\ DOMAIN Items' = present'
      /\ \A j \in Jobs : Status(j)' \in Statuses
      /\ \A j \in present' : Items'[j] = Status(j)'
  BY <1>1, ListedNext
<1>3. n \in Messages /\ outbox' \subseteq Messages
  BY <1>1, <1>2 DEF TypeOK, Messages
<1>4. Sent' = Sent \cup {n}
  BY <1>1 DEF Sent
<1>5. n.rev = changes + 1 /\ n.items = Items' /\ n.event = events \cap submitted
  OBVIOUS
<1> HIDE DEF n
<1>6. \A m \in Sent : m.rev \in Nat /\ m.items \in Lists
  BY DEF Sent, TypeOK, Messages, Snapshots
<1>7. ASSUME NEW m \in Sent
      PROVE  /\ m.rev <= changes /\ DOMAIN m.items \cap Queue!Unknown' = {}
             /\ \A j \in DOMAIN m.items : j \in Jobs /\ Le(m.items[j], Status(j)')
  <2>1. m.rev <= changes /\ DOMAIN m.items \cap Queue!Unknown = {}
    BY <1>7 DEF SnapshotsSound
  <2>2. ASSUME NEW j \in DOMAIN m.items PROVE j \in Jobs /\ Le(m.items[j], Status(j)')
    <3>1. j \in Jobs /\ m.items[j] \in Statuses
      BY <1>6, <1>7, ListFacts
    <3>2. Le(m.items[j], Status(j)) /\ Le(Status(j), Status(j)')
      BY <1>7, <2>1, <3>1 DEF SnapshotsSound, GoesOn
    <3> QED BY <1>2, <3>1, <3>2, StatusType, LeFacts
  <2> QED BY <2>1, <2>2 DEF GoesOn
<1>8. present' \cap Queue!Unknown' = {}
  BY <1>2 DEF QueueSound
<1>9. SnapshotsSound'
  <2>1. \A m \in outbox' : m.event \subseteq DOMAIN m.items \cap submitted'
    BY <1>1, <1>2, <1>5 DEF SnapshotsSound
  <2>2. ASSUME NEW m \in Sent'
        PROVE  /\ m.rev <= changes' /\ DOMAIN m.items \cap Queue!Unknown' = {}
               /\ \A j \in DOMAIN m.items : Le(m.items[j], Status(j)')
               /\ m.rev = changes' => m.items = Items'
    <3>1. CASE m = n
      <4>1. \A j \in present' : Le(Items'[j], Status(j)')
        BY <1>2 DEF Le
      <4> QED BY <1>1, <1>2, <1>5, <1>8, <3>1, <4>1
    <3>2. CASE m \in Sent
      BY <1>1, <1>6, <1>7, <3>2
    <3> QED BY <1>4, <2>2, <3>1, <3>2
  <2>3. ASSUME NEW m \in Sent', NEW o \in Sent', m.rev < o.rev,
               NEW j \in DOMAIN m.items \cap DOMAIN o.items
        PROVE  Le(m.items[j], o.items[j])
    <3>1. CASE m \in Sent /\ o \in Sent
      BY <2>3, <3>1 DEF SnapshotsSound
    <3>2. CASE m = n
      <4>1. o.rev <= changes'
        BY <2>2
      <4> QED BY <1>1, <1>5, <2>3, <3>2, <4>1, <1>6, <1>4
    <3>3. CASE m \in Sent /\ o = n
      BY <1>2, <1>5, <1>7, <3>3
    <3> QED BY <1>4, <3>1, <3>2, <3>3
  <2> QED BY <2>1, <2>2, <2>3 DEF SnapshotsSound
<1>10. ViewSound'
  <2>1. revision' = revision /\ view' = view /\ submitted' = submitted /\ revision \in Nat \cup {-1}
        /\ view \in Lists /\ Queue!Unknown' = Queue!Unknown \ new
    BY DEF shownVars, TypeOK, GoesOn
  <2>2. revision <= changes
    BY DEF ViewSound
  <2>3. revision' <= changes' /\ revision' # changes'
    BY <1>1, <2>1, <2>2
  <2>4. DOMAIN view' \cap Queue!Unknown' \subseteq submitted'
    BY <2>1 DEF ViewSound
  <2>5. ASSUME NEW j \in DOMAIN view, j \notin Queue!Unknown' PROVE j \in Jobs /\ Le(view[j], Status(j)')
    <3>1. j \in Jobs /\ view[j] \in Statuses
      BY <2>1, ListFacts
    <3>2. CASE j \in new
      BY <1>2, <3>1, <3>2, LeFacts
    <3>3. CASE j \notin new
      <4>1. j \notin Queue!Unknown
        BY <2>1, <2>5, <3>3
      <4>2. Le(view[j], Status(j)) /\ Le(Status(j), Status(j)')
        BY <3>1, <4>1 DEF ViewSound, GoesOn
      <4> QED BY <1>2, <3>1, <4>2, StatusType, LeFacts
    <3> QED BY <3>2, <3>3
  <2>6. ASSUME NEW m \in Sent', m.rev > revision, NEW j \in DOMAIN m.items \cap DOMAIN view
        PROVE  Le(view[j], m.items[j])
    <3>1. CASE m \in Sent
      BY <2>6, <3>1 DEF ViewSound
    <3>2. CASE m = n
      <4>1. j \in present' /\ j \notin Queue!Unknown'
        BY <1>2, <1>5, <1>8, <2>6, <3>2
      <4> QED BY <1>2, <1>5, <2>5, <3>2, <4>1
    <3> QED BY <1>4, <3>1, <3>2
  <2> QED BY <2>1, <2>3, <2>4, <2>5, <2>6 DEF ViewSound
<1>11. NewestComes'
  <2>1. n \in Sent' /\ n.rev = changes'
    BY <1>1, <1>4, <1>5
  <2> QED BY <2>1 DEF NewestComes
<1> QED BY <1>1, <1>2, <1>3, <1>9, <1>10, <1>11

\* Calls and records that a step of the queue leaves alone are as sound as they were, if
\* the jobs that join are none of theirs.
LEMMA RecordsStay ==
  ASSUME TypeOK, CallsSound, PromiseIsTrue, CancelNotLost,
         NEW new \in SUBSET Jobs, GoesOn(new),
         new \cap submitted = {},
         UNCHANGED <<calls, recVars, pending, view>>
  PROVE  CallsSound' /\ PromiseIsTrue' /\ (cancels \subseteq cancels' => CancelNotLost')
<1>1. /\ submitted' = submitted /\ accepted' = accepted /\ cancelReq' = cancelReq /\ promise' = promise
      /\ calls' = calls /\ pending' = pending /\ view' = view /\ Open' = Open
      /\ Queue!Unknown' = Queue!Unknown \ new
  BY DEF recVars, Open, GoesOn
<1>2. CallsSound'
  BY <1>1 DEF CallsSound, Open
<1>3. PromiseIsTrue'
  <2> SUFFICES ASSUME NEW j \in Jobs, promise[j] # NONE
               PROVE  \/ promise[j] = outcome'[j]
                      \/ /\ promise[j] # "completed" /\ j \in Queue!Unknown'
                         /\ \A c \in calls : c.stage \in {"wait", "sent"} => j \notin Range(c.ids)
    BY <1>1 DEF PromiseIsTrue
  <2>1. j \in submitted
    BY DEF CallsSound
  <2>2. CASE promise[j] = outcome[j]
    BY <2>2 DEF GoesOn
  <2>3. CASE promise[j] # outcome[j]
    BY <1>1, <2>1, <2>3 DEF PromiseIsTrue
  <2> QED BY <2>2, <2>3
<1>4. ASSUME cancels \subseteq cancels' PROVE CancelNotLost'
  <2> SUFFICES ASSUME NEW j \in Open \cap cancelReq \cap accepted
               PROVE  j \in cancels' \cup stopping' \/ outcome'[j] # NONE
    BY <1>1 DEF CancelNotLost
  <2>1. j \in Jobs /\ (j \in cancels \cup stopping \/ outcome[j] # NONE)
    BY DEF CancelNotLost, Open, TypeOK
  <2> QED BY <1>4, <2>1 DEF GoesOn
<1> QED BY <1>2, <1>3, <1>4

\* A step of the queue, as far as this webview has no call in it.
LEMMA QueueStep ==
  ASSUME FeedInv, NEW new \in SUBSET Jobs, GoesOn(new), ListedWith(new), new \cap submitted = {},
         NEW events \in SUBSET Jobs, events \subseteq present',
         NEW by \in {"pump", "main", "other"}, Changed(events, by),
         UNCHANGED <<calls, query, ready, shownVars, recVars>>,
         others' \in 0 .. MaxOthers, cancels' \subseteq Jobs,
         cancels \subseteq cancels' \/ CancelNotLost'
  PROVE  FeedInv'
<1>1. /\ TypeOK /\ CancelNotLost /\ PromiseIsTrue /\ QueueSound /\ SnapshotsSound /\ ViewSound
      /\ CallsSound /\ NewestComes /\ pending \subseteq DOMAIN view
  BY DEF FeedInv
<1>2. UNCHANGED <<submitted, accepted, cancelReq, promise, pending, view, revision, notified>>
  BY DEF recVars, shownVars
<1>3. \A j \in new \cap DOMAIN view : view[j] = "queued"
  BY <1>1 DEF ViewSound, ListedWith
<1>4. /\ QueueSound' /\ SnapshotsSound' /\ ViewSound' /\ NewestComes'
      /\ outbox' \subseteq Messages /\ changes' \in Nat /\ present' \subseteq Jobs
  BY <1>1, <1>2, <1>3, Published
<1>5. CallsSound' /\ PromiseIsTrue' /\ CancelNotLost'
  BY <1>1, <1>2, RecordsStay
<1>6. TypeOK'
  BY <1>1, <1>2, <1>4 DEF TypeOK, GoesOn
<1> QED BY <1>1, <1>2, <1>4, <1>5, <1>6 DEF FeedInv

LEMMA KnownListed ==
  ASSUME FeedInv, GoesOn({}), UNCHANGED present
  PROVE  ListedWith({})
BY DEF FeedInv, QueueSound, GoesOn, ListedWith

LEMMA StepBegin == ASSUME FeedInv, Begin PROVE FeedInv'
<1>1. GoesOn({})
  BY BeginGoesOn DEF Begin, FeedInv
<1>2. ListedWith({})
  BY <1>1, KnownListed DEF Begin
<1>3. serving' \subseteq present' /\ serving' \in SUBSET Jobs
  BY <1>1, <1>2 DEF ListedWith, GoesOn
<1>4. /\ Changed(serving', "pump") /\ UNCHANGED <<others, ipcVars, ready, shownVars, recVars>>
  BY DEF Begin
<1>5. others' \in 0 .. MaxOthers /\ cancels' \subseteq Jobs /\ cancels' = cancels /\ UNCHANGED <<calls, query>>
  BY <1>4 DEF FeedInv, TypeOK, ipcVars
<1> QED BY <1>1, <1>2, <1>3, <1>4, <1>5, QueueStep

LEMMA StepEnd == ASSUME FeedInv, NEW j \in Jobs, NEW o \in Outcomes, End(j, o) PROVE FeedInv'
<1>1. GoesOn({})
  BY EndGoesOn DEF End, FeedInv
<1>2. ListedWith({})
  BY <1>1, KnownListed DEF End
<1>3. {j} \subseteq present'
  BY DEF End, Queue!End, FeedInv, QueueSound
<1>4. /\ Changed({j}, "pump") /\ UNCHANGED <<others, ipcVars, ready, shownVars, recVars>>
  BY DEF End
<1>5. others' \in 0 .. MaxOthers /\ cancels' \subseteq Jobs /\ cancels' = cancels /\ UNCHANGED <<calls, query>>
  BY <1>4 DEF FeedInv, TypeOK, ipcVars
<1> QED BY <1>1, <1>2, <1>3, <1>4, <1>5, QueueStep

\* A cancel of a waiting or running job is a step of the queue; of another it is none.
LEMMA CancelMoves ==
  ASSUME FeedInv, NEW j \in Jobs, NEW by \in {"main", "other"}, CancelEffect(j, by)
  PROVE  \/ /\ GoesOn({}) /\ ListedWith({}) /\ {j} \subseteq present' /\ Changed({j}, by)
            /\ j \in stopping' \/ outcome'[j] # NONE
         \/ /\ UNCHANGED <<lineVars, present, changes, outbox>>
            /\ j \in stopping \/ outcome[j] # NONE \/ j \in Queue!Unknown
<1>1. TypeOK /\ QueueSound
  BY DEF FeedInv
<1>2. ASSUME NEW k \in DOMAIN line, line[k] = j, Queue!Withdraw(k), UNCHANGED present, Changed({j}, by)
      PROVE  /\ GoesOn({}) /\ ListedWith({}) /\ {j} \subseteq present'
             /\ j \in stopping' \/ outcome'[j] # NONE
  <2>1. GoesOn({}) /\ outcome'[j] = "cancelled"
    BY <1>1, <1>2, WithdrawGoesOn
  <2>2. ListedWith({})
    BY <1>2, <2>1, KnownListed
  <2>3. j \in present
    BY <1>1, <1>2 DEF QueueSound, Range
  <2>4. "cancelled" # NONE
    BY NotAnAnswer DEF Outcomes
  <2> QED BY <1>2, <2>1, <2>2, <2>3, <2>4
<1>3. ASSUME Queue!RequestStop(j), UNCHANGED present, Changed({j}, by)
      PROVE  GoesOn({}) /\ ListedWith({}) /\ {j} \subseteq present' /\ j \in stopping'
  <2>1. GoesOn({}) /\ j \in stopping' /\ j \in serving
    BY <1>1, <1>3, StopGoesOn DEF Queue!RequestStop
  <2>2. ListedWith({})
    BY <1>3, <2>1, KnownListed
  <2> QED BY <1>1, <1>3, <2>1, <2>2 DEF QueueSound
<1>4. ASSUME j \notin Range(line) \cup (serving \ stopping)
      PROVE  j \in stopping \/ outcome[j] # NONE \/ j \in Queue!Unknown
  BY <1>4, UnknownIs
<1> QED BY <1>2, <1>3, <1>4 DEF CancelEffect

LEMMA StepBackendCancels == ASSUME FeedInv, NEW j \in Jobs, BackendCancels(j) PROVE FeedInv'
<1>1. /\ others < MaxOthers /\ others' = others + 1 /\ CancelEffect(j, "other")
      /\ j \in Range(line) \cup (serving \ stopping) /\ UNCHANGED <<ipcVars, ready, shownVars, recVars>>
  BY DEF BackendCancels
<1>2. others' \in 0 .. MaxOthers /\ cancels' \subseteq Jobs /\ cancels' = cancels /\ UNCHANGED <<calls, query>>
  BY <1>1, FeedConstants DEF FeedInv, TypeOK, ipcVars
<1>3. CASE GoesOn({}) /\ ListedWith({}) /\ {j} \subseteq present' /\ Changed({j}, "other")
  BY <1>1, <1>2, <1>3, QueueStep
<1>4. CASE UNCHANGED <<lineVars, present, changes, outbox>>
            /\ (j \in stopping \/ outcome[j] # NONE \/ j \in Queue!Unknown)
  <2>1. Range(line) \cap stopping = {} /\ Range(line) \subseteq Jobs /\ serving \subseteq Jobs
    BY DEF FeedInv, QueueSound, TypeOK, Range
  <2>2. outcome[j] = NONE /\ j \notin Queue!Unknown
    BY <1>1, UnknownIs DEF FeedInv, QueueSound
  <2> QED BY <1>1, <1>4, <2>1, <2>2
<1> QED BY <1>1, <1>3, <1>4, CancelMoves

LEMMA Still ==
  ASSUME UNCHANGED <<lineVars, present>>
  PROVE  /\ Queue!Unknown' = Queue!Unknown /\ Items' = Items
         /\ \A j \in Jobs : Status(j)' = Status(j)
<1>1. UNCHANGED <<line, serving, stopping, outcome, present>>
  BY DEF lineVars
<1> QED BY <1>1, UnknownIs, UnknownWillBe DEF Status, Items

\* A step that sends nothing and applies no snapshot.
LEMMA OnlyRecords ==
  ASSUME TypeOK, QueueSound, SnapshotsSound, ViewSound, NewestComes,
         UNCHANGED <<queueVars, outbox, query, ready, shownVars, submitted>>,
         accepted' \cap Queue!Unknown = {}
  PROVE  QueueSound' /\ SnapshotsSound' /\ ViewSound' /\ NewestComes'
<1>1. /\ UNCHANGED <<lineVars, line, serving, stopping, outcome, present, changes, others>>
      /\ UNCHANGED <<revision, view, pending, notified>>
  BY DEF queueVars, lineVars, shownVars
<1>2. Queue!Unknown' = Queue!Unknown /\ Items' = Items /\ Sent' = Sent /\ \A j \in Jobs : Status(j)' = Status(j)
  BY <1>1, Still DEF Sent
<1>3. \A m \in Sent : DOMAIN m.items \subseteq Jobs
  BY ListFacts DEF Sent, TypeOK, Messages, Snapshots
<1>4. DOMAIN view \subseteq Jobs /\ present \subseteq Jobs
  BY ListFacts DEF TypeOK
<1>5. QueueSound'
  BY <1>1, <1>2 DEF QueueSound
<1>6. SnapshotsSound'
  BY <1>1, <1>2, <1>3 DEF SnapshotsSound
<1>7. ViewSound'
  BY <1>1, <1>2, <1>4 DEF ViewSound
<1>8. NewestComes'
  BY <1>1, <1>2 DEF NewestComes
<1> QED BY <1>5, <1>6, <1>7, <1>8

LEMMA StepCancelArrives == ASSUME FeedInv, NEW j \in Jobs, CancelArrives(j) PROVE FeedInv'
<1>1. /\ CancelEffect(j, "main") /\ others' = others /\ cancels' = cancels \ {j}
      /\ UNCHANGED <<calls, query, ready, shownVars, recVars>>
      /\ UNCHANGED <<submitted, accepted, cancelReq, promise>>
  BY DEF CancelArrives, recVars
<1>2. others' \in 0 .. MaxOthers /\ cancels' \subseteq Jobs
  BY <1>1 DEF FeedInv, TypeOK
<1>3. CASE /\ GoesOn({}) /\ ListedWith({}) /\ {j} \subseteq present' /\ Changed({j}, "main")
           /\ j \in stopping' \/ outcome'[j] # NONE
  <2>1. CancelNotLost'
    <3> SUFFICES ASSUME NEW i \in Open \cap cancelReq \cap accepted
                 PROVE  i \in cancels' \cup stopping' \/ outcome'[i] # NONE
      BY <1>1 DEF CancelNotLost, Open
    <3>1. i \in Jobs /\ (i \in cancels \cup stopping \/ outcome[i] # NONE)
      BY DEF CancelNotLost, Open, FeedInv, TypeOK
    <3> QED BY <1>1, <1>3, <3>1 DEF GoesOn
  <2> QED BY <1>1, <1>2, <1>3, <2>1, QueueStep
<1>4. CASE /\ UNCHANGED <<lineVars, present, changes, outbox>>
           /\ j \in stopping \/ outcome[j] # NONE \/ j \in Queue!Unknown
  <2>1. /\ TypeOK /\ CancelNotLost /\ PromiseIsTrue /\ QueueSound /\ SnapshotsSound /\ ViewSound
        /\ CallsSound /\ NewestComes /\ pending \subseteq DOMAIN view
    BY DEF FeedInv
  <2>2. /\ UNCHANGED <<queueVars, line, serving, stopping, outcome>>
        /\ UNCHANGED <<revision, view, pending, notified>>
    BY <1>1, <1>4 DEF queueVars, lineVars, shownVars
  <2>3. accepted' \cap Queue!Unknown = {}
    BY <1>1, <2>1 DEF QueueSound
  <2>4. QueueSound' /\ SnapshotsSound' /\ ViewSound' /\ NewestComes'
    BY <1>1, <1>4, <2>1, <2>2, <2>3, OnlyRecords
  <2>5. Queue!Unknown' = Queue!Unknown /\ Open' = Open
    BY <1>1, <1>4, Still DEF Open
  <2>6. CallsSound' /\ PromiseIsTrue'
    BY <1>1, <2>1, <2>2, <2>5 DEF CallsSound, PromiseIsTrue
  <2>7. CancelNotLost'
    BY <1>1, <1>4, <2>1, <2>2, <2>5 DEF CancelNotLost, QueueSound
  <2>8. TypeOK'
    BY <1>1, <1>2, <1>4, <2>1, <2>2 DEF TypeOK
  <2> QED BY <2>1, <2>2, <2>4, <2>6, <2>7, <2>8 DEF FeedInv
<1> QED BY <1>1, <1>3, <1>4, CancelMoves

LEMMA StandsStill ==
  ASSUME TypeOK, QueueSound, UNCHANGED lineVars
  PROVE  GoesOn({})
<1>1. UNCHANGED <<line, serving, stopping, outcome>>
  BY DEF lineVars
<1>2. Queue!Unknown' = Queue!Unknown
  BY <1>1, UnknownIs, UnknownWillBe
<1>3. \A j \in Jobs : Status(j)' = Status(j)
  BY <1>1 DEF Status
<1> QED BY <1>1, <1>2, <1>3 DEF GoesOn, TypeOK, QueueSound, Le

LEMMA StepClearCompleted == ASSUME FeedInv, ClearCompleted PROVE FeedInv'
<1>1. /\ others < MaxOthers /\ others' = others + 1 /\ UNCHANGED lineVars /\ Changed({}, "main")
      /\ present' = {j \in present : outcome[j] = NONE} /\ UNCHANGED <<ipcVars, ready, shownVars, recVars>>
  BY DEF ClearCompleted
<1>2. others' \in 0 .. MaxOthers /\ cancels' \subseteq Jobs /\ cancels' = cancels /\ UNCHANGED <<calls, query>>
  BY <1>1, FeedConstants DEF FeedInv, TypeOK, ipcVars
<1>3. GoesOn({})
  BY <1>1, StandsStill DEF FeedInv
<1>4. ListedWith({})
  BY <1>1, <1>3 DEF FeedInv, QueueSound, GoesOn, ListedWith, lineVars
<1> QED BY <1>1, <1>2, <1>3, <1>4, QueueStep

LEMMA StepNativeEnqueue == ASSUME FeedInv, NEW j \in Jobs, NativeEnqueue(j) PROVE FeedInv'
<1>1. /\ j \notin submitted /\ Queue!Accept(<<j>>) /\ present' = present \cup {j} /\ Changed({j}, "other")
      /\ UNCHANGED <<others, ipcVars, ready, shownVars, recVars>>
  BY DEF NativeEnqueue
<1>2. others' \in 0 .. MaxOthers /\ cancels' \subseteq Jobs /\ cancels' = cancels /\ UNCHANGED <<calls, query>>
  BY <1>1 DEF FeedInv, TypeOK, ipcVars
<1>3. <<j>> \in Seq(Jobs) /\ Range(<<j>>) = {j}
  BY DEF Range
<1>4. GoesOn({j}) /\ {j} \subseteq Queue!Unknown
  BY <1>1, <1>3, AcceptGoesOn DEF FeedInv
<1>5. ListedWith({j})
  BY <1>1, <1>4 DEF FeedInv, QueueSound, GoesOn, ListedWith
<1> QED BY <1>1, <1>2, <1>4, <1>5, QueueStep

LEMMA StepEnqueueArrives == ASSUME FeedInv, NEW c \in calls, EnqueueArrives(c) PROVE FeedInv'
<1> DEFINE ids == Range(c.ids)
           d == [c EXCEPT !.stage = "ok", !.rev = changes + 1]
<1>1. /\ c.stage = "sent" /\ Queue!Accept(c.ids) /\ present' = present \cup ids /\ Changed(ids, "other")
      /\ calls' = (calls \ {c}) \cup {d}
      /\ UNCHANGED <<others, cancels, query, ready, shownVars, recVars>>
  BY DEF EnqueueArrives
<1>2. /\ TypeOK /\ CancelNotLost /\ PromiseIsTrue /\ QueueSound /\ SnapshotsSound /\ ViewSound
      /\ CallsSound /\ NewestComes /\ pending \subseteq DOMAIN view
  BY DEF FeedInv
<1>3. c \in Calls /\ c.ids \in Seq(Jobs) /\ ids \subseteq Jobs
  BY <1>2 DEF TypeOK, Calls, Range
<1>4. d \in Calls /\ d.ids = c.ids /\ d.stage = "ok"
  <2>1. changes + 1 \in Nat
    BY <1>2 DEF TypeOK
  <2> QED BY <1>3, <2>1 DEF Calls
<1>5. UNCHANGED <<submitted, accepted, cancelReq, promise, pending, view, revision, notified>> /\ Open' = Open
  BY <1>1 DEF recVars, shownVars, Open
<1> HIDE DEF d, ids
<1>6. GoesOn(ids) /\ ids \subseteq Queue!Unknown
  BY <1>1, <1>2, <1>3, AcceptGoesOn DEF ids
<1>7. ListedWith(ids)
  BY <1>1, <1>2, <1>6 DEF QueueSound, GoesOn, ListedWith
<1>8. \A j \in ids : view[j] = "queued"
  BY <1>1, <1>2 DEF CallsSound, ids
<1>9. /\ QueueSound' /\ SnapshotsSound' /\ ViewSound' /\ NewestComes'
      /\ outbox' \subseteq Messages /\ changes' \in Nat /\ present' \subseteq Jobs
  <2>1. ids \in SUBSET Jobs /\ ids \cap submitted \subseteq present'
    BY <1>1, <1>3
  <2>2. \A j \in ids \cap DOMAIN view : view[j] = "queued"
    BY <1>8
  <2> QED BY <1>1, <1>2, <1>5, <1>6, <1>7, <2>1, <2>2, Published
<1>10. Queue!Unknown' = Queue!Unknown \ ids
  BY <1>6 DEF GoesOn
<1>11. CallsSound'
  <2>1. \A e \in calls : e # c => Range(e.ids) \cap ids = {}
    BY <1>2 DEF CallsSound, ids
  <2>2. ids \subseteq submitted
    BY <1>2 DEF CallsSound, ids
  <2>3. Range(d.ids) = ids
    BY <1>4 DEF ids
  <2>4. \A e \in calls' : Range(e.ids) \subseteq submitted'
    BY <1>1, <1>2, <1>5, <2>2, <2>3 DEF CallsSound
  <2>5. \A e \in calls' : e.stage = "ok" => Range(e.ids) \cap Queue!Unknown' = {}
    BY <1>1, <1>2, <1>10, <2>3 DEF CallsSound
  <2>6. \A e \in calls' : e.stage # "ok" => \A j \in Range(e.ids) :
          j \in pending' \cap Open' \cap Queue!Unknown' /\ view'[j] = "queued"
    BY <1>1, <1>2, <1>4, <1>5, <1>10, <2>1 DEF CallsSound
  <2>7. \A e, f \in calls' : e # f => Range(e.ids) \cap Range(f.ids) = {}
    BY <1>1, <1>2, <2>1, <2>3 DEF CallsSound
  <2>8. \A j \in Jobs : promise'[j] # NONE => j \in submitted'
    BY <1>2, <1>5 DEF CallsSound
  <2> QED BY <2>4, <2>5, <2>6, <2>7, <2>8 DEF CallsSound
<1>12. PromiseIsTrue'
  <2> SUFFICES ASSUME NEW j \in Jobs, promise[j] # NONE
               PROVE  \/ promise[j] = outcome'[j]
                      \/ /\ promise[j] # "completed" /\ j \in Queue!Unknown'
                         /\ \A e \in calls' : e.stage \in {"wait", "sent"} => j \notin Range(e.ids)
    BY <1>5 DEF PromiseIsTrue
  <2>1. CASE promise[j] = outcome[j]
    BY <1>6, <2>1 DEF GoesOn
  <2>2. CASE promise[j] # outcome[j]
    <3>1. /\ promise[j] # "completed" /\ j \in Queue!Unknown
          /\ \A e \in calls : e.stage \in {"wait", "sent"} => j \notin Range(e.ids)
      BY <1>2, <2>2 DEF PromiseIsTrue
    <3>2. j \notin ids
      BY <1>1, <3>1 DEF ids
    <3> QED BY <1>1, <1>4, <1>10, <3>1, <3>2
  <2> QED BY <2>1, <2>2
<1>13. CancelNotLost'
  <2> SUFFICES ASSUME NEW j \in Open \cap cancelReq \cap accepted
               PROVE  j \in cancels' \cup stopping' \/ outcome'[j] # NONE
    BY <1>5 DEF CancelNotLost
  <2>1. j \in Jobs /\ (j \in cancels \cup stopping \/ outcome[j] # NONE)
    BY <1>2 DEF CancelNotLost, Open, TypeOK
  <2> QED BY <1>1, <1>6, <2>1 DEF GoesOn
<1>14. TypeOK'
  BY <1>1, <1>2, <1>4, <1>5, <1>6, <1>9 DEF TypeOK, GoesOn
<1> QED BY <1>2, <1>5, <1>9, <1>11, <1>12, <1>13, <1>14 DEF FeedInv

LEMMA StepEnqueueRefused == ASSUME FeedInv, NEW c \in calls, EnqueueRefused(c) PROVE FeedInv'
<1>1. PICK why \in {"error", "ftp"} : calls' = (calls \ {c}) \cup {[c EXCEPT !.stage = why]}
  BY DEF EnqueueRefused
<1> DEFINE d == [c EXCEPT !.stage = why]
<1>2. c.stage = "sent" /\ UNCHANGED <<queueVars, outbox, cancels, query, ready, shownVars, recVars>>
  BY DEF EnqueueRefused
<1>3. /\ TypeOK /\ CancelNotLost /\ PromiseIsTrue /\ QueueSound /\ SnapshotsSound /\ ViewSound
      /\ CallsSound /\ NewestComes /\ pending \subseteq DOMAIN view
  BY DEF FeedInv
<1>4. c \in Calls /\ d \in Calls /\ d.ids = c.ids /\ d.stage \in {"error", "ftp"}
  BY <1>3 DEF TypeOK, Calls
<1> HIDE DEF d
<1>5. /\ UNCHANGED <<lineVars, line, serving, stopping, outcome, present, changes, others>>
      /\ UNCHANGED <<revision, view, pending, notified, submitted, accepted, cancelReq, promise>>
  BY <1>2 DEF queueVars, lineVars, shownVars, recVars
<1>6. accepted' \cap Queue!Unknown = {}
  BY <1>3, <1>5 DEF QueueSound
<1>7. QueueSound' /\ SnapshotsSound' /\ ViewSound' /\ NewestComes'
  BY <1>2, <1>3, <1>5, <1>6, OnlyRecords
<1>8. Queue!Unknown' = Queue!Unknown /\ Open' = Open
  BY <1>5, Still DEF Open
<1>9. CallsSound'
  BY <1>1, <1>2, <1>3, <1>4, <1>5, <1>8 DEF CallsSound, d
<1>10. PromiseIsTrue'
  <2>1. \A e \in calls' : e.stage \in {"wait", "sent"} => e \in calls
    BY <1>1, <1>4 DEF d
  <2> QED BY <1>3, <1>5, <1>8, <2>1 DEF PromiseIsTrue
<1>11. CancelNotLost'
  BY <1>2, <1>3, <1>5, <1>8 DEF CancelNotLost
<1>12. TypeOK'
  BY <1>1, <1>2, <1>3, <1>4, <1>5 DEF TypeOK, d
<1> QED BY <1>3, <1>5, <1>7, <1>9, <1>10, <1>11, <1>12 DEF FeedInv

(***************************************************************************)
(* The adapter applies a snapshot                                          *)
(***************************************************************************)

LEMMA SentType ==
  ASSUME TypeOK
  PROVE  \A m \in Sent : m.rev \in Nat /\ m.items \in Lists
                         /\ DOMAIN m.items \subseteq Jobs /\ \A j \in DOMAIN m.items : m.items[j] \in Statuses
<1>1. \A m \in Sent : m.rev \in Nat /\ m.items \in Lists
  BY DEF Sent, TypeOK, Messages, Snapshots
<1> QED BY <1>1, ListFacts

LEMMA Applied ==
  ASSUME FeedInv, NEW m \in Sent, ApplySnapshot(m),
         UNCHANGED <<queueVars, submitted>>, Sent' \subseteq Sent
  PROVE  /\ view' \in Lists /\ revision' \in Nat \cup {-1} /\ notified' \subseteq Jobs
         /\ m.rev <= revision' /\ revision <= revision'
         /\ ViewSound'
         /\ pending' \subseteq pending \cap DOMAIN view'
         /\ \A j \in pending \cap Queue!Unknown : j \in pending' /\ view'[j] = view[j]
         /\ \A j \in DOMAIN view \cap DOMAIN view' : Le(view[j], view'[j])
<1>1. /\ TypeOK /\ QueueSound /\ SnapshotsSound /\ ViewSound /\ pending \subseteq DOMAIN view
      /\ UNCHANGED <<lineVars, present, changes>>
  BY DEF FeedInv, queueVars
<1>2. /\ m.rev \in Nat /\ m.items \in Lists /\ DOMAIN m.items \subseteq Jobs
      /\ \A j \in DOMAIN m.items : m.items[j] \in Statuses
      /\ revision \in Nat \cup {-1} /\ view \in Lists /\ changes \in Nat
      /\ DOMAIN view \subseteq Jobs /\ \A j \in DOMAIN view : view[j] \in Statuses
      /\ notified \subseteq Jobs /\ present \subseteq Jobs
  BY <1>1, SentType, ListFacts DEF TypeOK
<1>3. Queue!Unknown' = Queue!Unknown /\ Items' = Items /\ \A j \in Jobs : Status(j)' = Status(j)
  BY <1>1, Still
<1>4. CASE m.rev <= revision
  <2>1. UNCHANGED <<revision, view, pending, notified>>
    BY <1>4 DEF ApplySnapshot, shownVars
  <2>2. ViewSound'
    BY <1>1, <1>2, <1>3, <2>1 DEF ViewSound
  <2> QED BY <1>1, <1>2, <1>4, <2>1, <2>2 DEF Le
<1>5. CASE m.rev > revision
  <2>1. /\ revision' = m.rev /\ pending' = pending \ DOMAIN m.items
        /\ view' = [j \in DOMAIN m.items \cup (DOMAIN view \cap pending') |->
                      IF j \in DOMAIN m.items THEN m.items[j] ELSE view[j]]
        /\ notified' = notified \cup {j \in DOMAIN view' : view'[j] \in Outcomes}
    BY <1>2, <1>5 DEF ApplySnapshot
  <2>2. /\ DOMAIN view' = DOMAIN m.items \cup (DOMAIN view \cap pending')
        /\ \A j \in DOMAIN m.items : view'[j] = m.items[j]
        /\ \A j \in DOMAIN view \cap pending' : view'[j] = view[j]
    BY <2>1
  <2>3. /\ m.rev <= changes /\ DOMAIN m.items \cap Queue!Unknown = {}
        /\ \A j \in DOMAIN m.items : Le(m.items[j], Status(j))
        /\ m.rev = changes => m.items = Items
    BY <1>1 DEF SnapshotsSound
  <2>4. view' \in Lists
    <3>1. view' \in [DOMAIN m.items \cup (DOMAIN view \cap pending') -> Statuses]
      BY <1>2, <2>1
    <3> QED BY <1>2, <3>1 DEF Lists
  <2>5. \A j \in DOMAIN view \cap DOMAIN m.items : Le(view[j], m.items[j])
    BY <1>1, <1>5 DEF ViewSound
  <2>6. \A j \in DOMAIN view \cap DOMAIN view' : Le(view[j], view'[j])
    BY <2>2, <2>5 DEF Le
  <2>7. ViewSound'
    <3>1. DOMAIN view' \cap Queue!Unknown' \subseteq submitted'
      BY <1>1, <1>3, <2>2, <2>3 DEF ViewSound
    <3>2. \A j \in DOMAIN view' \ Queue!Unknown' : Le(view'[j], Status(j)')
      <4> SUFFICES ASSUME NEW j \in DOMAIN view', j \notin Queue!Unknown PROVE Le(view'[j], Status(j)')
        BY <1>3
      <4>1. j \in Jobs
        BY <1>2, <2>2
      <4> QED BY <1>1, <1>3, <2>2, <2>3, <4>1 DEF ViewSound
    <3>3. ASSUME NEW n \in Sent', n.rev > revision', NEW j \in DOMAIN n.items \cap DOMAIN view'
          PROVE  Le(view'[j], n.items[j])
      <4>1. n \in Sent /\ n.rev \in Nat /\ n.rev > m.rev /\ n.rev > revision
        BY <1>1, <1>2, <1>5, <2>1, <3>3, SentType
      <4>2. CASE j \in DOMAIN m.items
        BY <1>1, <2>2, <3>3, <4>1, <4>2 DEF SnapshotsSound
      <4>3. CASE j \notin DOMAIN m.items
        BY <1>1, <2>2, <3>3, <4>1, <4>3 DEF ViewSound
      <4> QED BY <4>2, <4>3
    <3>4. revision' = changes' => \A j \in present' : j \in DOMAIN view' /\ view'[j] = Status(j)'
      BY <1>1, <1>2, <1>3, <2>1, <2>2, <2>3 DEF Items
    <3> QED BY <1>1, <2>1, <2>3, <3>1, <3>2, <3>3, <3>4 DEF ViewSound
  <2>8. \A j \in pending \cap Queue!Unknown : j \in pending' /\ view'[j] = view[j]
    BY <1>1, <2>1, <2>2, <2>3
  <2>9. notified' \subseteq Jobs
    BY <1>2, <2>1, <2>2
  <2> QED BY <1>1, <1>2, <1>5, <2>1, <2>2, <2>4, <2>6, <2>7, <2>8, <2>9
<1> QED BY <1>2, <1>4, <1>5

\* The records and calls after a snapshot was applied.
LEMMA AppliedKeeps ==
  ASSUME FeedInv, UNCHANGED <<queueVars, calls, cancels, recVars>>,
         view' \in Lists, revision' \in Nat \cup {-1}, notified' \subseteq Jobs,
         pending' \subseteq pending \cap DOMAIN view',
         \A j \in pending \cap Queue!Unknown : j \in pending' /\ view'[j] = view[j],
         outbox' \subseteq Messages, query' \in Snapshots \cup {NONE},
         ready' \in {"no", "listening", "querying", "yes", "failed"},
         SnapshotsSound', ViewSound', NewestComes'
  PROVE  FeedInv'
<1>1. /\ TypeOK /\ CancelNotLost /\ PromiseIsTrue /\ QueueSound /\ CallsSound
      /\ UNCHANGED <<lineVars, line, serving, stopping, outcome, present, changes, others>>
      /\ UNCHANGED <<submitted, accepted, cancelReq, promise>>
  BY DEF FeedInv, queueVars, lineVars, recVars
<1>2. Queue!Unknown' = Queue!Unknown /\ Open' = Open
  BY <1>1, Still DEF Open
<1>3. QueueSound'
  BY <1>1, <1>2 DEF QueueSound
<1>4. CallsSound'
  BY <1>1, <1>2 DEF CallsSound
<1>5. PromiseIsTrue' /\ CancelNotLost'
  BY <1>1, <1>2 DEF PromiseIsTrue, CancelNotLost
<1>6. TypeOK'
  BY <1>1 DEF TypeOK
<1> QED BY <1>3, <1>4, <1>5, <1>6 DEF FeedInv

LEMMA StepSnapshot == ASSUME FeedInv, NEW m \in outbox, Snapshot(m) PROVE FeedInv'
<1>1. /\ outbox' = outbox \ {m} /\ UNCHANGED <<queueVars, ipcVars, calls, cancels, query, ready, recVars>>
      /\ IF ready \in {"no", "listening"} THEN UNCHANGED shownVars ELSE ApplySnapshot(m)
      /\ UNCHANGED <<changes, submitted, lineVars, present>>
  BY DEF Snapshot, ipcVars, queueVars, recVars
<1>2. /\ TypeOK /\ SnapshotsSound /\ ViewSound /\ NewestComes /\ pending \subseteq DOMAIN view
      /\ changes \in Nat /\ revision \in Nat \cup {-1}
  BY DEF FeedInv, TypeOK
<1>3. Sent' \subseteq Sent /\ m \in Sent /\ \A n \in Sent : n # m => n \in Sent'
  BY <1>1 DEF Sent
<1>4. /\ Queue!Unknown' = Queue!Unknown /\ Items' = Items /\ \A j \in Jobs : Status(j)' = Status(j)
      /\ \A n \in Sent : DOMAIN n.items \subseteq Jobs /\ n.rev \in Nat
      /\ DOMAIN view \subseteq Jobs
  BY <1>1, <1>2, Still, SentType, ListFacts DEF TypeOK
<1>5. SnapshotsSound'
  BY <1>1, <1>2, <1>3, <1>4 DEF SnapshotsSound
<1>6. CASE ready \in {"no", "listening"}
  <2>1. UNCHANGED <<revision, view, pending, notified>>
    BY <1>1, <1>6 DEF shownVars
  <2>2. ViewSound'
    BY <1>1, <1>2, <1>3, <1>4, <2>1 DEF ViewSound, TypeOK
  <2>3. NewestComes'
    BY <1>1, <1>2, <1>6 DEF NewestComes
  <2> QED BY <1>1, <1>2, <1>5, <2>1, <2>2, <2>3, AppliedKeeps DEF TypeOK
<1>7. CASE ready \notin {"no", "listening"}
  <2>1. /\ view' \in Lists /\ revision' \in Nat \cup {-1} /\ notified' \subseteq Jobs
        /\ m.rev <= revision' /\ revision <= revision' /\ ViewSound'
        /\ pending' \subseteq pending \cap DOMAIN view'
        /\ \A j \in pending \cap Queue!Unknown : j \in pending' /\ view'[j] = view[j]
    BY <1>1, <1>3, <1>7, Applied
  <2>2. revision' <= changes
    BY <1>1, <2>1 DEF ViewSound
  <2>3. NewestComes'
    <3>1. revision = changes => revision' = changes
      BY <1>2, <2>1, <2>2
    <3>2. m.rev = changes => revision' = changes
      BY <1>2, <2>1, <2>2
    <3> QED BY <1>1, <1>2, <1>3, <3>1, <3>2 DEF NewestComes
  <2> QED BY <1>1, <1>2, <1>5, <2>1, <2>3, AppliedKeeps DEF TypeOK
<1> QED BY <1>6, <1>7

LEMMA StepBootstrap == ASSUME FeedInv, Bootstrap PROVE FeedInv'
<1>1. /\ ready = "querying" /\ query # NONE /\ ApplySnapshot(query) /\ ready' = "yes" /\ query' = NONE
      /\ UNCHANGED <<queueVars, outbox, calls, cancels, recVars>>
      /\ UNCHANGED <<changes, submitted, lineVars, present>>
  BY DEF Bootstrap, queueVars, recVars
<1>2. /\ TypeOK /\ SnapshotsSound /\ ViewSound /\ NewestComes /\ pending \subseteq DOMAIN view
      /\ changes \in Nat /\ revision \in Nat \cup {-1}
  BY DEF FeedInv, TypeOK
<1>3. Sent' \subseteq Sent /\ query \in Sent /\ \A n \in Sent : n # query => n \in Sent'
  BY <1>1 DEF Sent
<1>4. /\ Queue!Unknown' = Queue!Unknown /\ Items' = Items /\ \A j \in Jobs : Status(j)' = Status(j)
      /\ \A n \in Sent : DOMAIN n.items \subseteq Jobs /\ n.rev \in Nat
  BY <1>1, <1>2, Still, SentType
<1>5. SnapshotsSound'
  BY <1>1, <1>2, <1>3, <1>4 DEF SnapshotsSound
<1>6. /\ view' \in Lists /\ revision' \in Nat \cup {-1} /\ notified' \subseteq Jobs
      /\ query.rev <= revision' /\ revision <= revision' /\ ViewSound'
      /\ pending' \subseteq pending \cap DOMAIN view'
      /\ \A j \in pending \cap Queue!Unknown : j \in pending' /\ view'[j] = view[j]
  BY <1>1, <1>3, Applied
<1>7. revision' <= changes
  BY <1>1, <1>6 DEF ViewSound
<1>8. NewestComes'
  <2>1. revision = changes => revision' = changes
    BY <1>2, <1>6, <1>7
  <2>2. query.rev = changes => revision' = changes
    BY <1>2, <1>3, <1>4, <1>6, <1>7
  <2> QED BY <1>1, <1>2, <1>3, <2>1, <2>2 DEF NewestComes
<1> QED BY <1>1, <1>2, <1>5, <1>6, <1>8, AppliedKeeps DEF TypeOK

LEMMA StepAnswerQuery == ASSUME FeedInv, AnswerQuery PROVE FeedInv'
<1> DEFINE q == [rev |-> changes, items |-> Items]
<1>1. /\ ready = "querying" /\ query = NONE /\ query' = q
      /\ UNCHANGED <<queueVars, outbox, calls, cancels, ready, shownVars, recVars>>
      /\ UNCHANGED <<changes, submitted, lineVars, present, revision, view, pending, notified>>
  BY DEF AnswerQuery, queueVars, recVars, shownVars
<1>2. /\ TypeOK /\ QueueSound /\ SnapshotsSound /\ ViewSound /\ NewestComes /\ pending \subseteq DOMAIN view
      /\ changes \in Nat /\ revision \in Nat \cup {-1}
  BY DEF FeedInv, TypeOK
<1>3. /\ q \in Snapshots /\ DOMAIN Items = present /\ q.rev = changes /\ q.items = Items
      /\ \A j \in present : Items[j] = Status(j)
  BY <1>2, StatusType DEF Snapshots, Items
<1> HIDE DEF q
<1>4. Sent' = Sent \cup {q}
  BY <1>1, <1>3, NotAnAnswer DEF Sent
<1>5. /\ Queue!Unknown' = Queue!Unknown /\ Items' = Items /\ \A j \in Jobs : Status(j)' = Status(j)
      /\ \A n \in Sent : DOMAIN n.items \subseteq Jobs /\ n.rev \in Nat
      /\ DOMAIN view \subseteq Jobs /\ present \subseteq Jobs
  BY <1>1, <1>2, Still, SentType, ListFacts DEF TypeOK
<1>6. SnapshotsSound'
  <2>1. \A m \in outbox' : m.event \subseteq DOMAIN m.items \cap submitted'
    BY <1>1, <1>2 DEF SnapshotsSound
  <2>2. ASSUME NEW m \in Sent'
        PROVE  /\ m.rev <= changes' /\ DOMAIN m.items \cap Queue!Unknown' = {}
               /\ \A j \in DOMAIN m.items : Le(m.items[j], Status(j)')
               /\ m.rev = changes' => m.items = Items'
    <3>1. CASE m = q
      BY <1>1, <1>2, <1>3, <1>5, <3>1 DEF QueueSound, Le
    <3>2. CASE m \in Sent
      BY <1>1, <1>2, <1>5, <3>2 DEF SnapshotsSound
    <3> QED BY <1>4, <3>1, <3>2
  <2>3. ASSUME NEW m \in Sent', NEW n \in Sent', m.rev < n.rev, NEW j \in DOMAIN m.items \cap DOMAIN n.items
        PROVE  Le(m.items[j], n.items[j])
    <3>1. CASE m \in Sent /\ n \in Sent
      BY <1>2, <2>3, <3>1 DEF SnapshotsSound
    <3>2. CASE m = q
      BY <1>1, <1>2, <1>3, <1>4, <1>5, <2>2, <2>3, <3>2
    <3>3. CASE m \in Sent /\ n = q
      BY <1>2, <1>3, <2>3, <3>3 DEF SnapshotsSound
    <3> QED BY <1>4, <3>1, <3>2, <3>3
  <2> QED BY <2>1, <2>2, <2>3 DEF SnapshotsSound
<1>7. ViewSound'
  <2>1. ASSUME NEW m \in Sent', m.rev > revision, NEW j \in DOMAIN m.items \cap DOMAIN view
        PROVE  Le(view[j], m.items[j])
    <3>1. CASE m \in Sent
      BY <1>2, <2>1, <3>1 DEF ViewSound
    <3>2. CASE m = q
      <4>1. j \in present /\ j \notin Queue!Unknown
        BY <1>2, <1>3, <2>1, <3>2 DEF QueueSound
      <4> QED BY <1>2, <1>3, <2>1, <3>2, <4>1 DEF ViewSound
    <3> QED BY <1>4, <3>1, <3>2
  <2> QED BY <1>1, <1>2, <1>5, <2>1 DEF ViewSound
<1>8. NewestComes'
  BY <1>1, <1>3, <1>4 DEF NewestComes
<1> QED BY <1>1, <1>2, <1>3, <1>6, <1>7, <1>8, AppliedKeeps DEF TypeOK

\* initialize() goes on without an answer, or fails.
LEMMA ReadyMoves ==
  ASSUME FeedInv, ready # "yes", ready' \in {"listening", "querying", "failed"},
         query' = NONE, query = NONE \/ ready' = "failed",
         UNCHANGED <<queueVars, outbox, calls, cancels, shownVars, recVars>>
  PROVE  FeedInv'
<1>1. UNCHANGED <<changes, submitted, lineVars, present, revision, view, pending, notified>>
  BY DEF queueVars, recVars, shownVars
<1>2. /\ TypeOK /\ SnapshotsSound /\ ViewSound /\ pending \subseteq DOMAIN view
      /\ changes \in Nat /\ revision \in Nat \cup {-1}
  BY DEF FeedInv, TypeOK
<1>3. Sent' \subseteq Sent
  BY DEF Sent
<1>4. /\ Queue!Unknown' = Queue!Unknown /\ Items' = Items /\ \A j \in Jobs : Status(j)' = Status(j)
      /\ \A n \in Sent : DOMAIN n.items \subseteq Jobs /\ n.rev \in Nat
      /\ DOMAIN view \subseteq Jobs /\ present \subseteq Jobs
  BY <1>1, <1>2, Still, SentType, ListFacts DEF TypeOK
<1>5. SnapshotsSound'
  BY <1>1, <1>2, <1>3, <1>4 DEF SnapshotsSound
<1>6. ViewSound'
  BY <1>1, <1>2, <1>3, <1>4 DEF ViewSound
<1>7. NewestComes'
  BY DEF NewestComes
<1> QED BY <1>1, <1>2, <1>5, <1>6, <1>7, AppliedKeeps DEF TypeOK

LEMMA StepInitialize == ASSUME FeedInv, Initialize \/ Listens \/ InitializeFails PROVE FeedInv'
<1>1. query # NONE => ready = "querying"
  BY DEF FeedInv, NewestComes
<1>2. /\ ready # "yes" /\ ready' \in {"listening", "querying", "failed"} /\ query' = NONE
      /\ query = NONE \/ ready' = "failed"
      /\ UNCHANGED <<queueVars, outbox, calls, cancels, shownVars, recVars>>
  BY <1>1 DEF Initialize, Listens, InitializeFails, ipcVars
<1> QED BY <1>2, ReadyMoves

(***************************************************************************)
(* Steps of the adapter that leave the queue and its snapshots alone       *)
(***************************************************************************)

\* The messages on their way keep their revision and items, and the list changes only in
\* jobs that the queue does not know.
LEMMA QueueStill ==
  ASSUME TypeOK, QueueSound, SnapshotsSound, ViewSound, NewestComes,
         UNCHANGED <<queueVars, query, revision>>,
         \A n \in outbox' : n.event \subseteq DOMAIN n.items \cap submitted',
         \A n \in Sent' : \E m \in Sent : n.rev = m.rev /\ n.items = m.items,
         \A m \in Sent : \E n \in Sent' : n.rev = m.rev,
         ready' = ready \/ (ready = "no" /\ ready' = "listening"),
         accepted' \cap Queue!Unknown = {},
         DOMAIN view' \cap Queue!Unknown \subseteq submitted', DOMAIN view' \subseteq Jobs,
         \A j \in Jobs \ Queue!Unknown :
           (j \in DOMAIN view' <=> j \in DOMAIN view) /\ (j \in DOMAIN view => view'[j] = view[j])
  PROVE  QueueSound' /\ SnapshotsSound' /\ ViewSound' /\ NewestComes'
<1>1. UNCHANGED <<lineVars, line, serving, stopping, outcome, present, changes, others>>
  BY DEF queueVars, lineVars
<1>2. /\ Queue!Unknown' = Queue!Unknown /\ Items' = Items /\ \A j \in Jobs : Status(j)' = Status(j)
      /\ \A n \in Sent : DOMAIN n.items \subseteq Jobs /\ n.rev \in Nat
      /\ present \subseteq Jobs /\ present \cap Queue!Unknown = {}
  BY <1>1, Still, SentType DEF TypeOK, QueueSound
<1>3. QueueSound'
  BY <1>1, <1>2 DEF QueueSound
<1>4. SnapshotsSound'
  <2>1. ASSUME NEW n \in Sent'
        PROVE  /\ n.rev <= changes /\ DOMAIN n.items \cap Queue!Unknown = {}
               /\ \A j \in DOMAIN n.items : Le(n.items[j], Status(j)')
               /\ n.rev = changes => n.items = Items
    <3>1. PICK m \in Sent : n.rev = m.rev /\ n.items = m.items
      BY <2>1
    <3>2. /\ m.rev <= changes /\ DOMAIN m.items \cap Queue!Unknown = {}
          /\ \A j \in DOMAIN m.items : Le(m.items[j], Status(j))
          /\ m.rev = changes => m.items = Items
      BY DEF SnapshotsSound
    <3> QED BY <1>2, <3>1, <3>2
  <2>2. ASSUME NEW m \in Sent', NEW n \in Sent', m.rev < n.rev, NEW j \in DOMAIN m.items \cap DOMAIN n.items
        PROVE  Le(m.items[j], n.items[j])
    <3>1. PICK a \in Sent : m.rev = a.rev /\ m.items = a.items
      BY <2>2
    <3>2. PICK b \in Sent : n.rev = b.rev /\ n.items = b.items
      BY <2>2
    <3> QED BY <2>2, <3>1, <3>2 DEF SnapshotsSound
  <2> QED BY <1>1, <1>2, <2>1, <2>2 DEF SnapshotsSound
<1>5. ViewSound'
  <2>1. ASSUME NEW n \in Sent', n.rev > revision, NEW j \in DOMAIN n.items \cap DOMAIN view'
        PROVE  Le(view'[j], n.items[j])
    <3>1. PICK m \in Sent : n.rev = m.rev /\ n.items = m.items
      BY <2>1
    <3>2. j \in Jobs /\ j \notin Queue!Unknown
      BY <2>1, <3>1 DEF SnapshotsSound
    <3> QED BY <2>1, <3>1, <3>2 DEF ViewSound
  <2>2. \A j \in DOMAIN view' \ Queue!Unknown : Le(view'[j], Status(j)')
    BY <1>2 DEF ViewSound
  <2>3. revision' = changes' => \A j \in present' : j \in DOMAIN view' /\ view'[j] = Status(j)'
    BY <1>1, <1>2 DEF ViewSound
  <2> QED BY <1>1, <1>2, <2>1, <2>2, <2>3 DEF ViewSound
<1>6. NewestComes'
  BY <1>1 DEF NewestComes
<1> QED BY <1>3, <1>4, <1>5, <1>6

LEMMA StepCancelTransfer == ASSUME FeedInv, NEW j \in Jobs, CancelTransfer(j) PROVE FeedInv'
<1>1. /\ cancelReq' = cancelReq \cup ({j} \cap Open)
      /\ cancels' = IF j \in Open \ accepted THEN cancels ELSE cancels \cup {j}
      /\ UNCHANGED <<queueVars, outbox, calls, query, ready, shownVars, submitted, accepted, promise>>
      /\ UNCHANGED <<lineVars, line, serving, stopping, outcome, present, changes, others>>
      /\ UNCHANGED <<revision, view, pending, notified>>
  BY DEF CancelTransfer, queueVars, lineVars, shownVars
<1>2. /\ TypeOK /\ CancelNotLost /\ PromiseIsTrue /\ QueueSound /\ SnapshotsSound /\ ViewSound
      /\ CallsSound /\ NewestComes /\ pending \subseteq DOMAIN view
  BY DEF FeedInv
<1>3. QueueSound' /\ SnapshotsSound' /\ ViewSound' /\ NewestComes'
  BY <1>1, <1>2, OnlyRecords DEF QueueSound
<1>4. Queue!Unknown' = Queue!Unknown /\ Open' = Open /\ Open \subseteq submitted
  BY <1>1, Still DEF Open
<1>5. CallsSound' /\ PromiseIsTrue'
  BY <1>1, <1>2, <1>4 DEF CallsSound, PromiseIsTrue
<1>6. CancelNotLost'
  BY <1>1, <1>2, <1>4 DEF CancelNotLost
<1>7. TypeOK'
  BY <1>1, <1>2, <1>4 DEF TypeOK
<1> QED BY <1>1, <1>2, <1>3, <1>5, <1>6, <1>7 DEF FeedInv

\* The records in ids become accepted: jobs that the queue knows.
LEMMA AcceptingKeeps ==
  ASSUME TypeOK, QueueSound, CancelNotLost, NEW ids \in SUBSET Jobs, ids \cap Queue!Unknown = {},
         Accepting(ids), Open' \subseteq Open, UNCHANGED <<lineVars, cancelReq>>
  PROVE  /\ CancelNotLost' /\ accepted' \cap Queue!Unknown = {}
         /\ accepted \subseteq accepted' /\ accepted' \subseteq accepted \cup submitted /\ cancels' \subseteq Jobs
<1>1. /\ accepted' = accepted \cup ((ids \cap Open) \ accepted)
      /\ cancels' = cancels \cup (((ids \cap Open) \ accepted) \cap cancelReq)
      /\ UNCHANGED <<line, serving, stopping, outcome>> /\ Open \subseteq submitted
  BY DEF Accepting, lineVars, Open
<1>2. CancelNotLost'
  <2> SUFFICES ASSUME NEW j \in Open \cap cancelReq \cap accepted'
               PROVE  j \in cancels' \cup stopping \/ outcome[j] # NONE
    BY <1>1 DEF CancelNotLost
  <2>1. CASE j \in accepted
    BY <1>1, <2>1 DEF CancelNotLost
  <2>2. CASE j \notin accepted
    BY <1>1, <2>2
  <2> QED BY <2>1, <2>2
<1> QED BY <1>1, <1>2 DEF QueueSound, TypeOK

LEMMA StepEnqueueReturns == ASSUME FeedInv, NEW c \in calls, EnqueueReturns(c) PROVE FeedInv'
<1>1. /\ c.stage = "ok" /\ Accepting(Range(c.ids)) /\ calls' = calls \ {c}
      /\ UNCHANGED <<queueVars, outbox, query, ready, shownVars, submitted, cancelReq, promise>>
      /\ UNCHANGED <<lineVars, line, serving, stopping, outcome, present, changes, others>>
      /\ UNCHANGED <<revision, view, pending, notified>>
  BY DEF EnqueueReturns, queueVars, lineVars, shownVars
<1>2. /\ TypeOK /\ CancelNotLost /\ PromiseIsTrue /\ QueueSound /\ SnapshotsSound /\ ViewSound
      /\ CallsSound /\ NewestComes /\ pending \subseteq DOMAIN view
  BY DEF FeedInv
<1>3. Range(c.ids) \in SUBSET Jobs /\ Range(c.ids) \cap Queue!Unknown = {}
  BY <1>1, <1>2 DEF CallsSound, TypeOK, Calls, Range
<1>4. Queue!Unknown' = Queue!Unknown /\ Open' = Open
  BY <1>1, Still DEF Open
<1>5. /\ CancelNotLost' /\ accepted' \cap Queue!Unknown = {}
      /\ accepted' \subseteq accepted \cup submitted /\ cancels' \subseteq Jobs
  BY <1>1, <1>2, <1>3, <1>4, AcceptingKeeps
<1>6. QueueSound' /\ SnapshotsSound' /\ ViewSound' /\ NewestComes'
  BY <1>1, <1>2, <1>5, OnlyRecords
<1>7. CallsSound' /\ PromiseIsTrue'
  BY <1>1, <1>2, <1>4 DEF CallsSound, PromiseIsTrue
<1>8. TypeOK'
  BY <1>1, <1>2, <1>5 DEF TypeOK
<1> QED BY <1>1, <1>2, <1>5, <1>6, <1>7, <1>8 DEF FeedInv

\* A record that is not settled becomes settled with a true outcome.
LEMMA StepJobEvents == ASSUME FeedInv, NEW m \in outbox, JobEvents(m) PROVE FeedInv'
<1> DEFINE over == {j \in m.event : m.items[j] \in Outcomes}
           ends == Restrict(m.items, over)
           n == [m EXCEPT !.event = {}]
<1>1. /\ outbox' = (outbox \ {m}) \cup {n} /\ Accepting(m.event) /\ Finish(ends)
      /\ UNCHANGED <<queueVars, calls, query, ready, revision, view, notified, submitted, cancelReq>>
      /\ UNCHANGED <<lineVars, line, serving, stopping, outcome, present, changes, others>>
  BY DEF JobEvents, queueVars, lineVars
<1>2. /\ TypeOK /\ CancelNotLost /\ PromiseIsTrue /\ QueueSound /\ SnapshotsSound /\ ViewSound
      /\ CallsSound /\ NewestComes /\ pending \subseteq DOMAIN view
  BY DEF FeedInv
<1>3. /\ m \in Messages /\ m.event \subseteq DOMAIN m.items \cap submitted /\ m \in Sent
      /\ DOMAIN m.items \cap Queue!Unknown = {} /\ DOMAIN m.items \subseteq Jobs
      /\ \A j \in DOMAIN m.items : m.items[j] \in Statuses /\ Le(m.items[j], Status(j))
  <2>1. m \in Messages /\ m \in Sent
    BY <1>2 DEF TypeOK, Sent
  <2> QED BY <1>2, <2>1, SentType DEF SnapshotsSound
<1>4. n \in Messages /\ n.rev = m.rev /\ n.items = m.items /\ n.event = {}
  BY <1>3 DEF Messages
<1> HIDE DEF n
<1>5. DOMAIN ends = over /\ \A j \in over : ends[j] = m.items[j] /\ ends[j] \in Outcomes
  BY DEF Restrict
<1>6. over \subseteq Jobs \ Queue!Unknown /\ \A j \in over : ends[j] = outcome[j]
  <2>1. ASSUME NEW j \in over PROVE j \in Jobs \ Queue!Unknown /\ ends[j] = outcome[j]
    <3>1. j \in Jobs \ Queue!Unknown /\ Le(m.items[j], Status(j)) /\ m.items[j] \in Outcomes
      BY <1>3
    <3>2. Status(j) \in Statuses /\ (Status(j) \in Outcomes => Status(j) = outcome[j])
      BY <1>2, <3>1, StatusType
    <3>3. Status(j) = m.items[j]
      BY <3>1, <3>2, LeFacts
    <3> QED BY <1>5, <3>1, <3>2, <3>3
  <2> QED BY <2>1
<1> HIDE DEF over, ends
<1>7. /\ promise' = [j \in Jobs |-> IF j \in over \cap Open THEN ends[j] ELSE promise[j]]
      /\ pending' = pending \ (over \cap Open)
  BY <1>1, <1>5 DEF Finish
<1>8. Queue!Unknown' = Queue!Unknown /\ Items' = Items
  BY <1>1, Still
<1>9. /\ promise \in [Jobs -> Outcomes \cup {NONE}] /\ submitted \subseteq Jobs
      /\ promise' \in [Jobs -> Outcomes \cup {NONE}]
      /\ \A j \in Jobs : promise'[j] = IF j \in over \cap Open THEN ends[j] ELSE promise[j]
  BY <1>2, <1>5, <1>7 DEF TypeOK
<1>10. Open' = Open \ over
  <2>1. \A j \in over : ends[j] # NONE
    BY <1>5, NotAnAnswer
  <2> QED BY <1>1, <1>9, <2>1 DEF Open
<1>11. /\ CancelNotLost' /\ accepted' \cap Queue!Unknown = {}
       /\ accepted' \subseteq accepted \cup submitted /\ cancels' \subseteq Jobs
  <2>1. m.event \in SUBSET Jobs /\ m.event \cap Queue!Unknown = {} /\ Open' \subseteq Open
    BY <1>3, <1>10
  <2> QED BY <1>1, <1>2, <2>1, AcceptingKeeps
<1>12. QueueSound' /\ SnapshotsSound' /\ ViewSound' /\ NewestComes'
  <2>1. \A k \in outbox' : k.event \subseteq DOMAIN k.items \cap submitted'
    BY <1>1, <1>2, <1>4 DEF SnapshotsSound
  <2>2. \A k \in Sent' : k \in Sent \/ k = n
    BY <1>1 DEF Sent
  <2>3. \A k \in Sent : k \in Sent' \/ k = m
    BY <1>1 DEF Sent
  <2>4. n \in Sent'
    BY <1>1 DEF Sent
  <2>5. /\ \A k \in Sent' : \E l \in Sent : k.rev = l.rev /\ k.items = l.items
        /\ \A l \in Sent : \E k \in Sent' : k.rev = l.rev
    BY <1>3, <1>4, <2>2, <2>3, <2>4
  <2>6. DOMAIN view' \cap Queue!Unknown \subseteq submitted' /\ DOMAIN view' \subseteq Jobs
    BY <1>1, <1>2, ListFacts DEF ViewSound, TypeOK
  <2> QED BY <1>1, <1>2, <1>11, <2>1, <2>5, <2>6, QueueStill
<1>13. CallsSound'
  BY <1>1, <1>2, <1>3, <1>6, <1>7, <1>8, <1>9, <1>10 DEF CallsSound, Open
<1>14. PromiseIsTrue'
  BY <1>1, <1>2, <1>6, <1>8, <1>9 DEF PromiseIsTrue
<1>15. TypeOK'
  BY <1>1, <1>2, <1>4, <1>7, <1>9, <1>11 DEF TypeOK
<1> QED BY <1>1, <1>2, <1>7, <1>11, <1>12, <1>13, <1>14, <1>15 DEF FeedInv

LEMMA StepSubmitBatch ==
  ASSUME FeedInv, NEW n \in 1 .. MaxBatch, NEW ids \in [1 .. n -> Jobs], SubmitBatch(ids) PROVE FeedInv'
<1> DEFINE new == Range(ids)
           d == [ids |-> ids, stage |-> "wait", rev |-> 0]
<1>1. /\ \A k \in DOMAIN ids : ids[k] \in Queue!Unknown \ submitted
      /\ submitted' = submitted \cup new /\ pending' = pending \cup new
      /\ view' = [j \in DOMAIN view \cup new |-> IF j \in new THEN "queued" ELSE view[j]]
      /\ calls' = calls \cup {d} /\ ready' = IF ready = "no" THEN "listening" ELSE ready
      /\ UNCHANGED <<queueVars, outbox, cancels, query, revision, notified, accepted, cancelReq, promise>>
      /\ UNCHANGED <<lineVars, line, serving, stopping, outcome, present, changes, others>>
  BY DEF SubmitBatch, queueVars, lineVars
<1>2. /\ TypeOK /\ CancelNotLost /\ PromiseIsTrue /\ QueueSound /\ SnapshotsSound /\ ViewSound
      /\ CallsSound /\ NewestComes /\ pending \subseteq DOMAIN view
  BY DEF FeedInv
<1>3. new \subseteq Jobs /\ new \subseteq Queue!Unknown /\ new \cap submitted = {}
  BY <1>1 DEF Range
<1>4. d \in Calls /\ d.ids = ids /\ d.stage = "wait"
  <2>1. n \in Nat
    BY FeedConstants
  <2>2. ids \in Seq(Jobs)
    BY <2>1
  <2> QED BY <2>2 DEF Calls
<1> HIDE DEF new, d
<1>5. view \in Lists /\ DOMAIN view \subseteq Jobs /\ \A j \in DOMAIN view : view[j] \in Statuses
  BY <1>2, ListFacts DEF TypeOK
<1>6. view' \in Lists /\ DOMAIN view' = DOMAIN view \cup new
  <2>1. view' \in [DOMAIN view \cup new -> Statuses]
    BY <1>1, <1>5 DEF Statuses
  <2> QED BY <1>1, <1>3, <1>5, <2>1 DEF Lists
<1>7. \A j \in Jobs : view'[j] = "queued" \/ j \notin new
  BY <1>1
<1>8. \A j \in DOMAIN view : j \notin new => view'[j] = view[j]
  BY <1>1
<1>9. Queue!Unknown' = Queue!Unknown /\ Items' = Items /\ Sent' = Sent
  BY <1>1, Still DEF Sent
<1>10. QueueSound' /\ SnapshotsSound' /\ ViewSound' /\ NewestComes'
  <2>1. \A k \in outbox' : k.event \subseteq DOMAIN k.items \cap submitted'
    BY <1>1, <1>2 DEF SnapshotsSound
  <2>2. DOMAIN view' \cap Queue!Unknown \subseteq submitted' /\ DOMAIN view' \subseteq Jobs
    BY <1>1, <1>2, <1>3, <1>5, <1>6 DEF ViewSound
  <2>3. \A j \in Jobs \ Queue!Unknown :
          (j \in DOMAIN view' <=> j \in DOMAIN view) /\ (j \in DOMAIN view => view'[j] = view[j])
    BY <1>3, <1>6, <1>8
  <2>4. accepted' \cap Queue!Unknown = {}
    BY <1>1, <1>2 DEF QueueSound
  <2> QED BY <1>1, <1>2, <1>9, <2>1, <2>2, <2>3, <2>4, QueueStill
<1>11. \A j \in new : promise[j] = NONE
  BY <1>2, <1>3 DEF CallsSound
<1>12. Open' = Open \cup new
  BY <1>1, <1>11 DEF Open
<1>13. CallsSound'
  <2>1. \A c \in calls : Range(c.ids) \cap new = {}
    BY <1>2, <1>3 DEF CallsSound
  <2>2. Range(d.ids) = new
    BY <1>4 DEF new
  <2>3. \A c \in calls' : Range(c.ids) \subseteq submitted'
    BY <1>1, <1>2, <2>2 DEF CallsSound
  <2>4. \A c \in calls' : c.stage = "ok" => Range(c.ids) \cap Queue!Unknown' = {}
    BY <1>1, <1>2, <1>4, <1>9 DEF CallsSound
  <2>5. \A c \in calls' : c.stage # "ok" => \A j \in Range(c.ids) :
          j \in pending' \cap Open' \cap Queue!Unknown' /\ view'[j] = "queued"
    <3>1. \A j \in new : j \in pending' \cap Open' \cap Queue!Unknown' /\ view'[j] = "queued"
      BY <1>1, <1>3, <1>7, <1>9, <1>12
    <3>2. \A c \in calls : c.stage # "ok" => \A j \in Range(c.ids) :
            j \in pending' \cap Open' \cap Queue!Unknown' /\ view'[j] = "queued"
      BY <1>1, <1>2, <1>8, <1>9, <1>12, <2>1 DEF CallsSound
    <3> QED BY <1>1, <2>2, <3>1, <3>2
  <2>6. \A c, e \in calls' : c # e => Range(c.ids) \cap Range(e.ids) = {}
    BY <1>1, <1>2, <2>1, <2>2 DEF CallsSound
  <2>7. \A j \in Jobs : promise'[j] # NONE => j \in submitted'
    BY <1>1, <1>2 DEF CallsSound
  <2> QED BY <2>3, <2>4, <2>5, <2>6, <2>7 DEF CallsSound
<1>14. PromiseIsTrue'
  <2>1. \A j \in Jobs : promise[j] # NONE => j \notin Range(d.ids)
    BY <1>3, <1>4, <1>11 DEF new
  <2> QED BY <1>1, <1>2, <1>9, <2>1 DEF PromiseIsTrue
<1>15. CancelNotLost'
  BY <1>1, <1>2, <1>3, <1>12 DEF CancelNotLost, TypeOK
<1>16. TypeOK'
  BY <1>1, <1>2, <1>3, <1>4, <1>6 DEF TypeOK
<1> QED BY <1>1, <1>2, <1>6, <1>10, <1>13, <1>14, <1>15, <1>16 DEF FeedInv

\* Jobs of one call that the queue does not know are settled here, with a failure or a
\* cancellation; what is left of the call has none of them.
LEMMA Settled ==
  ASSUME FeedInv, NEW c \in calls, c.stage # "ok", NEW gone \in SUBSET Range(c.ids),
         NEW ends \in [gone -> {"cancelled", "failed"}], Finish(ends),
         calls' = calls \ {c} \/ \E rest \in Seq(Jobs) :
           /\ calls' \subseteq (calls \ {c}) \cup {[c EXCEPT !.ids = rest, !.stage = "sent"]}
           /\ c.stage = "wait" /\ Range(rest) = Range(c.ids) \ gone,
         UNCHANGED <<queueVars, outbox, cancels, query, ready, revision, submitted, accepted, cancelReq>>,
         view' \in Lists, notified' \subseteq Jobs, DOMAIN view \ gone \subseteq DOMAIN view',
         DOMAIN view' \subseteq DOMAIN view, \A j \in DOMAIN view \ gone : view'[j] = view[j]
  PROVE  FeedInv'
<1>1. UNCHANGED <<lineVars, line, serving, stopping, outcome, present, changes, others>>
  BY DEF queueVars, lineVars
<1>2. /\ TypeOK /\ CancelNotLost /\ PromiseIsTrue /\ QueueSound /\ SnapshotsSound /\ ViewSound
      /\ CallsSound /\ NewestComes /\ pending \subseteq DOMAIN view
  BY DEF FeedInv
<1>3. c \in Calls /\ Range(c.ids) \subseteq Jobs
  <2>1. c \in Calls
    BY <1>2 DEF TypeOK
  <2>2. c.ids \in Seq(Jobs)
    BY ONLY <2>1 DEF Calls
  <2>3. \A k \in DOMAIN c.ids : c.ids[k] \in Jobs
    BY ONLY <2>2
  <2> QED BY ONLY <2>1, <2>3 DEF Range
<1>4. gone \subseteq Jobs /\ gone \subseteq pending \cap Open \cap Queue!Unknown
  BY <1>2, <1>3 DEF CallsSound
<1>5. /\ promise' = [j \in Jobs |-> IF j \in gone THEN ends[j] ELSE promise[j]] /\ pending' = pending \ gone
  BY <1>4 DEF Finish
<1>6. /\ promise' \in [Jobs -> Outcomes \cup {NONE}] /\ \A j \in gone : promise'[j] \in {"cancelled", "failed"}
      /\ \A j \in Jobs \ gone : promise'[j] = promise[j]
  BY <1>2, <1>4, <1>5 DEF TypeOK, Outcomes
<1>7. \A j \in gone : promise'[j] # NONE
  BY <1>6, NotAnAnswer DEF Outcomes
<1>8. Queue!Unknown' = Queue!Unknown /\ Items' = Items /\ Sent' = Sent /\ Open' = Open \ gone
  <2>1. submitted \subseteq Jobs
    BY <1>2 DEF TypeOK
  <2> QED BY <1>1, <1>6, <1>7, <2>1, Still DEF Sent, Open
<1>9. QueueSound' /\ SnapshotsSound' /\ ViewSound' /\ NewestComes'
  <2>1. \A k \in outbox' : k.event \subseteq DOMAIN k.items \cap submitted'
    BY <1>2 DEF SnapshotsSound
  <2>2. DOMAIN view' \cap Queue!Unknown \subseteq submitted' /\ DOMAIN view' \subseteq Jobs
    BY <1>2, ListFacts DEF ViewSound
  <2>3. \A j \in Jobs \ Queue!Unknown :
          (j \in DOMAIN view' <=> j \in DOMAIN view) /\ (j \in DOMAIN view => view'[j] = view[j])
    BY <1>4
  <2>4. accepted' \cap Queue!Unknown = {}
    BY <1>2 DEF QueueSound
  <2> QED BY <1>2, <1>8, <2>1, <2>2, <2>3, <2>4, QueueStill
<1>10. ASSUME NEW e \in calls'
       PROVE  \/ e \in calls /\ e # c /\ Range(e.ids) \cap Range(c.ids) = {}
              \/ /\ e \notin calls \ {c}
                 /\ e \in Calls /\ e.stage = "sent" /\ c.stage = "wait" /\ Range(e.ids) = Range(c.ids) \ gone
                 /\ \A f \in calls' : f # e => f \in calls /\ f # c
  <2>1. CASE e \in calls /\ e # c
    BY <1>2, <2>1 DEF CallsSound
  <2>2. CASE ~(e \in calls /\ e # c)
    <3>1. PICK rest \in Seq(Jobs) :
            /\ calls' \subseteq (calls \ {c}) \cup {[c EXCEPT !.ids = rest, !.stage = "sent"]}
            /\ c.stage = "wait" /\ Range(rest) = Range(c.ids) \ gone
      BY <1>10, <2>2
    <3>2. e = [c EXCEPT !.ids = rest, !.stage = "sent"]
      BY <1>10, <2>2, <3>1
    <3>3. e \in Calls /\ e.stage = "sent" /\ e.ids = rest
      BY <1>3, <3>2 DEF Calls
    <3> QED BY <2>2, <3>1, <3>2, <3>3
  <2> QED BY <2>1, <2>2
<1>11. CallsSound'
  <2>1. \A e \in calls' : Range(e.ids) \subseteq submitted'
    BY <1>2, <1>10 DEF CallsSound
  <2>2. \A e \in calls' : e.stage = "ok" => Range(e.ids) \cap Queue!Unknown' = {}
    BY <1>2, <1>8, <1>10 DEF CallsSound
  <2>3. ASSUME NEW e \in calls', e.stage # "ok", NEW j \in Range(e.ids)
        PROVE  j \in pending' \cap Open' \cap Queue!Unknown' /\ view'[j] = "queued"
    <3>1. j \notin gone
      BY <1>10, <2>3
    <3>2. j \in pending \cap Open \cap Queue!Unknown /\ view[j] = "queued"
      BY <1>2, <1>10, <2>3 DEF CallsSound
    <3> QED BY <1>2, <1>5, <1>8, <3>1, <3>2
  <2>4. \A e, f \in calls' : e # f => Range(e.ids) \cap Range(f.ids) = {}
    BY <1>2, <1>10 DEF CallsSound
  <2>5. \A j \in Jobs : promise'[j] # NONE => j \in submitted'
    BY <1>2, <1>4, <1>6 DEF CallsSound, Open
  <2> QED BY <2>1, <2>2, <2>3, <2>4, <2>5 DEF CallsSound
<1>12. PromiseIsTrue'
  <2>1. ASSUME NEW j \in gone
        PROVE  /\ promise'[j] # "completed" /\ j \in Queue!Unknown'
               /\ \A e \in calls' : j \notin Range(e.ids)
    BY <1>4, <1>6, <1>8, <1>10
  <2>2. ASSUME NEW j \in Jobs \ gone, promise[j] # NONE
        PROVE  \/ promise'[j] = outcome'[j]
               \/ /\ promise'[j] # "completed" /\ j \in Queue!Unknown'
                  /\ \A e \in calls' : e.stage \in {"wait", "sent"} => j \notin Range(e.ids)
    BY <1>1, <1>2, <1>6, <1>8, <1>10, <2>2 DEF PromiseIsTrue
  <2> QED BY <1>6, <2>1, <2>2 DEF PromiseIsTrue
<1>13. CancelNotLost'
  BY <1>1, <1>2, <1>8 DEF CancelNotLost
<1>14. calls' \subseteq Calls
  BY <1>2, <1>10 DEF TypeOK
<1>15. TypeOK'
  BY <1>1, <1>2, <1>5, <1>6, <1>14 DEF TypeOK
<1>16. pending' \subseteq DOMAIN view'
  BY <1>2, <1>5
<1> QED BY <1>9, <1>11, <1>12, <1>13, <1>15, <1>16 DEF FeedInv

LEMMA Shown ==
  ASSUME TypeOK, NEW gone, NEW ends \in [gone -> Outcomes], Show(ends)
  PROVE  view' \in Lists /\ DOMAIN view' = DOMAIN view /\ \A j \in DOMAIN view \ gone : view'[j] = view[j]
<1>1. view' = [j \in DOMAIN view |-> IF j \in gone THEN ends[j] ELSE view[j]]
  BY DEF Show
<1>2. DOMAIN view \subseteq Jobs /\ \A j \in DOMAIN view : view[j] \in Statuses
  BY ListFacts DEF TypeOK
<1>3. view' \in [DOMAIN view -> Statuses]
  BY <1>1, <1>2 DEF Statuses
<1> QED BY <1>1, <1>2, <1>3 DEF Lists

LEMMA StepInvoke == ASSUME FeedInv, NEW c \in calls, Invoke(c) PROVE FeedInv'
<1> DEFINE gone == Range(c.ids) \cap cancelReq
           ends == [j \in gone |-> "cancelled"]
<1>1. /\ c.stage = "wait" /\ Finish(ends) /\ Show(ends)
      /\ UNCHANGED <<queueVars, outbox, cancels, query, ready, revision, notified, submitted, accepted, cancelReq>>
  BY DEF Invoke
<1>2. PICK rest \in Kept(c.ids, Range(c.ids) \ cancelReq) :
        calls' = (calls \ {c}) \cup (IF rest = <<>> THEN {} ELSE {[c EXCEPT !.ids = rest, !.stage = "sent"]})
  BY DEF Invoke
<1>3. TypeOK /\ c.ids \in Seq(Jobs)
  BY DEF FeedInv, TypeOK, Calls
<1>4. Range(rest) = Range(c.ids) \ gone /\ rest \in Seq(Jobs)
  <2>1. Range(rest) = Range(c.ids) \ cancelReq
    BY DEF Kept
  <2>2. PICK n \in 0 .. Len(c.ids) : rest \in [1 .. n -> Range(c.ids) \ cancelReq]
    BY DEF Kept
  <2>3. n \in Nat /\ Range(c.ids) \subseteq Jobs
    BY <1>3 DEF Range
  <2>4. rest \in Seq(Jobs)
    BY <2>2, <2>3
  <2> QED BY <2>1, <2>4
<1>5. ends \in [gone -> {"cancelled", "failed"}] /\ ends \in [gone -> Outcomes] /\ gone \in SUBSET Range(c.ids)
  BY DEF Outcomes
<1> HIDE DEF ends, gone
<1>6. view' \in Lists /\ DOMAIN view' = DOMAIN view /\ \A j \in DOMAIN view \ gone : view'[j] = view[j]
  BY <1>1, <1>3, <1>5, Shown
<1>7. notified' \subseteq Jobs
  BY <1>1, <1>3 DEF TypeOK
<1>8. calls' \subseteq (calls \ {c}) \cup {[c EXCEPT !.ids = rest, !.stage = "sent"]}
  BY <1>2
<1> QED BY <1>1, <1>4, <1>5, <1>6, <1>7, <1>8, Settled

LEMMA StepSubmitFails == ASSUME FeedInv, NEW c \in calls, SubmitFails(c) PROVE FeedInv'
<1> DEFINE ids == Range(c.ids) \cap Open \cap DOMAIN view
           ends == [j \in ids |-> IF j \in cancelReq THEN "cancelled" ELSE "failed"]
<1>1. /\ c.stage # "ok" /\ Finish(ends) /\ calls' = calls \ {c}
      /\ IF c.stage = "ftp" THEN view' = Restrict(view, DOMAIN view \ ids) /\ UNCHANGED notified
         ELSE Show(ends) /\ notified' = notified \cup ids
      /\ UNCHANGED <<queueVars, outbox, cancels, query, ready, revision, submitted, accepted, cancelReq>>
  BY DEF SubmitFails
<1>2. ends \in [ids -> {"cancelled", "failed"}] /\ ends \in [ids -> Outcomes] /\ ids \in SUBSET Range(c.ids)
  BY DEF Outcomes
<1>3. TypeOK /\ DOMAIN view \subseteq Jobs /\ \A j \in DOMAIN view : view[j] \in Statuses
  BY ListFacts DEF FeedInv, TypeOK
<1>4. notified' \subseteq Jobs
  BY <1>1, <1>3 DEF TypeOK
<1> HIDE DEF ids, ends
<1>5. /\ view' \in Lists /\ DOMAIN view \ ids \subseteq DOMAIN view' /\ DOMAIN view' \subseteq DOMAIN view
      /\ \A j \in DOMAIN view \ ids : view'[j] = view[j]
  <2>1. CASE c.stage = "ftp"
    <3>1. view' = [j \in DOMAIN view \ ids |-> view[j]]
      BY <1>1, <2>1 DEF Restrict
    <3>2. view' \in [DOMAIN view \ ids -> Statuses]
      BY <1>3, <3>1
    <3> QED BY <1>3, <3>1, <3>2 DEF Lists
  <2>2. CASE c.stage # "ftp"
    BY <1>1, <1>2, <1>3, <2>2, Shown
  <2> QED BY <2>1, <2>2
<1> QED BY <1>1, <1>2, <1>4, <1>5, Settled

(***************************************************************************)
(* The invariant                                                           *)
(***************************************************************************)

LEMMA FeedInit == ASSUME Init PROVE FeedInv
<1>1. /\ line = <<>> /\ serving = {} /\ stopping = {} /\ outcome = [j \in Jobs |-> NONE]
      /\ present = {} /\ changes = 0 /\ others = 0 /\ outbox = {} /\ calls = {} /\ cancels = {}
      /\ query = NONE /\ ready = "no" /\ revision = -1 /\ view = <<>> /\ pending = {} /\ notified = {}
      /\ submitted = {} /\ accepted = {} /\ cancelReq = {} /\ promise = [j \in Jobs |-> NONE]
  BY DEF Init, Queue!Init
<1>2. DOMAIN view = {} /\ view \in Lists
  <2>1. view \in [{} -> Statuses]
    BY <1>1
  <2> QED BY <1>1, <2>1 DEF Lists
<1>3. Range(line) = {} /\ IsInjective(line)
  BY <1>1 DEF Range, IsInjective
<1>4. Sent = {}
  BY <1>1 DEF Sent
<1>5. TypeOK
  BY <1>1, <1>2, FeedConstants DEF TypeOK
<1>6. CancelNotLost /\ PromiseIsTrue /\ pending \subseteq DOMAIN view
  BY <1>1 DEF CancelNotLost, PromiseIsTrue
<1>7. QueueSound
  BY <1>1, <1>3 DEF QueueSound
<1>8. SnapshotsSound /\ ViewSound /\ NewestComes
  BY <1>1, <1>2, <1>4 DEF SnapshotsSound, ViewSound, NewestComes
<1>9. CallsSound
  BY <1>1 DEF CallsSound
<1> QED BY <1>5, <1>6, <1>7, <1>8, <1>9 DEF FeedInv

LEMMA FeedStutter == ASSUME FeedInv, UNCHANGED vars PROVE FeedInv'
<1>1. UNCHANGED <<queueVars, calls, cancels, query, outbox, ready, shownVars, recVars>>
  BY DEF vars, ipcVars
<1>2. UNCHANGED <<lineVars, line, serving, stopping, outcome, present, changes, others,
                  revision, view, pending, notified, submitted, accepted, cancelReq, promise>>
  BY <1>1 DEF queueVars, lineVars, shownVars, recVars
<1>3. /\ TypeOK /\ QueueSound /\ SnapshotsSound /\ ViewSound /\ NewestComes /\ pending \subseteq DOMAIN view
  BY DEF FeedInv
<1>4. QueueSound' /\ SnapshotsSound' /\ ViewSound' /\ NewestComes'
  BY <1>1, <1>2, <1>3, OnlyRecords DEF QueueSound
<1> QED BY <1>1, <1>2, <1>3, <1>4, AppliedKeeps DEF TypeOK

LEMMA FeedStep == ASSUME FeedInv, [Next]_vars PROVE FeedInv'
<1>1. CASE Begin \/ ClearCompleted
  BY <1>1, StepBegin, StepClearCompleted
<1>2. CASE \E j \in Jobs, o \in Outcomes : End(j, o)
  BY <1>2, StepEnd
<1>3. CASE \E j \in Jobs : BackendCancels(j) \/ CancelArrives(j) \/ NativeEnqueue(j)
  BY <1>3, StepBackendCancels, StepCancelArrives, StepNativeEnqueue
<1>4. CASE \E c \in calls : EnqueueArrives(c) \/ EnqueueRefused(c)
  BY <1>4, StepEnqueueArrives, StepEnqueueRefused
<1>5. CASE \E m \in outbox : Snapshot(m) \/ JobEvents(m)
  BY <1>5, StepSnapshot, StepJobEvents
<1>6. CASE Initialize \/ Listens \/ AnswerQuery \/ Bootstrap \/ InitializeFails
  BY <1>6, StepInitialize, StepAnswerQuery, StepBootstrap
<1>7. CASE \E n \in 1 .. MaxBatch : \E ids \in [1 .. n -> Jobs] : SubmitBatch(ids)
  BY <1>7, StepSubmitBatch
<1>8. CASE \E c \in calls : Invoke(c) \/ EnqueueReturns(c) \/ SubmitFails(c)
  BY <1>8, StepInvoke, StepEnqueueReturns, StepSubmitFails
<1>9. CASE \E j \in Jobs : CancelTransfer(j)
  BY <1>9, StepCancelTransfer
<1>10. CASE UNCHANGED vars
  BY <1>10, FeedStutter
<1> QED BY <1>1, <1>2, <1>3, <1>4, <1>5, <1>6, <1>7, <1>8, <1>9, <1>10 DEF Next

\* The queue, the snapshots on their way, the list and the calls of the webview agree in
\* every state of transfer-queue-service.ts: what the theorems below follow from.
THEOREM FeedStaysSound == Spec => []FeedInv
<1>1. Init => FeedInv
  BY FeedInit
<1>2. FeedInv /\ [Next]_vars => FeedInv'
  BY FeedStep
<1> QED BY <1>1, <1>2, PTL DEF Spec

\* finish() resolves a done promise with the outcome the queue gave the job, or with a
\* failure or a cancellation of a job that the queue will never be asked to run.
THEOREM PromisesAreTrue == Spec => []PromiseIsTrue
<1>1. FeedInv => PromiseIsTrue
  BY DEF FeedInv
<1> QED BY <1>1, FeedStaysSound, PTL

\* The records of submitBatch have their type, a cancel before the acceptance is not lost,
\* and every item that may still fail is on the list.
THEOREM RecordsStayTogether == Spec => []RecordsAgree
<1>1. FeedInv => RecordsAgree
  <2> SUFFICES ASSUME FeedInv PROVE TypeOK /\ CancelNotLost /\ SubmittedShown
    BY DEF RecordsAgree
  <2>1. /\ TypeOK /\ CancelNotLost /\ CallsSound /\ pending \subseteq DOMAIN view
    BY DEF FeedInv
  <2> QED BY <2>1 DEF SubmittedShown, CallsSound
<1> QED BY <1>1, FeedStaysSound, PTL

\* Once everything that publish and the IPC answers sent has arrived, applySnapshot shows
\* every item of the queue with its status.
THEOREM QuietViewIsCurrent == Spec => []ViewCatchesUp
<1>1. FeedInv => ViewCatchesUp
  <2> SUFFICES ASSUME FeedInv, Quiet
               PROVE  /\ revision = changes \/ changes = 0
                      /\ \A j \in present : j \in DOMAIN view /\ view[j] = Status(j)
    BY DEF ViewCatchesUp
  <2>1. query = NONE /\ Sent = {}
    BY DEF FeedInv, NewestComes, Quiet, Sent
  <2>2. revision = changes \/ changes = 0
    BY <2>1 DEF FeedInv, NewestComes, Quiet
  <2>3. changes = 0 => present = {}
    BY DEF FeedInv, QueueSound
  <2> QED BY <2>2, <2>3 DEF FeedInv, ViewSound
<1> QED BY <1>1, FeedStaysSound, PTL

\* No step of applySnapshot, submitBatch, finish or the fallback to FTP turns a status that
\* is shown into an earlier one.
LEMMA ViewGoesOn ==
  ASSUME FeedInv, [Next]_vars
  PROVE  \A j \in DOMAIN view \cap DOMAIN view' : Le(view[j], view'[j])
<1>1. /\ TypeOK /\ CallsSound /\ ViewSound
      /\ DOMAIN view \subseteq Jobs /\ \A j \in DOMAIN view : view[j] \in Statuses
  BY ListFacts DEF FeedInv, TypeOK
<1>2. CASE UNCHANGED view
  BY <1>2 DEF Le
<1>3. ASSUME NEW m \in outbox, Snapshot(m), view' # view
      PROVE  \A j \in DOMAIN view \cap DOMAIN view' : Le(view[j], view'[j])
  <2>1. ApplySnapshot(m) /\ UNCHANGED <<queueVars, query, submitted>> /\ outbox' \subseteq outbox
    BY <1>3 DEF Snapshot, shownVars, recVars, ipcVars
  <2>2. m \in Sent /\ Sent' \subseteq Sent
    BY <2>1 DEF Sent
  <2> QED BY <2>1, <2>2, Applied
<1>4. ASSUME Bootstrap PROVE \A j \in DOMAIN view \cap DOMAIN view' : Le(view[j], view'[j])
  <2>1. ApplySnapshot(query) /\ query # NONE /\ query' = NONE /\ UNCHANGED <<queueVars, outbox, submitted>>
    BY <1>4 DEF Bootstrap, recVars
  <2>2. query \in Sent /\ Sent' \subseteq Sent
    BY <2>1 DEF Sent
  <2> QED BY <2>1, <2>2, Applied
<1>5. ASSUME NEW n \in 1 .. MaxBatch, NEW ids \in [1 .. n -> Jobs], SubmitBatch(ids)
      PROVE  \A j \in DOMAIN view \cap DOMAIN view' : Le(view[j], view'[j])
  <2>1. \A j \in Range(ids) : j \notin DOMAIN view
    BY <1>1, <1>5 DEF SubmitBatch, ViewSound, Range
  <2>2. \A j \in DOMAIN view : j \notin Range(ids) => view'[j] = view[j]
    BY <1>5 DEF SubmitBatch
  <2> QED BY <2>1, <2>2 DEF Le
<1>6. ASSUME NEW c \in calls, Invoke(c) \/ SubmitFails(c)
      PROVE  \A j \in DOMAIN view \cap DOMAIN view' : Le(view[j], view'[j])
  <2>1. c.stage # "ok"
    BY <1>6 DEF Invoke, SubmitFails
  <2>2. \A j \in Range(c.ids) : view[j] = "queued"
    BY <1>1, <2>1 DEF CallsSound
  <2>3. ASSUME NEW f, DOMAIN f \subseteq Range(c.ids), \A j \in DOMAIN f : f[j] \in Outcomes, Show(f)
        PROVE  \A j \in DOMAIN view \cap DOMAIN view' : Le(view[j], view'[j])
    <3>1. \A j \in DOMAIN view : view'[j] = view[j] \/ (j \in DOMAIN f /\ view'[j] = f[j])
      BY <2>3 DEF Show
    <3>2. \A o \in Outcomes : Le("queued", o)
      BY LeFacts DEF Statuses
    <3> QED BY <2>2, <2>3, <3>1, <3>2 DEF Le
  <2>4. ASSUME NEW keep, view' = Restrict(view, keep), keep \subseteq DOMAIN view
        PROVE  \A j \in DOMAIN view \cap DOMAIN view' : Le(view[j], view'[j])
    BY <2>4 DEF Restrict, Le
  <2>5. CASE Invoke(c)
    BY <2>3, <2>5 DEF Invoke, Outcomes
  <2>6. CASE SubmitFails(c)
    BY <2>3, <2>4, <2>6 DEF SubmitFails, Outcomes
  <2> QED BY <1>6, <2>5, <2>6
<1>7. ASSUME NEW j \in Jobs, view' # view, BackendCancels(j) \/ CancelArrives(j) \/ NativeEnqueue(j) \/ CancelTransfer(j)
      PROVE  FALSE
  BY <1>7 DEF BackendCancels, CancelArrives, NativeEnqueue, CancelTransfer, shownVars
<1>8. ASSUME NEW c \in calls, view' # view, EnqueueArrives(c) \/ EnqueueRefused(c) \/ EnqueueReturns(c) PROVE FALSE
  BY <1>8 DEF EnqueueArrives, EnqueueRefused, EnqueueReturns, shownVars
<1>9. ASSUME view' # view, \/ Begin \/ ClearCompleted \/ (\E j \in Jobs, o \in Outcomes : End(j, o))
                           \/ (\E m \in outbox : JobEvents(m))
                           \/ Initialize \/ Listens \/ AnswerQuery \/ InitializeFails \/ UNCHANGED vars
      PROVE  FALSE
  BY <1>9 DEF Begin, ClearCompleted, End, JobEvents, Initialize, Listens, AnswerQuery, InitializeFails, vars, shownVars
<1> QED BY <1>2, <1>3, <1>4, <1>5, <1>6, <1>7, <1>8, <1>9 DEF Next

\* A status that the list shows never goes back, whatever order snapshots, the bootstrap
\* answer and refusals come in.
THEOREM StatusesGoOn == Spec => NoRollback
<1> DEFINE P == \A j \in DOMAIN view \cap DOMAIN view' : Le(view[j], view'[j])
           R == \A j \in DOMAIN view \cap DOMAIN view' : view'[j] # view[j] => Rank(view[j]) < Rank(view'[j])
<1>1. FeedInv /\ [Next]_vars => P
  BY ViewGoesOn
<1>2. P => R
  BY DEF Le
<1> HIDE DEF P, R
<1>3. FeedInv /\ [Next]_vars => [R]_vars
  BY <1>1, <1>2
<1>4. Spec => [][R]_vars
  BY <1>3, FeedStaysSound, PTL DEF Spec
<1> QED BY <1>4 DEF NoRollback, R

===============================================================================
