----------------------------- MODULE QueueProofs -----------------------------
(***************************************************************************)
(* Safety of TransferQueue for every set of jobs, connections, sessions,   *)
(* windows and pump tasks.  LineSound is inductive as it stands, and what  *)
(* else is proved rests on it.                                             *)
(*                                                                         *)
(* Session generations, closed windows and cancellation: none of           *)
(* NoOrphans, BoundNotRevoked and CompletedOnlyOnLiveBinding is inductive; *)
(* what makes them so is that a session belongs to one connection only and *)
(* that a job's session is the bound one until its token is cancelled      *)
(* (SessionsOwned).                                                        *)
(*                                                                         *)
(* The contract: every step of the queue is a step of JobContract or a     *)
(* stutter under the refinement mapping; LineSound is what makes that so:  *)
(* the deque is the line of waiting jobs, at most one job is served, and a *)
(* job without an outcome that is not live was never submitted.            *)
(***************************************************************************)
EXTENDS TransferQueue, SequenceTheorems, TLAPS

-----------------------------------------------------------------------------
(* Sequences *)

\* Removing one id from a deque without duplicates keeps the others in order.
LEMMA WithoutOne ==
  ASSUME NEW S, NEW s \in Seq(S), NEW j,
         \A k, l \in DOMAIN s : s[k] = s[l] => k = l
  PROVE  /\ Without(s, j) \in Seq(S)
         /\ Elems(Without(s, j)) = Elems(s) \ {j}
         /\ \A k, l \in DOMAIN Without(s, j) : k < l =>
              \E m, n \in DOMAIN s :
                m < n /\ Without(s, j)[k] = s[m] /\ Without(s, j)[l] = s[n]
<1>1. CASE j \notin Elems(s)
  BY <1>1 DEF Without, Elems
<1>2. CASE j \in Elems(s)
  <2> DEFINE p == CHOOSE k \in DOMAIN s : s[k] = j
             w == [i \in 1..(Len(s) - 1) |-> IF i < p THEN s[i] ELSE s[i + 1]]
  <2>1. p \in 1..Len(s) /\ s[p] = j
    BY <1>2 DEF Elems
  <2>2. Without(s, j) = w
    BY <1>2 DEF Without
  <2>3. Len(s) \in Nat \ {0} /\ DOMAIN s = 1..Len(s)
    BY <2>1
  <2> HIDE DEF p
  <2>4. w \in Seq(S) /\ DOMAIN w = 1..(Len(s) - 1)
    BY <2>1, <2>3
  <2>5. Elems(w) \subseteq Elems(s) \ {j}
    BY <2>1, <2>3, <2>4 DEF Elems
  <2>6. ASSUME NEW x \in Elems(s) \ {j} PROVE x \in Elems(w)
    <3>1. PICK k \in 1..Len(s) : s[k] = x
      BY <2>3 DEF Elems
    <3>2. k # p
      BY <2>1, <3>1
    <3>3. CASE k < p
      <4>1. k \in DOMAIN w /\ w[k] = x
        BY <2>1, <2>3, <2>4, <3>1, <3>3
      <4> QED BY <4>1 DEF Elems
    <3>4. CASE k > p
      <4>1. k - 1 \in DOMAIN w /\ w[k - 1] = x
        BY <2>1, <2>3, <2>4, <3>1, <3>4
      <4> QED BY <4>1 DEF Elems
    <3> QED BY <2>1, <3>1, <3>2, <3>3, <3>4
  <2>7. ASSUME NEW k \in DOMAIN w, NEW l \in DOMAIN w, k < l
        PROVE  \E m, n \in DOMAIN s : m < n /\ w[k] = s[m] /\ w[l] = s[n]
    <3> DEFINE m == IF k < p THEN k ELSE k + 1
               n == IF l < p THEN l ELSE l + 1
    <3>1. m \in DOMAIN s /\ n \in DOMAIN s /\ m < n /\ w[k] = s[m] /\ w[l] = s[n]
      BY <2>1, <2>3, <2>4, <2>7
    <3> QED BY <3>1
  <2> HIDE DEF w
  <2> QED BY <2>2, <2>4, <2>5, <2>6, <2>7
<1> QED BY <1>1, <1>2

\* Tail drops the head and keeps the order of the rest.
LEMMA TailElems ==
  ASSUME NEW S, NEW s \in Seq(S), s # <<>>,
         \A k, l \in DOMAIN s : s[k] = s[l] => k = l
  PROVE  /\ Head(s) \in S /\ Tail(s) \in Seq(S)
         /\ Head(s) = s[1] /\ 1 \in DOMAIN s
         /\ DOMAIN Tail(s) = 1..(Len(s) - 1)
         /\ \A k \in DOMAIN Tail(s) : k + 1 \in DOMAIN s /\ Tail(s)[k] = s[k + 1]
         /\ Elems(Tail(s)) = Elems(s) \ {Head(s)}
<1>1. Len(s) \in Nat \ {0} /\ DOMAIN s = 1..Len(s)
  OBVIOUS
<1>2. /\ Head(s) \in S /\ Tail(s) \in Seq(S)
      /\ Head(s) = s[1] /\ 1 \in DOMAIN s
      /\ DOMAIN Tail(s) = 1..(Len(s) - 1)
      /\ \A k \in DOMAIN Tail(s) : k + 1 \in DOMAIN s /\ Tail(s)[k] = s[k + 1]
  BY <1>1
<1>3. Elems(Tail(s)) \subseteq Elems(s) \ {Head(s)}
  BY <1>1, <1>2 DEF Elems
<1>4. ASSUME NEW x \in Elems(s) \ {Head(s)} PROVE x \in Elems(Tail(s))
  <2>1. PICK k \in 1..Len(s) : s[k] = x
    BY <1>1 DEF Elems
  <2>2. k - 1 \in DOMAIN Tail(s) /\ Tail(s)[k - 1] = x
    BY <1>1, <1>2, <2>1
  <2> QED BY <2>2 DEF Elems
<1> QED BY <1>2, <1>3, <1>4

-----------------------------------------------------------------------------
(* The line, the pump and the receipts *)

LEMMA PendingDistinct ==
  ASSUME TypeOK, PendingIsQueue
  PROVE  \A k, l \in DOMAIN pending : pending[k] = pending[l] => k = l
<1> SUFFICES ASSUME NEW k \in DOMAIN pending, NEW l \in DOMAIN pending,
                    pending[k] = pending[l], k # l
             PROVE  FALSE
  OBVIOUS
<1>1. k \in Nat /\ l \in Nat /\ pending[k] \in Jobs /\ pending[l] \in Jobs
  BY DEF TypeOK
<1>2. pos[pending[k]] \in Nat /\ pos[pending[l]] \in Nat
  BY <1>1 DEF TypeOK
<1> QED BY <1>1, <1>2 DEF PendingIsQueue

LEMMA LineInit == Init => LineSound
<1> SUFFICES ASSUME Init PROVE LineSound
  OBVIOUS
<1>1. pending = <<>> /\ DOMAIN pending = {} /\ pending \in Seq(Jobs)
  BY DEF Init
<1>2. TypeOK
  BY <1>1 DEF Init, TypeOK
<1>3. Serialized
  BY DEF Init, Serialized, Active
<1>4. PendingIsQueue
  BY <1>1 DEF Init, PendingIsQueue, Elems
<1>5. ReceiptsMatch
  BY QueueConstants DEF Init, ReceiptsMatch, Live, Terminal
<1>6. NoLostWakeup /\ Bookkeeping
  BY <1>1 DEF Init, NoLostWakeup, Bookkeeping
<1> QED BY <1>2, <1>3, <1>4, <1>5, <1>6 DEF LineSound

\* A critical section of cancel keeps the invariant, whoever calls it.
LEMMA LineCancel ==
  ASSUME LineSound, NEW j \in Jobs, CancelEffect(j), UNCHANGED <<reqVars, pumpVars>>
  PROVE  /\ Serialized' /\ PendingIsQueue' /\ ReceiptsMatch' /\ NoLostWakeup' /\ Bookkeeping'
         /\ status' \in [Jobs -> {"new", "cleared"} \cup Live \cup Terminal]
         /\ pos' = pos /\ accepted' = accepted /\ pending' \in Seq(Jobs)
         /\ jobs' \subseteq Jobs /\ cancelled' \subseteq Jobs
         /\ receipt' \in [Jobs -> Terminal \cup {NONE}]
<1> USE DEF LineSound
<1>1. CASE status[j] = "queued" /\ j \in jobs
  <2>1. /\ status' = [status EXCEPT ![j] = "cancelled"]
        /\ pending' = Without(pending, j)
        /\ jobs' = jobs \ {j}
        /\ cancelled' = cancelled \cup {j}
        /\ receipt' = [receipt EXCEPT ![j] = "cancelled"]
        /\ UNCHANGED <<pos, accepted>>
    BY <1>1 DEF CancelEffect
  <2>2. /\ Without(pending, j) \in Seq(Jobs)
        /\ Elems(Without(pending, j)) = Elems(pending) \ {j}
        /\ \A k, l \in DOMAIN Without(pending, j) : k < l =>
             \E m, n \in DOMAIN pending :
               m < n /\ Without(pending, j)[k] = pending[m] /\ Without(pending, j)[l] = pending[n]
    BY PendingDistinct, WithoutOne DEF TypeOK
  <2>3. \A i \in Jobs : status'[i] = IF i = j THEN "cancelled" ELSE status[i]
    BY <2>1 DEF TypeOK
  <2>4. \A i \in Jobs : receipt'[i] = IF i = j THEN "cancelled" ELSE receipt[i]
    BY <2>1 DEF TypeOK
  <2>5. Serialized'
    <3>1. Active' = Active
      BY <1>1, <2>3 DEF Active
    <3> QED BY <3>1 DEF Serialized, pumpVars
  <2>6. PendingIsQueue'
    <3>1. Elems(pending') = {i \in Jobs : status'[i] = "queued"}
      BY <2>1, <2>2, <2>3 DEF PendingIsQueue
    <3>2. \A k, l \in DOMAIN pending' : k < l => pos[pending'[k]] < pos[pending'[l]]
      BY <2>1, <2>2 DEF PendingIsQueue
    <3> QED BY <2>1, <3>1, <3>2 DEF PendingIsQueue
  <2>7. ReceiptsMatch'
    BY <1>1, <2>1, <2>3, <2>4, QueueConstants DEF ReceiptsMatch, Live, Terminal
  <2>8. NoLostWakeup'
    <3>1. pending = <<>> => j \notin Elems(pending)
      BY DEF Elems
    <3>2. pending # <<>>
      BY <1>1, <3>1 DEF PendingIsQueue
    <3> QED BY <3>2 DEF NoLostWakeup, pumpVars
  <2>9. Bookkeeping'
    BY <1>1, <2>1, <2>3 DEF Bookkeeping, pumpVars, reqVars
  <2> QED BY <2>1, <2>2, <2>5, <2>6, <2>7, <2>8, <2>9 DEF TypeOK, Live, Terminal
<1>2. CASE status[j] = "transferring" /\ j \in jobs
  <2>1. /\ status' = [status EXCEPT ![j] = "cancelling"]
        /\ cancelled' = cancelled \cup {j}
        /\ UNCHANGED <<pos, accepted, pending, jobs, receipt>>
    BY <1>2 DEF CancelEffect
  <2>2. \A i \in Jobs : status'[i] = IF i = j THEN "cancelling" ELSE status[i]
    BY <2>1 DEF TypeOK
  <2>3. Serialized'
    <3>1. Active' = Active
      BY <1>2, <2>2 DEF Active
    <3> QED BY <3>1 DEF Serialized, pumpVars
  <2>4. PendingIsQueue'
    BY <1>2, <2>1, <2>2 DEF PendingIsQueue
  <2>5. ReceiptsMatch'
    BY <1>2, <2>1, <2>2 DEF ReceiptsMatch, Live, Terminal
  <2>6. NoLostWakeup' /\ Bookkeeping'
    BY <1>2, <2>1, <2>2 DEF NoLostWakeup, Bookkeeping, pumpVars, reqVars
  <2> QED BY <2>1, <2>3, <2>4, <2>5, <2>6 DEF TypeOK, Live
<1>3. CASE UNCHANGED jobVars
  BY <1>3 DEF TypeOK, Serialized, PendingIsQueue, ReceiptsMatch, NoLostWakeup, Bookkeeping,
     Active, jobVars, pumpVars, reqVars
<1> QED BY <1>1, <1>2, <1>3 DEF CancelEffect

\* The new items go behind every queued one, with positions not yet used.
LEMMA LineSubmit ==
  ASSUME LineSound, NEW n \in 1..MaxBatch, NEW b \in [1..n -> Input], Submit(b)
  PROVE  LineSound'
<1> USE DEF LineSound
<1> DEFINE new == {b[k].id : k \in DOMAIN b}
<1>1. n \in Nat /\ DOMAIN b = 1..n /\ Len(b) = n /\ b \in Seq(Input)
  BY QueueConstants
<1>2. \A k \in 1..n : /\ b[k].id \in Jobs /\ b[k].conn \in Conns
                      /\ b[k].owner \in Windows \cup {NONE}
                      /\ status[b[k].id] = "new" /\ bound[b[k].conn] \in Sessions
  BY <1>1 DEF Submit, Admissible, Usable, Input
<1>3. \A k, l \in 1..n : b[k].id = b[l].id => k = l
  BY <1>1 DEF Submit, Admissible
<1>4. \A j \in new : IndexIn(b, j) \in 1..n /\ b[IndexIn(b, j)].id = j
  BY <1>1 DEF IndexIn
<1>5. \A k \in 1..n : b[k].id \in new /\ IndexIn(b, b[k].id) = k
  BY <1>1, <1>3, <1>4
<1>6. new \subseteq Jobs /\ \A j \in new : status[j] = "new"
  BY <1>1, <1>2
<1>7. /\ status' = [j \in Jobs |-> IF j \in new THEN "queued" ELSE status[j]]
      /\ pos' = [j \in Jobs |-> IF j \in new THEN accepted + IndexIn(b, j) ELSE pos[j]]
      /\ accepted' = accepted + n
      /\ pending' = pending \o [k \in 1..n |-> b[k].id]
      /\ jobs' = jobs \cup new
      /\ conn' = [j \in Jobs |-> IF j \in new THEN b[IndexIn(b, j)].conn ELSE conn[j]]
      /\ owner' = [j \in Jobs |-> IF j \in new THEN b[IndexIn(b, j)].owner ELSE owner[j]]
      /\ sessionOf' = [j \in Jobs |-> IF j \in new THEN bound[b[IndexIn(b, j)].conn]
                                     ELSE sessionOf[j]]
      /\ kicks' = kicks + 1
      /\ UNCHANGED <<cancelled, receipt, pumping, alive, serving, bindVars, callVars>>
  BY <1>1 DEF Submit
<1> HIDE DEF new
<1> DEFINE ids == [k \in 1..n |-> b[k].id]
<1>8. /\ ids \in Seq(Jobs) /\ Len(ids) = n
      /\ pending' \in Seq(Jobs) /\ Len(pending') = Len(pending) + n
      /\ \A k \in 1..Len(pending) : pending'[k] = pending[k]
      /\ \A k \in 1..n : pending'[Len(pending) + k] = b[k].id
  <2>1. ids \in Seq(Jobs) /\ Len(ids) = n /\ \A k \in 1..n : ids[k] = b[k].id
    BY <1>1, <1>2
  <2>2. pending \in Seq(Jobs) /\ pending' = pending \o ids
    BY <1>7 DEF TypeOK
  <2> HIDE DEF ids
  <2> QED BY <2>1, <2>2, <1>1
<1>9. DOMAIN pending' = 1..(Len(pending) + n) /\ Len(pending) \in Nat /\ DOMAIN pending = 1..Len(pending)
  BY <1>1, <1>8 DEF TypeOK
<1>10. TypeOK'
  <2>1. /\ status' \in [Jobs -> {"new", "cleared"} \cup Live \cup Terminal]
        /\ pos' \in [Jobs -> Nat] /\ accepted' \in Nat
    BY <1>1, <1>4, <1>7 DEF TypeOK, Live
  <2>2. /\ conn' \in [Jobs -> Conns \cup {NONE}]
        /\ owner' \in [Jobs -> Windows \cup {NONE}]
        /\ sessionOf' \in [Jobs -> Sessions \cup {NONE}]
    BY <1>2, <1>4, <1>7 DEF TypeOK
  <2> QED BY <2>1, <2>2, <1>6, <1>7, <1>8 DEF TypeOK, bindVars, callVars
<1>11. \A j \in Jobs : status'[j] = IF j \in new THEN "queued" ELSE status[j]
  BY <1>7
<1>12. \A j \in Jobs : pos'[j] = IF j \in new THEN accepted + IndexIn(b, j) ELSE pos[j]
  BY <1>7
<1>13. Serialized'
  <2>1. Active' = Active
    BY <1>6, <1>11 DEF Active
  <2> QED BY <2>1, <1>7 DEF Serialized
<1>14. PendingIsQueue'
  <2>1. Elems(pending') = Elems(pending) \cup new
    <3>1. ASSUME NEW x \in Elems(pending') PROVE x \in Elems(pending) \cup new
      <4>1. PICK k \in 1..(Len(pending) + n) : pending'[k] = x
        BY <1>9 DEF Elems
      <4>2. CASE k <= Len(pending)
        BY <4>1, <4>2, <1>8, <1>9 DEF Elems
      <4>3. CASE k > Len(pending)
        <5>1. k - Len(pending) \in 1..n /\ k = Len(pending) + (k - Len(pending))
          BY <4>3, <1>1, <1>9
        <5> QED BY <4>1, <5>1, <1>5, <1>8
      <4> QED BY <4>1, <4>2, <4>3, <1>9
    <3>2. ASSUME NEW x \in Elems(pending) PROVE x \in Elems(pending')
      <4>1. PICK k \in 1..Len(pending) : pending[k] = x
        BY <1>9 DEF Elems
      <4>2. k \in DOMAIN pending' /\ pending'[k] = x
        BY <4>1, <1>1, <1>8, <1>9
      <4> QED BY <4>2 DEF Elems
    <3>3. ASSUME NEW x \in new PROVE x \in Elems(pending')
      <4>1. IndexIn(b, x) \in 1..n /\ b[IndexIn(b, x)].id = x
        BY <1>4
      <4>2. /\ Len(pending) + IndexIn(b, x) \in DOMAIN pending'
            /\ pending'[Len(pending) + IndexIn(b, x)] = x
        BY <4>1, <1>1, <1>8, <1>9
      <4> QED BY <4>2 DEF Elems
    <3> QED BY <3>1, <3>2, <3>3
  <2>2. Elems(pending') = {j \in Jobs : status'[j] = "queued"}
    BY <2>1, <1>6, <1>11 DEF PendingIsQueue
  <2>3. \A k \in 1..Len(pending) :
          pending[k] \in Jobs \ new /\ pos'[pending[k]] = pos[pending[k]] /\ pos[pending[k]] \in 1..accepted
    <3> SUFFICES ASSUME NEW k \in 1..Len(pending)
                 PROVE  /\ pending[k] \in Jobs \ new /\ pos'[pending[k]] = pos[pending[k]]
                        /\ pos[pending[k]] \in 1..accepted
      OBVIOUS
    <3>1. pending[k] \in Jobs /\ status[pending[k]] = "queued"
      BY <1>9 DEF PendingIsQueue, Elems
    <3>2. pending[k] \notin new
      BY <3>1, <1>6
    <3> QED BY <3>1, <3>2, <1>12 DEF Bookkeeping
  <2>4. \A k \in 1..n : pos'[b[k].id] = accepted + k
    BY <1>2, <1>5, <1>12
  <2>5. ASSUME NEW k \in DOMAIN pending', NEW l \in DOMAIN pending', k < l
        PROVE  pos'[pending'[k]] < pos'[pending'[l]]
    <3>1. k \in Nat /\ l \in Nat /\ accepted \in Nat
      BY <1>9 DEF TypeOK
    <3>2. CASE l <= Len(pending)
      <4>1. k \in 1..Len(pending) /\ l \in 1..Len(pending)
        BY <2>5, <3>1, <3>2, <1>9
      <4> QED BY <4>1, <2>3, <2>5, <1>8, <1>9 DEF PendingIsQueue
    <3>3. CASE k <= Len(pending) /\ l > Len(pending)
      <4>1. /\ k \in 1..Len(pending) /\ l - Len(pending) \in 1..n
            /\ l = Len(pending) + (l - Len(pending))
        BY <3>1, <3>3, <1>1, <1>9
      <4>2. pending'[l] = b[l - Len(pending)].id
        BY <4>1, <3>1, <1>8, <1>9
      <4>3. pos'[pending'[k]] \in 1..accepted
        BY <4>1, <2>3, <1>8
      <4>4. pos'[pending'[l]] = accepted + (l - Len(pending))
        BY <4>1, <4>2, <2>4
      <4> QED BY <4>1, <4>3, <4>4, <3>1
    <3>4. CASE k > Len(pending)
      <4>1. k - Len(pending) \in 1..n /\ l - Len(pending) \in 1..n
        BY <2>5, <3>1, <3>4, <1>1, <1>9
      <4>2. pending'[k] = b[k - Len(pending)].id /\ pending'[l] = b[l - Len(pending)].id
        BY <4>1, <3>1, <1>8, <1>9
      <4> QED BY <4>1, <4>2, <3>1, <2>4, <2>5, <1>9
    <3> QED BY <3>1, <3>2, <3>3, <3>4, <1>9
  <2> QED BY <2>2, <2>5 DEF PendingIsQueue
<1>15. ReceiptsMatch'
  BY <1>6, <1>7, <1>11 DEF ReceiptsMatch, Live, Terminal
<1>16. NoLostWakeup'
  BY <1>7 DEF NoLostWakeup, TypeOK
<1>17. Bookkeeping'
  <2>1. ASSUME NEW j \in Jobs, status'[j] # "new"
        PROVE  pos'[j] \in 1..accepted' /\ conn'[j] \in Conns
    <3>1. CASE j \in new
      BY <3>1, <1>1, <1>2, <1>4, <1>7, <1>12 DEF TypeOK
    <3>2. CASE j \notin new
      BY <2>1, <3>2, <1>1, <1>7, <1>11, <1>12 DEF Bookkeeping, TypeOK
    <3> QED BY <3>1, <3>2
  <2> QED BY <2>1, <1>7 DEF Bookkeeping
<1> QED BY <1>10, <1>13, <1>14, <1>15, <1>16, <1>17

LEMMA LinePumpStart ==
  ASSUME LineSound, NEW t \in Tasks, PumpStart(t)
  PROVE  LineSound'
<1> USE DEF LineSound
<1> DEFINE h == Head(pending)
<1>1. /\ t \in alive /\ serving[t] = NONE /\ pending # <<>> /\ h \in jobs
      /\ pending' = Tail(pending)
      /\ serving' = [serving EXCEPT ![t] = h]
      /\ status' = [status EXCEPT ![h] = "transferring"]
      /\ UNCHANGED <<pos, accepted, jobs, cancelled, receipt, reqVars,
                     pumping, alive, kicks, bindVars, callVars>>
  BY DEF PumpStart, Idle
<1>2. /\ h \in Jobs /\ Tail(pending) \in Seq(Jobs)
      /\ h = pending[1] /\ 1 \in DOMAIN pending
      /\ DOMAIN Tail(pending) = 1..(Len(pending) - 1)
      /\ \A k \in DOMAIN Tail(pending) :
           k + 1 \in DOMAIN pending /\ Tail(pending)[k] = pending[k + 1]
      /\ Elems(Tail(pending)) = Elems(pending) \ {h}
  BY <1>1, PendingDistinct, TailElems DEF TypeOK
<1> HIDE DEF h
<1>3. status[h] = "queued"
  BY <1>2 DEF PendingIsQueue, Elems
<1>4. \A i \in Jobs : status'[i] = IF i = h THEN "transferring" ELSE status[i]
  BY <1>1 DEF TypeOK
<1>5. TypeOK'
  BY <1>1, <1>2 DEF TypeOK, Live, reqVars, bindVars, callVars
<1>6. Serialized'
  <2>1. alive = {t} /\ Active = {}
    BY <1>1 DEF Serialized
  <2>2. Active' = {h}
    BY <2>1, <1>2, <1>4 DEF Active
  <2>3. {serving'[u] : u \in alive} \ {NONE} = {h}
    BY <2>1, <1>1, <1>2, QueueConstants DEF TypeOK
  <2> QED BY <2>1, <2>2, <2>3, <1>1 DEF Serialized
<1>7. PendingIsQueue'
  <2>1. Elems(pending') = {j \in Jobs : status'[j] = "queued"}
    BY <1>1, <1>2, <1>4 DEF PendingIsQueue
  <2>2. ASSUME NEW k \in DOMAIN pending', NEW l \in DOMAIN pending', k < l
        PROVE  pos'[pending'[k]] < pos'[pending'[l]]
    <3>1. /\ k \in Nat /\ l \in Nat /\ k + 1 < l + 1
          /\ k + 1 \in DOMAIN pending /\ l + 1 \in DOMAIN pending
          /\ pending'[k] = pending[k + 1] /\ pending'[l] = pending[l + 1]
      BY <1>1, <1>2, <2>2 DEF TypeOK
    <3> QED BY <3>1, <1>1 DEF PendingIsQueue
  <2> QED BY <2>1, <2>2 DEF PendingIsQueue
<1>8. ReceiptsMatch'
  BY <1>1, <1>2, <1>3, <1>4 DEF ReceiptsMatch, Live, Terminal
<1>9. NoLostWakeup'
  BY <1>1 DEF NoLostWakeup
<1>10. Bookkeeping'
  <2>1. \A u \in Tasks \ alive : serving'[u] = NONE
    BY <1>1 DEF Bookkeeping, TypeOK
  <2> QED BY <2>1, <1>1, <1>3, <1>4 DEF Bookkeeping, reqVars
<1> QED BY <1>5, <1>6, <1>7, <1>8, <1>9, <1>10

LEMMA LineFinish ==
  ASSUME LineSound, NEW t \in Tasks, NEW result \in {"ok", "err"}, Finish(t, result)
  PROVE  LineSound'
<1> USE DEF LineSound
<1> DEFINE j == serving[t]
           o == OutcomeOf(j, result)
<1>1. /\ j \in jobs
      /\ status' = [status EXCEPT ![j] = o]
      /\ receipt' = [receipt EXCEPT ![j] = o]
      /\ jobs' = jobs \ {j}
      /\ serving' = [serving EXCEPT ![t] = NONE]
      /\ UNCHANGED <<pos, accepted, pending, cancelled, reqVars, pumping, alive,
                     kicks, bindVars, callVars>>
  BY DEF Finish
<1>2. o \in Terminal /\ o # "new" /\ o # NONE /\ o \notin Live
  BY QueueConstants DEF OutcomeOf, Terminal, Live
<1>3. j \in Jobs /\ t \in alive /\ j # NONE /\ j \in Active
  BY <1>1, QueueConstants DEF TypeOK, Bookkeeping, Serialized
<1>3a. serving[t] = j
  OBVIOUS
<1> HIDE DEF j, o
<1>4. \A i \in Jobs : /\ status'[i] = IF i = j THEN o ELSE status[i]
                      /\ receipt'[i] = IF i = j THEN o ELSE receipt[i]
  BY <1>1 DEF TypeOK
<1>5. TypeOK'
  BY <1>1, <1>2 DEF TypeOK, reqVars, bindVars, callVars
<1>6. Serialized'
  <2>1. alive = {t} /\ Active = {j}
    BY <1>3, <1>3a DEF Serialized
  <2>2. Active' = {}
    BY <2>1, <1>2, <1>4 DEF Active, Terminal
  <2>3. {serving'[u] : u \in alive} \ {NONE} = {}
    BY <2>1, <1>1 DEF TypeOK
  <2> QED BY <2>1, <2>2, <2>3, <1>1 DEF Serialized
<1>7. PendingIsQueue'
  <2>1. \A i \in Jobs : status'[i] = "queued" <=> status[i] = "queued"
    BY <1>2, <1>3, <1>4 DEF Active, Terminal
  <2> QED BY <2>1, <1>1 DEF PendingIsQueue
<1>8. ReceiptsMatch'
  BY <1>1, <1>2, <1>3, <1>4 DEF ReceiptsMatch, Active, Live
<1>9. NoLostWakeup'
  BY <1>1 DEF NoLostWakeup
<1>10. Bookkeeping'
  <2>1. \A u \in Tasks \ alive : serving'[u] = NONE
    BY <1>1 DEF Bookkeeping, TypeOK
  <2>2. status[j] # "new"
    BY <1>3 DEF Active
  <2> QED BY <2>1, <2>2, <1>1, <1>4 DEF Bookkeeping, reqVars
<1> QED BY <1>5, <1>6, <1>7, <1>8, <1>9, <1>10

LEMMA LineStep == LineSound /\ [Next]_vars => LineSound'
<1> SUFFICES ASSUME LineSound, [Next]_vars PROVE LineSound'
  OBVIOUS
<1> USE DEF LineSound
<1>1. CASE Enqueue
  BY <1>1, LineSubmit DEF Enqueue
<1>2. ASSUME NEW j \in Jobs, Retry(j) PROVE LineSound'
  <2>1. PICK fresh \in Jobs : Submit(<<[id |-> fresh, conn |-> conn[j], owner |-> NONE]>>)
    BY <1>2 DEF Retry
  <2> DEFINE b == <<[id |-> fresh, conn |-> conn[j], owner |-> NONE]>>
  <2>2. DOMAIN b = 1..1 /\ b[1].conn = conn[j]
    OBVIOUS
  <2>3. conn[j] \in Conns
    <3>1. receipt[j] # NONE
      BY <1>2, QueueConstants DEF Retry, Terminal
    <3>2. status[j] # "new"
      BY <3>1 DEF ReceiptsMatch
    <3> QED BY <3>2 DEF Bookkeeping
  <2>4. b \in [1..1 -> Input]
    BY <2>3 DEF Input
  <2>5. 1 \in 1..MaxBatch
    BY QueueConstants
  <2> HIDE DEF b
  <2> QED BY <2>1, <2>4, <2>5, LineSubmit DEF b
<1>3. ASSUME NEW j \in Jobs, Cancel(j) PROVE LineSound'
  BY <1>3, LineCancel DEF Cancel, TypeOK, reqVars, pumpVars, bindVars, callVars
<1>4. ASSUME NEW j \in Jobs, LooseSweep(j) PROVE LineSound'
  BY <1>4, LineCancel DEF LooseSweep, TypeOK, reqVars, pumpVars, bindVars
<1>5. ASSUME NEW c \in Conns, NEW j \in Jobs, ManagerSweep(c, j) PROVE LineSound'
  BY <1>5, LineCancel DEF ManagerSweep, TypeOK, reqVars, pumpVars, bindVars
<1> DEFINE Frame == Serialized' /\ PendingIsQueue' /\ ReceiptsMatch' /\ NoLostWakeup'
                      /\ Bookkeeping'
<1>6. ASSUME UNCHANGED <<jobVars, reqVars, pumpVars>> PROVE Frame
  BY <1>6 DEF Serialized, PendingIsQueue, ReceiptsMatch, NoLostWakeup, Bookkeeping,
     Active, jobVars, reqVars, pumpVars
<1>7. ASSUME NEW c \in Conns,
             UnbindBegin(c) \/ BindInsert(c) \/ UnbindDone(c) \/ \E s \in Sessions : BindBegin(c, s)
      PROVE  LineSound'
  <2>1. UNCHANGED <<jobVars, reqVars, pumpVars>>
    BY <1>7 DEF UnbindBegin, BindInsert, UnbindDone, BindBegin
  <2>2. CASE UnbindBegin(c) \/ \E s \in Sessions : BindBegin(c, s)
    <3>0. JobsOn(c) \subseteq Jobs /\ {bound[c]} \ {NONE} \subseteq Sessions
      BY DEF JobsOn, TypeOK
    <3>1. /\ bound' \in [Conns -> Sessions \cup {NONE}]
          /\ revoked' \subseteq Sessions
          /\ sweep' \in [Conns -> SUBSET Jobs]
      <4>1. DropBinding(c)
        BY <2>2 DEF UnbindBegin, BindBegin
      <4> QED BY <4>1, <3>0 DEF DropBinding, TypeOK
    <3>2. mgr' \in [Conns -> Sessions \cup {"idle", "unbind"}] /\ opened' \subseteq Sessions
      BY <2>2 DEF UnbindBegin, BindBegin, TypeOK
    <3>3. UNCHANGED <<dead, monitors, loose, closed>>
      BY <2>2 DEF UnbindBegin, BindBegin
    <3>4. TypeOK'
      BY <2>1, <3>1, <3>2, <3>3 DEF TypeOK, jobVars, reqVars, pumpVars
    <3> QED BY <2>1, <3>4, <1>6
  <2>3. CASE BindInsert(c) \/ UnbindDone(c)
    <3>1. TypeOK'
      BY <2>1, <2>3 DEF BindInsert, UnbindDone, TypeOK, jobVars, reqVars, pumpVars, bindVars
    <3> QED BY <2>1, <3>1, <1>6
  <2> QED BY <1>7, <2>2, <2>3
<1>8. ASSUME NEW s \in Sessions, SessionDies(s) \/ MonitorStops(s) \/ MonitorUnbinds(s)
      PROVE  LineSound'
  <2>1. UNCHANGED <<jobVars, reqVars, pumpVars>>
    BY <1>8 DEF SessionDies, MonitorStops, MonitorUnbinds
  <2>2. TypeOK'
    <3>1. CASE SessionDies(s) \/ MonitorStops(s)
      BY <2>1, <3>1 DEF SessionDies, MonitorStops, TypeOK, jobVars, reqVars, pumpVars, callVars
    <3>2. CASE MonitorUnbinds(s)
      BY <2>1, <3>2 DEF MonitorUnbinds, JobsOn, TypeOK, jobVars, reqVars, pumpVars
    <3> QED BY <1>8, <3>1, <3>2
  <2> QED BY <2>1, <2>2, <1>6
<1>9. ASSUME NEW w \in Windows, CloseWindow(w) PROVE LineSound'
  <2>1. UNCHANGED <<jobVars, reqVars, pumpVars>>
    BY <1>9 DEF CloseWindow
  <2>2. TypeOK'
    BY <1>9 DEF CloseWindow, TypeOK, jobVars, reqVars, pumpVars, bindVars
  <2> QED BY <2>1, <2>2, <1>6
<1>10. CASE ClearCompleted
  <2>1. \A j \in Jobs : status'[j] = IF status[j] \in Terminal THEN "cleared" ELSE status[j]
    BY <1>10 DEF ClearCompleted
  <2>2. TypeOK'
    BY <1>10 DEF ClearCompleted, TypeOK, reqVars, pumpVars, bindVars, callVars
  <2>3. Serialized' /\ NoLostWakeup'
    <3>1. Active' = Active
      BY <2>1 DEF Active, Terminal
    <3> QED BY <3>1, <1>10 DEF ClearCompleted, Serialized, NoLostWakeup, pumpVars
  <2>4. PendingIsQueue'
    <3>1. \A j \in Jobs : status'[j] = "queued" <=> status[j] = "queued"
      BY <2>1 DEF Terminal
    <3> QED BY <3>1, <1>10 DEF ClearCompleted, PendingIsQueue
  <2>5. ReceiptsMatch'
    BY <2>1, <1>10, QueueConstants DEF ClearCompleted, ReceiptsMatch, Live, Terminal
  <2>6. Bookkeeping'
    BY <2>1, <1>10 DEF ClearCompleted, Bookkeeping, Terminal, pumpVars, reqVars
  <2> QED BY <2>2, <2>3, <2>4, <2>5, <2>6
<1>11. CASE Pump
  <2>1. kicks' \in Nat /\ pumping' = TRUE /\ alive' \subseteq Tasks
    BY <1>11 DEF Pump, TypeOK
  <2>2. UNCHANGED <<jobVars, reqVars, serving, bindVars, callVars>>
    BY <1>11 DEF Pump
  <2>3. TypeOK'
    BY <2>1, <2>2 DEF TypeOK, jobVars, reqVars, bindVars, callVars
  <2>4. Serialized' /\ NoLostWakeup' /\ Bookkeeping'
    <3>1. CASE pumping
      BY <1>11, <3>1, <2>2 DEF Pump, Serialized, NoLostWakeup, Bookkeeping, Active, jobVars, reqVars
    <3>2. CASE ~pumping
      <4>1. PICK t \in Tasks : alive' = {t} /\ alive = {} /\ serving[t] = NONE
        BY <1>11, <3>2 DEF Pump, Serialized, Bookkeeping
      <4> QED BY <4>1, <2>1, <2>2 DEF Serialized, NoLostWakeup, Bookkeeping, Active, jobVars, reqVars
    <3> QED BY <3>1, <3>2
  <2>5. PendingIsQueue' /\ ReceiptsMatch'
    BY <2>2 DEF PendingIsQueue, ReceiptsMatch, jobVars
  <2> QED BY <2>3, <2>4, <2>5
<1>12. ASSUME NEW t \in Tasks, PumpStop(t) PROVE LineSound'
  <2>1. t \in alive /\ serving[t] = NONE /\ pending = <<>> /\ pumping' = FALSE
        /\ alive' = alive \ {t} /\ UNCHANGED <<jobVars, reqVars, serving, kicks, bindVars, callVars>>
    BY <1>12 DEF PumpStop, Idle
  <2>2. TypeOK'
    BY <2>1 DEF TypeOK, jobVars, reqVars, bindVars, callVars
  <2>3. alive' = {} /\ Active = {}
    BY <2>1 DEF Serialized
  <2>4. Serialized' /\ NoLostWakeup' /\ Bookkeeping'
    BY <2>1, <2>3 DEF Serialized, NoLostWakeup, Bookkeeping, Active, jobVars, reqVars
  <2>5. PendingIsQueue' /\ ReceiptsMatch'
    BY <2>1 DEF PendingIsQueue, ReceiptsMatch, jobVars
  <2> QED BY <2>2, <2>4, <2>5
<1>13. ASSUME NEW t \in Tasks, PumpStart(t) \/ TransferReturns(t) PROVE LineSound'
  BY <1>13, LinePumpStart, LineFinish DEF TransferReturns
<1>14. CASE UNCHANGED vars
  BY <1>14, <1>6 DEF vars, TypeOK, jobVars, reqVars, pumpVars, bindVars, callVars
<1> QED BY <1>1, <1>2, <1>3, <1>4, <1>5, <1>7, <1>8, <1>9, <1>10, <1>11, <1>12, <1>13, <1>14 DEF Next

\* Transfers are serialized, the deque is the queued items in order, receipts
\* match the items, and no wakeup is lost, for any number of jobs, connections,
\* sessions, windows and batches of any size.
THEOREM LineCorrect == Spec => []LineSound
<1> QED BY LineInit, LineStep, PTL DEF Spec

(***************************************************************************)
(* Generations and cancellation                                            *)
(***************************************************************************)

GenInv == LineSound /\ SessionsOwned /\ NoOrphans /\ ClosedWindowsDrained

\* A job whose token was cancelled has no outcome but "cancelled".
CancelInv == \A j \in cancelled : receipt[j] \in {NONE, "cancelled"}

LEMMA GenInit == Init => GenInv /\ CancelInv
<1> SUFFICES ASSUME Init PROVE GenInv /\ CancelInv
  OBVIOUS
<1>1. LineSound
  BY LineInit
<1>2. SessionsOwned
  BY QueueConstants DEF Init, SessionsOwned
<1>3. NoOrphans /\ ClosedWindowsDrained /\ CancelInv
  BY DEF Init, NoOrphans, ClosedWindowsDrained, CancelInv
<1> QED BY <1>1, <1>2, <1>3 DEF GenInv

\* The generation invariants survive a step that leaves bindings and windows
\* alone, lets no job be taken over, and takes a job from the list of a cancel
\* loop only if it is gone or cancelling afterwards.
LEMMA JobsOnlyLeave ==
  ASSUME SessionsOwned, NoOrphans, ClosedWindowsDrained,
         UNCHANGED <<reqVars, bound, revoked, opened, mgr, closed>>,
         jobs' \subseteq jobs,
         \A i \in jobs' : status'[i] # "cancelling" =>
           /\ status[i] # "cancelling"
           /\ i \in sweep[conn[i]] => i \in sweep'[conn[i]]
           /\ i \in loose => i \in loose'
  PROVE  SessionsOwned' /\ NoOrphans' /\ ClosedWindowsDrained'
<1>1. SessionsOwned'
  BY DEF SessionsOwned, reqVars
<1>2. NoOrphans'
  <2> SUFFICES ASSUME NEW i \in jobs', status'[i] # "cancelling",
                      bound[conn[i]] # sessionOf[i]
               PROVE  i \in sweep'[conn[i]] \cup loose'
    BY DEF NoOrphans, reqVars
  <2> QED BY DEF NoOrphans
<1>3. ClosedWindowsDrained'
  BY DEF ClosedWindowsDrained, reqVars
<1> QED BY <1>1, <1>2, <1>3

\* What cancel(j) does to a job: it is gone or cancelling afterwards.
LEMMA CancelSettles ==
  ASSUME TypeOK, ReceiptsMatch, NEW j \in Jobs, CancelEffect(j)
  PROVE  /\ jobs' \subseteq jobs
         /\ \A i \in jobs' : status'[i] # "cancelling" => i # j /\ status[i] # "cancelling"
<1>1. CASE status[j] = "queued" /\ j \in jobs
  BY <1>1 DEF CancelEffect, TypeOK
<1>2. CASE status[j] = "transferring" /\ j \in jobs
  BY <1>2 DEF CancelEffect, TypeOK
<1>3. CASE /\ status[j] \notin {"queued", "transferring"} \/ j \notin jobs
           /\ UNCHANGED jobVars
  BY <1>3 DEF jobVars, ReceiptsMatch, Live
<1> QED BY <1>1, <1>2, <1>3 DEF CancelEffect

\* An accepted job gets the session that is bound, and its window is open.
LEMMA GenSubmit ==
  ASSUME GenInv, NEW n \in 1..MaxBatch, NEW b \in [1..n -> Input], Submit(b)
  PROVE  SessionsOwned' /\ NoOrphans' /\ ClosedWindowsDrained'
<1> USE DEF GenInv, LineSound
<1> DEFINE new == {b[k].id : k \in DOMAIN b}
           in(j) == b[IndexIn(b, j)]
<1>1. /\ Admissible(b)
      /\ status' = [j \in Jobs |-> IF j \in new THEN "queued" ELSE status[j]]
      /\ jobs' = jobs \cup new
      /\ conn' = [j \in Jobs |-> IF j \in new THEN in(j).conn ELSE conn[j]]
      /\ owner' = [j \in Jobs |-> IF j \in new THEN in(j).owner ELSE owner[j]]
      /\ sessionOf' = [j \in Jobs |-> IF j \in new THEN bound[in(j).conn] ELSE sessionOf[j]]
      /\ UNCHANGED <<bindVars, callVars>>
  BY DEF Submit
<1>2. \A j \in new : IndexIn(b, j) \in DOMAIN b
  BY DEF IndexIn
<1>3. \A j \in new : /\ j \in Jobs
                     /\ in(j).conn \in Conns /\ in(j).owner \notin closed
                     /\ bound[in(j).conn] \in Sessions \ revoked
  BY <1>1, <1>2 DEF Admissible, Usable, Input
<1>4. new \cap jobs = {}
  BY <1>1 DEF Admissible, ReceiptsMatch, Live
<1> HIDE DEF new, in
<1>5. \A j \in new : /\ conn'[j] \in Conns /\ owner'[j] \notin closed
                     /\ sessionOf'[j] = bound[conn'[j]]
                     /\ sessionOf'[j] \in Sessions \ revoked
  BY <1>1, <1>3
<1>6. \A j \in jobs : /\ j \in Jobs /\ conn'[j] = conn[j] /\ owner'[j] = owner[j]
                      /\ sessionOf'[j] = sessionOf[j] /\ status'[j] = status[j]
  BY <1>1, <1>4 DEF TypeOK
<1>7. SessionsOwned'
  BY <1>1, <1>5, <1>6 DEF SessionsOwned, bindVars, callVars
<1>8. NoOrphans' /\ ClosedWindowsDrained'
  BY <1>1, <1>5, <1>6 DEF NoOrphans, ClosedWindowsDrained, bindVars, callVars
<1> QED BY <1>7, <1>8

\* The locked part of unbind: the sessions that stay bound keep their owner, and
\* every job of the connection is on the list of the cancel loop.
LEMMA GenDrop ==
  ASSUME GenInv, NEW c \in Conns, mgr[c] = "idle", DropBinding(c),
         NEW m \in {"unbind"} \cup (Sessions \ opened),
         mgr' = [mgr EXCEPT ![c] = m], opened' = opened \cup ({m} \cap Sessions),
         UNCHANGED <<jobVars, reqVars, loose, closed>>
  PROVE  SessionsOwned' /\ NoOrphans' /\ ClosedWindowsDrained'
<1> USE DEF GenInv, LineSound
<1>1. /\ \A d \in Conns : bound'[d] = IF d = c THEN NONE ELSE bound[d]
      /\ \A d \in Conns : mgr'[d] = IF d = c THEN m ELSE mgr[d]
      /\ \A d \in Conns : sweep'[d] = IF d = c THEN JobsOn(c) ELSE sweep[d]
      /\ revoked' = revoked \cup ({bound[c]} \ {NONE})
  BY DEF DropBinding, TypeOK
<1>2. /\ bound[c] # NONE => bound[c] \in opened \ revoked
      /\ \A d \in Conns : bound[d] \in Sessions \cup {NONE}
  BY DEF SessionsOwned, TypeOK
<1>3. /\ m \in Sessions => m \notin opened
      /\ "unbind" \notin Sessions /\ "idle" \notin Sessions
  BY QueueConstants
<1>4. SessionsOwned'
  <2>1. revoked' \subseteq opened'
    BY <1>1, <1>2 DEF SessionsOwned
  <2>2. ASSUME NEW d \in Conns
        PROVE  /\ bound'[d] # NONE => bound'[d] \in opened' \ revoked' /\ mgr'[d] = "idle"
               /\ mgr'[d] \in Sessions => mgr'[d] \in opened' \ revoked'
    <3>1. CASE d = c
      BY <1>1, <1>2, <1>3, <3>1 DEF SessionsOwned
    <3>2. CASE d # c
      BY <1>1, <1>2, <3>2 DEF SessionsOwned
    <3> QED BY <3>1, <3>2
  <2>3. ASSUME NEW d \in Conns, NEW e \in Conns, d # e
        PROVE  /\ bound'[d] # NONE => bound'[d] # bound'[e] /\ bound'[d] # mgr'[e]
               /\ mgr'[d] \in Sessions => mgr'[d] # mgr'[e]
    <3>1. bound[d] \in Sessions \cup {NONE} /\ bound[e] \in Sessions \cup {NONE}
      BY DEF TypeOK
    <3>2. CASE d = c
      BY <1>1, <1>3, <2>3, <3>2 DEF SessionsOwned
    <3>3. CASE e = c
      BY <1>1, <1>3, <2>3, <3>1, <3>3 DEF SessionsOwned
    <3>4. CASE d # c /\ e # c
      BY <1>1, <2>3, <3>4 DEF SessionsOwned
    <3> QED BY <3>2, <3>3, <3>4
  <2>4. ASSUME NEW j \in jobs
        PROVE  /\ conn[j] \in Conns /\ sessionOf[j] \in Sessions
               /\ sessionOf[j] \notin revoked' => bound'[conn[j]] = sessionOf[j]
    BY <1>1, QueueConstants DEF SessionsOwned
  <2>5. jobs' = jobs /\ conn' = conn /\ sessionOf' = sessionOf
    BY DEF jobVars, reqVars
  <2> QED BY <2>1, <2>2, <2>3, <2>4, <2>5 DEF SessionsOwned
<1>5. NoOrphans'
  <2> SUFFICES ASSUME NEW j \in jobs, status[j] # "cancelling", bound'[conn[j]] # sessionOf[j]
               PROVE  j \in sweep'[conn[j]] \cup loose
    BY DEF NoOrphans, jobVars, reqVars
  <2>1. conn[j] \in Conns
    BY DEF SessionsOwned
  <2> QED BY <1>1, <2>1 DEF NoOrphans, JobsOn
<1>6. ClosedWindowsDrained'
  BY DEF ClosedWindowsDrained, jobVars, reqVars
<1> QED BY <1>4, <1>5, <1>6

\* bind inserts its session only when the loop of its unbind is through, so the
\* jobs of the old generation that are left are cancelling or on another list.
LEMMA GenBind ==
  ASSUME GenInv, NEW c \in Conns, BindInsert(c)
  PROVE  SessionsOwned' /\ NoOrphans' /\ ClosedWindowsDrained'
<1> USE DEF GenInv, LineSound
<1>1. /\ \A d \in Conns : bound'[d] = IF d = c THEN mgr[c] ELSE bound[d]
      /\ \A d \in Conns : mgr'[d] = IF d = c THEN "idle" ELSE mgr[d]
      /\ mgr[c] \in Sessions /\ sweep[c] = {}
      /\ UNCHANGED <<jobVars, reqVars, revoked, opened, sweep, loose, closed>>
  BY DEF BindInsert, TypeOK
<1>2. mgr[c] # "idle" /\ "idle" \notin Sessions /\ NONE \notin Sessions
  BY <1>1, QueueConstants
<1>3. bound[c] = NONE
  BY <1>1, <1>2 DEF SessionsOwned
<1>4. \A j \in jobs : conn[j] = c => sessionOf[j] \in revoked
  BY <1>2, <1>3 DEF SessionsOwned
<1>5. SessionsOwned'
  <2>1. revoked \subseteq opened
    BY DEF SessionsOwned
  <2>2. ASSUME NEW d \in Conns
        PROVE  /\ bound'[d] # NONE => bound'[d] \in opened \ revoked /\ mgr'[d] = "idle"
               /\ mgr'[d] \in Sessions => mgr'[d] \in opened \ revoked
    BY <1>1, <1>2 DEF SessionsOwned
  <2>3. ASSUME NEW d \in Conns, NEW e \in Conns, d # e
        PROVE  /\ bound'[d] # NONE => bound'[d] # bound'[e] /\ bound'[d] # mgr'[e]
               /\ mgr'[d] \in Sessions => mgr'[d] # mgr'[e]
    <3>0. /\ bound[d] \in Sessions \cup {NONE} /\ bound[e] \in Sessions \cup {NONE}
      BY DEF TypeOK
    <3>1. CASE d = c
      BY <1>1, <1>2, <2>3, <3>0, <3>1 DEF SessionsOwned
    <3>2. CASE e = c
      BY <1>1, <1>2, <2>3, <3>0, <3>2 DEF SessionsOwned
    <3>3. CASE d # c /\ e # c
      BY <1>1, <2>3, <3>3 DEF SessionsOwned
    <3> QED BY <3>1, <3>2, <3>3
  <2>4. ASSUME NEW j \in jobs
        PROVE  /\ conn[j] \in Conns /\ sessionOf[j] \in Sessions
               /\ sessionOf[j] \notin revoked => bound'[conn[j]] = sessionOf[j]
    BY <1>1, <1>4 DEF SessionsOwned
  <2>5. jobs' = jobs /\ conn' = conn /\ sessionOf' = sessionOf
    BY <1>1 DEF jobVars, reqVars
  <2> QED BY <1>1, <2>1, <2>2, <2>3, <2>4, <2>5 DEF SessionsOwned
<1>6. NoOrphans'
  <2> SUFFICES ASSUME NEW j \in jobs, status[j] # "cancelling", bound'[conn[j]] # sessionOf[j]
               PROVE  j \in sweep[conn[j]] \cup loose
    BY <1>1 DEF NoOrphans, jobVars, reqVars
  <2>1. conn[j] \in Conns /\ sessionOf[j] \in Sessions
    BY DEF SessionsOwned
  <2>2. CASE conn[j] = c
    BY <1>2, <1>3, <2>1, <2>2 DEF NoOrphans
  <2>3. CASE conn[j] # c
    BY <1>1, <2>1, <2>3 DEF NoOrphans
  <2> QED BY <2>2, <2>3
<1>7. ClosedWindowsDrained'
  BY <1>1 DEF ClosedWindowsDrained, jobVars, reqVars
<1> QED BY <1>5, <1>6, <1>7

\* A monitor drops the binding of a dead transport and lists its jobs.
LEMMA GenMonitor ==
  ASSUME GenInv, NEW s \in Sessions, MonitorUnbinds(s)
  PROVE  SessionsOwned' /\ NoOrphans' /\ ClosedWindowsDrained'
<1> USE DEF GenInv, LineSound
<1>1. PICK c \in Conns : /\ bound[c] = s
                         /\ bound' = [bound EXCEPT ![c] = NONE]
                         /\ loose' = loose \cup JobsOn(c)
  BY DEF MonitorUnbinds
<1>2. /\ \A d \in Conns : bound'[d] = IF d = c THEN NONE ELSE bound[d]
      /\ revoked' = revoked \cup {s}
      /\ UNCHANGED <<jobVars, reqVars, opened, mgr, sweep, closed>>
  BY <1>1 DEF MonitorUnbinds, TypeOK
<1>3. s # NONE /\ s \in opened \ revoked
  BY <1>1, QueueConstants DEF SessionsOwned
<1>4. SessionsOwned'
  <2>1. ASSUME NEW d \in Conns
        PROVE  /\ bound'[d] # NONE => bound'[d] \in opened \ revoked' /\ mgr[d] = "idle"
               /\ mgr[d] \in Sessions => mgr[d] \in opened \ revoked'
    <3>1. mgr[c] \notin Sessions
      BY <1>1, <1>3, QueueConstants DEF SessionsOwned
    <3> QED BY <1>1, <1>2, <1>3, <3>1 DEF SessionsOwned
  <2>2. ASSUME NEW d \in Conns, NEW e \in Conns, d # e
        PROVE  /\ bound'[d] # NONE => bound'[d] # bound'[e] /\ bound'[d] # mgr[e]
               /\ mgr[d] \in Sessions => mgr[d] # mgr[e]
    BY <1>2, <2>2 DEF SessionsOwned
  <2>3. ASSUME NEW j \in jobs
        PROVE  /\ conn[j] \in Conns /\ sessionOf[j] \in Sessions
               /\ sessionOf[j] \notin revoked' => bound'[conn[j]] = sessionOf[j]
    BY <1>1, <1>2 DEF SessionsOwned
  <2>4. jobs' = jobs /\ conn' = conn /\ sessionOf' = sessionOf
    BY <1>2 DEF jobVars, reqVars
  <2> QED BY <1>2, <1>3, <2>1, <2>2, <2>3, <2>4 DEF SessionsOwned
<1>5. NoOrphans'
  <2> SUFFICES ASSUME NEW j \in jobs, status[j] # "cancelling", bound'[conn[j]] # sessionOf[j]
               PROVE  j \in sweep[conn[j]] \cup loose'
    BY <1>2 DEF NoOrphans, jobVars, reqVars
  <2>1. conn[j] \in Conns
    BY DEF SessionsOwned
  <2> QED BY <1>1, <1>2, <2>1 DEF NoOrphans, JobsOn
<1>6. ClosedWindowsDrained'
  BY <1>1, <1>2 DEF ClosedWindowsDrained, jobVars, reqVars
<1> QED BY <1>4, <1>5, <1>6

LEMMA GenStep == GenInv /\ [Next]_vars => GenInv'
<1> SUFFICES ASSUME GenInv, [Next]_vars
             PROVE  SessionsOwned' /\ NoOrphans' /\ ClosedWindowsDrained'
  BY LineStep DEF GenInv
<1> USE DEF GenInv, LineSound
<1> DEFINE Goal == SessionsOwned' /\ NoOrphans' /\ ClosedWindowsDrained'
<1>1. CASE Enqueue
  BY <1>1, GenSubmit DEF Enqueue
<1>2. ASSUME NEW j \in Jobs, Retry(j) PROVE Goal
  <2>1. PICK fresh \in Jobs : Submit(<<[id |-> fresh, conn |-> conn[j], owner |-> NONE]>>)
    BY <1>2 DEF Retry
  <2> DEFINE b == <<[id |-> fresh, conn |-> conn[j], owner |-> NONE]>>
  <2>2. conn[j] \in Conns
    <3>1. receipt[j] # NONE
      BY <1>2, QueueConstants DEF Retry, Terminal
    <3>2. status[j] # "new"
      BY <3>1 DEF ReceiptsMatch
    <3> QED BY <3>2 DEF Bookkeeping
  <2>3. b \in [1..1 -> Input] /\ 1 \in 1..MaxBatch
    BY <2>2, QueueConstants DEF Input
  <2> HIDE DEF b
  <2> QED BY <2>1, <2>3, GenSubmit DEF b
<1>3. ASSUME NEW j \in Jobs, Cancel(j) PROVE Goal
  BY <1>3, CancelSettles, JobsOnlyLeave DEF Cancel, bindVars, callVars
<1>4. ASSUME NEW j \in Jobs, LooseSweep(j) PROVE Goal
  BY <1>4, CancelSettles, JobsOnlyLeave DEF LooseSweep, bindVars
<1>5. ASSUME NEW c \in Conns, NEW j \in Jobs, ManagerSweep(c, j) PROVE Goal
  <2>1. /\ jobs' \subseteq jobs
        /\ \A i \in jobs' : status'[i] # "cancelling" => i # j /\ status[i] # "cancelling"
    BY <1>5, CancelSettles DEF ManagerSweep
  <2>2. \A d \in Conns : \A i \in sweep[d] : i # j => i \in sweep'[d]
    BY <1>5 DEF ManagerSweep, TypeOK
  <2>3. \A i \in jobs : conn[i] \in Conns
    BY DEF SessionsOwned
  <2> QED BY <1>5, <2>1, <2>2, <2>3, JobsOnlyLeave DEF ManagerSweep, bindVars
<1>6. ASSUME NEW c \in Conns, UnbindBegin(c) PROVE Goal
  BY <1>6, GenDrop, QueueConstants DEF UnbindBegin
<1>7. ASSUME NEW c \in Conns, NEW s \in Sessions, BindBegin(c, s) PROVE Goal
  BY <1>7, GenDrop DEF BindBegin
<1>8. ASSUME NEW c \in Conns, BindInsert(c) PROVE Goal
  BY <1>8, GenBind
<1>9. ASSUME NEW c \in Conns, UnbindDone(c) PROVE Goal
  <2>1. \A d \in Conns : mgr'[d] = IF d = c THEN "idle" ELSE mgr[d]
    BY <1>9 DEF UnbindDone, TypeOK
  <2>2. "idle" \notin Sessions
    BY QueueConstants
  <2>3. UNCHANGED <<jobVars, reqVars, bindVars, sweep, loose, closed>>
    BY <1>9 DEF UnbindDone
  <2>4. SessionsOwned'
    <3>1. ASSUME NEW d \in Conns, NEW e \in Conns, d # e
          PROVE  /\ bound[d] # NONE => bound[d] # bound[e] /\ bound[d] # mgr'[e]
                 /\ mgr'[d] \in Sessions => mgr'[d] # mgr'[e]
      <4>1. bound[d] \in Sessions \cup {NONE}
        BY DEF TypeOK
      <4> QED BY <2>1, <2>2, <3>1, <4>1 DEF SessionsOwned
    <3> QED BY <2>1, <2>2, <2>3, <3>1 DEF SessionsOwned, jobVars, reqVars, bindVars
  <2>5. NoOrphans' /\ ClosedWindowsDrained'
    BY <2>3 DEF NoOrphans, ClosedWindowsDrained, jobVars, reqVars, bindVars
  <2> QED BY <2>4, <2>5
<1>10. ASSUME NEW s \in Sessions, SessionDies(s) \/ MonitorStops(s) PROVE Goal
  BY <1>10, JobsOnlyLeave DEF SessionDies, MonitorStops, jobVars, callVars
<1>11. ASSUME NEW s \in Sessions, MonitorUnbinds(s) PROVE Goal
  BY <1>11, GenMonitor
<1>12. ASSUME NEW w \in Windows, CloseWindow(w) PROVE Goal
  <2>1. /\ closed' = closed \cup {w}
        /\ loose' = loose \cup {j \in jobs : owner[j] = w}
        /\ UNCHANGED <<jobVars, reqVars, bindVars, mgr, sweep>>
    BY <1>12 DEF CloseWindow
  <2>2. SessionsOwned' /\ NoOrphans'
    BY <2>1 DEF SessionsOwned, NoOrphans, jobVars, reqVars, bindVars
  <2>3. ClosedWindowsDrained'
    BY <2>1 DEF ClosedWindowsDrained, jobVars, reqVars
  <2> QED BY <2>2, <2>3
<1>13. CASE ClearCompleted
  <2>1. \A i \in jobs : i \in Jobs /\ (status[i] = "cancelling" => status'[i] = "cancelling")
    BY <1>13 DEF ClearCompleted, TypeOK, Terminal
  <2> QED BY <1>13, <2>1, JobsOnlyLeave DEF ClearCompleted, bindVars, callVars
<1>14. CASE Pump
  BY <1>14, JobsOnlyLeave DEF Pump, jobVars, bindVars, callVars
<1>15. ASSUME NEW t \in Tasks, PumpStart(t) PROVE Goal
  <2>1. /\ status' = [status EXCEPT ![Head(pending)] = "transferring"]
        /\ Head(pending) \in Jobs /\ status[Head(pending)] = "queued"
        /\ UNCHANGED <<jobs, reqVars, bindVars, callVars>>
    <3>1. pending # <<>>
      BY <1>15 DEF PumpStart
    <3>2. 1 \in DOMAIN pending /\ Head(pending) = pending[1]
      BY <3>1 DEF TypeOK
    <3>3. Head(pending) \in Elems(pending)
      BY <3>2 DEF Elems
    <3> QED BY <1>15, <3>3 DEF PumpStart, PendingIsQueue
  <2>2. \A i \in jobs : status'[i] # "cancelling" => status[i] # "cancelling"
    BY <2>1 DEF TypeOK
  <2> QED BY <2>1, <2>2, JobsOnlyLeave DEF bindVars, callVars
<1>16. ASSUME NEW t \in Tasks, PumpStop(t) PROVE Goal
  BY <1>16, JobsOnlyLeave DEF PumpStop, jobVars, bindVars, callVars
<1>17. ASSUME NEW t \in Tasks, TransferReturns(t) PROVE Goal
  <2>1. PICK result \in {"ok", "err"} : Finish(t, result)
    BY <1>17 DEF TransferReturns
  <2>2. \A i \in jobs' : i \in jobs /\ status'[i] = status[i]
    BY <2>1 DEF Finish, TypeOK
  <2> QED BY <2>1, <2>2, JobsOnlyLeave DEF Finish, bindVars, callVars
<1>18. CASE UNCHANGED vars
  BY <1>18, JobsOnlyLeave DEF vars, jobVars, bindVars, callVars
<1> QED BY <1>1, <1>2, <1>3, <1>4, <1>5, <1>6, <1>7, <1>8, <1>9, <1>10, <1>11, <1>12, <1>13,
           <1>14, <1>15, <1>16, <1>17, <1>18 DEF Next

\* Only finish reports completion, and only for a job whose token is intact.
LEMMA OutcomeStep ==
  ASSUME GenInv, [Next]_vars, NEW j \in Jobs, receipt'[j] # receipt[j]
  PROVE  \/ receipt'[j] = "cancelled" /\ cancelled' = cancelled \cup {j}
         \/ /\ j \in jobs /\ cancelled' = cancelled
            /\ receipt'[j] # "cancelled" => ~TokenCancelled(j)
<1> USE DEF GenInv, LineSound
<1>1. ASSUME NEW i \in Jobs, CancelEffect(i)
      PROVE  receipt'[j] = "cancelled" /\ cancelled' = cancelled \cup {j}
  BY <1>1 DEF CancelEffect, TypeOK, jobVars
<1>2. ASSUME NEW t \in Tasks, TransferReturns(t)
      PROVE  /\ j \in jobs /\ cancelled' = cancelled
             /\ receipt'[j] # "cancelled" => ~TokenCancelled(j)
  BY <1>2 DEF TransferReturns, Finish, OutcomeOf, TypeOK
<1>3. CASE Enqueue
  BY <1>3 DEF Enqueue, Submit
<1>4. ASSUME NEW i \in Jobs, Retry(i) PROVE FALSE
  BY <1>4 DEF Retry, Submit
<1>5. ASSUME NEW i \in Jobs, Cancel(i) \/ LooseSweep(i)
      PROVE  receipt'[j] = "cancelled" /\ cancelled' = cancelled \cup {j}
  BY <1>1, <1>5 DEF Cancel, LooseSweep
<1>6. ASSUME NEW c \in Conns, UnbindBegin(c) \/ BindInsert(c) \/ UnbindDone(c) PROVE FALSE
  BY <1>6 DEF UnbindBegin, BindInsert, UnbindDone, jobVars
<1>7. ASSUME NEW c \in Conns, NEW s \in Sessions, BindBegin(c, s) PROVE FALSE
  BY <1>7 DEF BindBegin, jobVars
<1>8. ASSUME NEW c \in Conns, NEW i \in Jobs, ManagerSweep(c, i)
      PROVE  receipt'[j] = "cancelled" /\ cancelled' = cancelled \cup {j}
  BY <1>1, <1>8 DEF ManagerSweep
<1>9. ASSUME NEW s \in Sessions, SessionDies(s) \/ MonitorStops(s) \/ MonitorUnbinds(s) PROVE FALSE
  BY <1>9 DEF SessionDies, MonitorStops, MonitorUnbinds, jobVars
<1>10. ASSUME NEW w \in Windows, CloseWindow(w) PROVE FALSE
  BY <1>10 DEF CloseWindow, jobVars
<1>11. CASE ClearCompleted \/ Pump \/ UNCHANGED vars
  BY <1>11 DEF ClearCompleted, Pump, vars, jobVars
<1>12. ASSUME NEW t \in Tasks, PumpStart(t) \/ PumpStop(t) PROVE FALSE
  BY <1>12 DEF PumpStart, PumpStop, jobVars
<1> QED BY <1>2, <1>3, <1>4, <1>5, <1>6, <1>7, <1>8, <1>9, <1>10, <1>11, <1>12 DEF Next

LEMMA CancelledGrows ==
  ASSUME TypeOK, ReceiptsMatch, [Next]_vars, NEW j \in cancelled' \ cancelled
  PROVE  j \in Jobs /\ (receipt[j] = NONE \/ receipt'[j] = "cancelled")
<1>1. ASSUME NEW i \in Jobs, CancelEffect(i)
      PROVE  j \in Jobs /\ (receipt[j] = NONE \/ receipt'[j] = "cancelled")
  BY <1>1 DEF CancelEffect, TypeOK, ReceiptsMatch, Live, jobVars
<1>2. ASSUME NEW t \in Tasks, TransferReturns(t) \/ PumpStart(t) \/ PumpStop(t) PROVE FALSE
  BY <1>2 DEF TransferReturns, Finish, PumpStart, PumpStop, jobVars
<1>3. CASE Enqueue
  BY <1>3 DEF Enqueue, Submit
<1>4. ASSUME NEW i \in Jobs, Retry(i) PROVE FALSE
  BY <1>4 DEF Retry, Submit
<1>5. ASSUME NEW i \in Jobs, Cancel(i) \/ LooseSweep(i)
      PROVE  j \in Jobs /\ (receipt[j] = NONE \/ receipt'[j] = "cancelled")
  BY <1>1, <1>5 DEF Cancel, LooseSweep
<1>6. ASSUME NEW c \in Conns, UnbindBegin(c) \/ BindInsert(c) \/ UnbindDone(c) PROVE FALSE
  BY <1>6 DEF UnbindBegin, BindInsert, UnbindDone, jobVars
<1>7. ASSUME NEW c \in Conns, NEW s \in Sessions, BindBegin(c, s) PROVE FALSE
  BY <1>7 DEF BindBegin, jobVars
<1>8. ASSUME NEW c \in Conns, NEW i \in Jobs, ManagerSweep(c, i)
      PROVE  j \in Jobs /\ (receipt[j] = NONE \/ receipt'[j] = "cancelled")
  BY <1>1, <1>8 DEF ManagerSweep
<1>9. ASSUME NEW s \in Sessions, SessionDies(s) \/ MonitorStops(s) \/ MonitorUnbinds(s) PROVE FALSE
  BY <1>9 DEF SessionDies, MonitorStops, MonitorUnbinds, jobVars
<1>10. ASSUME NEW w \in Windows, CloseWindow(w) PROVE FALSE
  BY <1>10 DEF CloseWindow, jobVars
<1>11. CASE ClearCompleted \/ Pump \/ UNCHANGED vars
  BY <1>11 DEF ClearCompleted, Pump, vars, jobVars
<1> QED BY <1>2, <1>3, <1>4, <1>5, <1>6, <1>7, <1>8, <1>9, <1>10, <1>11 DEF Next

LEMMA CancelStep == GenInv /\ CancelInv /\ [Next]_vars => CancelInv'
<1> SUFFICES ASSUME GenInv, CancelInv, [Next]_vars, NEW j \in cancelled'
             PROVE  receipt'[j] \in {NONE, "cancelled"}
  BY DEF CancelInv
<1> USE DEF GenInv, LineSound
<1>1. CASE j \in cancelled
  <2>1. j \in Jobs /\ receipt[j] \in {NONE, "cancelled"}
    BY <1>1 DEF TypeOK, CancelInv
  <2>2. CASE receipt'[j] # receipt[j]
    BY <1>1, <2>1, <2>2, OutcomeStep DEF TokenCancelled
  <2> QED BY <2>1, <2>2
<1>2. CASE j \notin cancelled
  <2>1. j \in Jobs /\ (receipt[j] = NONE \/ receipt'[j] = "cancelled")
    BY <1>2, CancelledGrows
  <2>2. CASE receipt'[j] # receipt[j]
    BY <1>2, <2>1, <2>2, OutcomeStep
  <2> QED BY <2>1, <2>2
<1> QED BY <1>1, <1>2

LEMMA Invariance == Spec => [](GenInv /\ CancelInv)
<1> QED BY GenInit, GenStep, CancelStep, PTL DEF Spec

\* However connections are replaced, closed or lost and windows destroyed, no
\* job of an old generation or a closed window is left behind, and no binding in
\* the map is revoked.
THEOREM GenerationsCorrect == Spec => []GenerationsSound
<1>1. GenInv => GenerationsSound
  <2> SUFFICES ASSUME GenInv, NEW c \in Conns PROVE bound[c] \notin revoked
    BY DEF GenInv, GenerationsSound, BoundNotRevoked
  <2>1. NONE \notin revoked
    BY QueueConstants DEF GenInv, LineSound, TypeOK
  <2> QED BY <2>1 DEF GenInv, SessionsOwned
<1> QED BY <1>1, Invariance, PTL

\* A late success of a generation that is gone is never reported as completed.
THEOREM CompletionIsCurrent == Spec => CompletedOnlyOnLiveBinding
<1>1. GenInv /\ [Next]_vars =>
        [\A j \in Jobs : receipt[j] = NONE /\ receipt'[j] = "completed"
                           => bound[conn[j]] = sessionOf[j]]_vars
  <2> SUFFICES ASSUME GenInv, [Next]_vars, NEW j \in Jobs, receipt[j] = NONE,
                      receipt'[j] = "completed"
               PROVE  bound[conn[j]] = sessionOf[j]
    OBVIOUS
  <2>1. receipt'[j] # receipt[j]
    BY QueueConstants DEF Terminal
  <2>2. j \in jobs /\ ~TokenCancelled(j)
    BY <2>1, OutcomeStep
  <2> QED BY <2>2 DEF TokenCancelled, GenInv, SessionsOwned
<1> QED BY <1>1, Invariance, PTL DEF Spec, CompletedOnlyOnLiveBinding

\* An accepted cancellation is final, whatever the transfer does meanwhile.
THEOREM CancellationIsFinal == Spec => CancelSticks
<1>1. GenInv /\ CancelInv /\ [Next]_vars =>
        [\A j \in cancelled : receipt'[j] \in {NONE, "cancelled"}]_vars
  <2> SUFFICES ASSUME GenInv, CancelInv, [Next]_vars, NEW j \in cancelled
               PROVE  receipt'[j] \in {NONE, "cancelled"}
    OBVIOUS
  <2>1. j \in Jobs /\ receipt[j] \in {NONE, "cancelled"}
    BY DEF GenInv, LineSound, TypeOK, CancelInv
  <2>2. CASE receipt'[j] # receipt[j]
    BY <2>1, <2>2, OutcomeStep DEF TokenCancelled
  <2> QED BY <2>1, <2>2
<1> QED BY <1>1, Invariance, PTL DEF Spec, CancelSticks

(***************************************************************************)
(* The contract, and jobs start in FIFO order                              *)
(***************************************************************************)

Served   == {serving[t] : t \in alive} \ {NONE}
Stopping == {j \in Jobs : status[j] = "cancelling"}

\* A job that is shown as cancelling had its token cancelled.
StopInv == Stopping \subseteq cancelled

\* Removing an element is cutting the sequence before and after it.
LEMMA WithoutCut ==
  ASSUME NEW S, NEW s \in Seq(S), NEW j, j \in Elems(s),
         \A k, l \in DOMAIN s : s[k] = s[l] => k = l
  PROVE  \E k \in DOMAIN s : /\ s[k] = j
                             /\ Without(s, j) = SubSeq(s, 1, k - 1) \o SubSeq(s, k + 1, Len(s))
<1> DEFINE k == CHOOSE k \in DOMAIN s : s[k] = j
           w == [i \in 1..(Len(s) - 1) |-> IF i < k THEN s[i] ELSE s[i + 1]]
           a == SubSeq(s, 1, k - 1)
           b == SubSeq(s, k + 1, Len(s))
<1>1. k \in DOMAIN s /\ s[k] = j
  BY DEF Elems
<1>2. Without(s, j) = w
  BY DEF Without
<1> HIDE DEF k
<1>3. DOMAIN s = 1..Len(s) /\ Len(s) \in Nat /\ k \in 1..Len(s)
  BY <1>1
<1>4. /\ a \in Seq(S) /\ Len(a) = k - 1
      /\ \A i \in 1..(k - 1) : a[i] = s[i]
  <2>1. 1 \in Int /\ k - 1 \in Int /\ \A i \in 1..(k - 1) : s[i] \in S
    BY <1>3
  <2> QED BY <1>3, <2>1, SubSeqProperties
<1>5. /\ b \in Seq(S) /\ Len(b) = Len(s) - k
      /\ \A i \in 1..(Len(s) - k) : b[i] = s[i + k]
  <2>1. k + 1 \in Int /\ Len(s) \in Int /\ \A i \in (k + 1)..Len(s) : s[i] \in S
    BY <1>3
  <2>2. /\ b \in Seq(S) /\ Len(b) = Len(s) - k
        /\ \A i \in 1..(Len(s) - (k + 1) + 1) : b[i] = s[k + 1 + i - 1]
    <3>1. /\ b \in Seq(S)
          /\ Len(b) = IF k + 1 <= Len(s) THEN Len(s) - (k + 1) + 1 ELSE 0
          /\ \A i \in 1..(Len(s) - (k + 1) + 1) : b[i] = s[k + 1 + i - 1]
      BY <2>1, SubSeqProperties
    <3>2. (IF k + 1 <= Len(s) THEN Len(s) - (k + 1) + 1 ELSE 0) = Len(s) - k
      <4>1. k \in Int /\ Len(s) \in Int /\ k <= Len(s)
        BY <1>3
      <4> QED BY <4>1
    <3> QED BY <3>1, <3>2
  <2>3. \A i \in 1..(Len(s) - k) : i \in 1..(Len(s) - (k + 1) + 1) /\ k + 1 + i - 1 = i + k
    BY <1>3
  <2> QED BY <2>2, <2>3
<1>6. w \in Seq(S) /\ Len(w) = Len(s) - 1
  BY <1>3
<1> HIDE DEF a, b
<1>7. /\ a \o b \in Seq(S) /\ Len(a \o b) = Len(s) - 1
      /\ \A i \in 1..(Len(s) - 1) : (a \o b)[i] = IF i < k THEN a[i] ELSE b[i - k + 1]
  <2>1. /\ a \o b \in Seq(S) /\ Len(a \o b) = Len(a) + Len(b)
        /\ \A i \in 1..(Len(a) + Len(b)) :
             (a \o b)[i] = IF i <= Len(a) THEN a[i] ELSE b[i - Len(a)]
    BY <1>4, <1>5, ConcatProperties
  <2>2. Len(a) + Len(b) = Len(s) - 1
    BY <1>3, <1>4, <1>5
  <2>3. ASSUME NEW i \in 1..(Len(s) - 1)
        PROVE  (i <= Len(a) <=> i < k) /\ i - Len(a) = i - k + 1
    BY <1>3, <1>4
  <2> QED BY <2>1, <2>2, <2>3
<1>8. \A i \in 1..(Len(s) - 1) : w[i] = (a \o b)[i]
  <2> SUFFICES ASSUME NEW i \in 1..(Len(s) - 1) PROVE w[i] = (a \o b)[i]
    OBVIOUS
  <2>1. CASE i < k
    BY <1>3, <1>4, <1>7, <2>1
  <2>2. CASE i >= k
    <3>1. i - k + 1 \in 1..(Len(s) - k) /\ i - k + 1 + k = i + 1
      BY <1>3, <2>2
    <3>2. b[i - k + 1] = s[i + 1]
      BY <1>5, <3>1
    <3>3. ~(i < k)
      BY <1>3, <2>2
    <3> QED BY <1>7, <3>2, <3>3
  <2>3. i < k \/ i >= k
    BY <1>3
  <2> QED BY <2>1, <2>2, <2>3
<1> HIDE DEF w
<1>9. w = a \o b
  BY <1>6, <1>7, <1>8, SeqEqual
<1> QED BY <1>1, <1>2, <1>9 DEF a, b

\* At the start nothing waits, is served or has an outcome.
LEMMA ContractInit == Init => Contract!Init
<1> SUFFICES ASSUME Init PROVE Contract!Init
  OBVIOUS
<1>1. Served = {} /\ Stopping = {}
  BY DEF Init, Served, Stopping
<1> QED BY <1>1 DEF Init, Contract!Init, Served, Stopping

\* Steps that touch none of the four mapped values are stutters.
LEMMA ContractStutter ==
  ASSUME UNCHANGED <<status, pending, receipt, alive, serving>>
  PROVE  UNCHANGED Contract!vars
<1>1. Served' = Served /\ Stopping' = Stopping
  BY DEF Served, Stopping
<1> QED BY <1>1 DEF Contract!vars, Served, Stopping

\* enqueue is Accept: its ids have no outcome, do not wait and are not served.
LEMMA ContractAccept ==
  ASSUME LineSound, NEW n \in 1..MaxBatch, NEW b \in [1..n -> Input], Submit(b)
  PROVE  Contract!Next
<1> USE DEF LineSound
<1> DEFINE ids == [k \in 1..Len(b) |-> b[k].id]
           new == {b[k].id : k \in DOMAIN b}
<1>1. /\ Admissible(b)
      /\ status' = [j \in Jobs |-> IF j \in new THEN "queued" ELSE status[j]]
      /\ pending' = pending \o ids
      /\ UNCHANGED <<receipt, alive, serving>>
  BY DEF Submit
<1>2. n \in Nat /\ DOMAIN b = 1..n
  OBVIOUS
<1>3. Len(b) = n
  BY <1>2
<1>4. ids \in [1..n -> Jobs] /\ DOMAIN ids = 1..n
  BY <1>3 DEF Input
<1>5. \A k \in 1..n : ids[k] = b[k].id /\ ids[k] \in Jobs
  BY <1>3, <1>4
<1>6. \A k, l \in DOMAIN ids : ids[k] = ids[l] => k = l
  BY <1>1, <1>2, <1>4, <1>5 DEF Admissible
<1>7. \A k \in DOMAIN ids : status[ids[k]] = "new"
  BY <1>1, <1>2, <1>4, <1>5 DEF Admissible
<1>8. \A k \in DOMAIN ids : ids[k] \in Contract!Unknown
  <2> SUFFICES ASSUME NEW k \in DOMAIN ids PROVE ids[k] \in Contract!Unknown
    OBVIOUS
  <2>1. ids[k] \in Jobs /\ status[ids[k]] = "new"
    BY <1>4, <1>5, <1>7
  <2>2. receipt[ids[k]] = NONE
    BY <2>1 DEF ReceiptsMatch
  <2>3. ids[k] \notin Elems(pending) /\ ids[k] \notin Active
    BY <2>1 DEF PendingIsQueue, Active
  <2> QED BY <2>1, <2>2, <2>3 DEF Contract!Unknown, Contract!InLine, Elems, Serialized
<1>9. Stopping' = Stopping
  BY <1>1, <1>2, <1>4, <1>5, <1>7 DEF Stopping, TypeOK
<1> HIDE DEF ids
<1>10. Contract!Accept(ids)
  BY <1>1, <1>6, <1>8, <1>9 DEF Contract!Accept, Stopping
<1> QED BY <1>4, <1>10 DEF Contract!Next

\* cancel is Withdraw for a waiting job and RequestStop for the served one.
LEMMA ContractCancel ==
  ASSUME LineSound, NEW j \in Jobs, CancelEffect(j), UNCHANGED pumpVars
  PROVE  Contract!Next \/ UNCHANGED Contract!vars
<1> USE DEF LineSound
<1>0. alive' = alive /\ serving' = serving
  BY DEF pumpVars
<1>1. CASE status[j] = "queued" /\ j \in jobs
  <2>1. /\ status' = [status EXCEPT ![j] = "cancelled"]
        /\ pending' = Without(pending, j)
        /\ receipt' = [receipt EXCEPT ![j] = "cancelled"]
    BY <1>1 DEF CancelEffect
  <2>2. j \in Elems(pending)
    BY <1>1 DEF PendingIsQueue
  <2>3. PICK k \in DOMAIN pending :
          /\ pending[k] = j
          /\ pending' = SubSeq(pending, 1, k - 1) \o SubSeq(pending, k + 1, Len(pending))
    BY <2>1, <2>2, PendingDistinct, WithoutCut DEF TypeOK
  <2>4. Stopping' = Stopping
    BY <1>1, <2>1 DEF Stopping, TypeOK
  <2>5. Contract!Withdraw(k)
    BY <1>0, <2>1, <2>3, <2>4 DEF Contract!Withdraw, Stopping
  <2> QED BY <2>5 DEF Contract!Next
<1>2. CASE status[j] = "transferring" /\ j \in jobs
  <2>1. /\ status' = [status EXCEPT ![j] = "cancelling"]
        /\ UNCHANGED <<pending, receipt>>
    BY <1>2 DEF CancelEffect
  <2>2. j \in Served
    BY <1>2 DEF Active, Serialized, Served
  <2>3. Stopping' = Stopping \cup {j}
    BY <2>1 DEF Stopping, TypeOK
  <2>4. Contract!RequestStop(j)
    BY <1>0, <2>1, <2>2, <2>3 DEF Contract!RequestStop, Stopping, Served
  <2> QED BY <2>4 DEF Contract!Next
<1>3. CASE UNCHANGED jobVars
  BY <1>0, <1>3, ContractStutter DEF jobVars
<1> QED BY <1>1, <1>2, <1>3 DEF CancelEffect

\* The pump's pop is Begin: it pops only when no job is served.
LEMMA ContractBegin ==
  ASSUME LineSound, NEW t \in Tasks, PumpStart(t)
  PROVE  Contract!Next
<1> USE DEF LineSound
<1>1. /\ t \in alive /\ serving[t] = NONE /\ pending # <<>>
      /\ pending' = Tail(pending)
      /\ serving' = [serving EXCEPT ![t] = Head(pending)]
      /\ status' = [status EXCEPT ![Head(pending)] = "transferring"]
      /\ UNCHANGED <<receipt, alive>>
  BY DEF PumpStart, Idle
<1>2. alive = {t}
  BY <1>1 DEF Serialized
<1>3. Head(pending) \in Jobs /\ status[Head(pending)] = "queued"
  <2>1. 1 \in DOMAIN pending /\ Head(pending) = pending[1]
    BY <1>1 DEF TypeOK
  <2>2. Head(pending) \in Elems(pending)
    BY <2>1 DEF Elems
  <2> QED BY <2>2 DEF PendingIsQueue
<1>4. Served = {} /\ Served' = {Head(pending)}
  BY <1>1, <1>2, <1>3, QueueConstants DEF Served, TypeOK
<1>5. Stopping' = Stopping
  BY <1>1, <1>3 DEF Stopping, TypeOK
<1>6. Contract!Begin
  BY <1>1, <1>4, <1>5 DEF Contract!Begin, Served, Stopping
<1> QED BY <1>6 DEF Contract!Next

\* finish is End: a job that was asked to stop ends as cancelled because its
\* token is in the cancelled set.
LEMMA ContractEnd ==
  ASSUME LineSound, StopInv, NEW t \in Tasks, NEW result \in {"ok", "err"}, Finish(t, result)
  PROVE  Contract!Next
<1> USE DEF LineSound
<1> DEFINE j == serving[t]
           o == OutcomeOf(j, result)
<1>1. /\ j \in jobs
      /\ status' = [status EXCEPT ![j] = o]
      /\ receipt' = [receipt EXCEPT ![j] = o]
      /\ serving' = [serving EXCEPT ![t] = NONE]
      /\ UNCHANGED <<pending, alive>>
  BY DEF Finish
<1>2. /\ o \in Contract!Outcomes /\ o # "cancelling"
      /\ j \in cancelled => o = "cancelled"
  BY DEF OutcomeOf, Contract!Outcomes, TokenCancelled
<1>3. j \in Jobs /\ j # NONE /\ t \in alive
  BY <1>1, QueueConstants DEF TypeOK, Bookkeeping
<1>4. serving[t] = j
  OBVIOUS
<1> HIDE DEF j, o
<1>5. alive = {t} /\ Served = {j} /\ Served' = {}
  BY <1>1, <1>3, <1>4 DEF Serialized, Served, TypeOK
<1>6. Stopping' = Stopping \ {j}
  BY <1>1, <1>2, <1>3 DEF Stopping, TypeOK
<1>7. j \in Stopping => o = "cancelled"
  BY <1>2 DEF Stopping, StopInv
<1>8. Contract!End(j, o)
  BY <1>1, <1>5, <1>6, <1>7 DEF Contract!End, Served, Stopping
<1>9. \E i \in Jobs, p \in Contract!Outcomes : Contract!End(i, p)
  BY <1>2, <1>3, <1>8 DEF Contract!End
<1> QED BY <1>9 DEF Contract!Next

LEMMA StopStep == LineSound /\ StopInv /\ [Next]_vars => StopInv'
<1> SUFFICES ASSUME LineSound, StopInv, [Next]_vars, NEW j \in Jobs, status'[j] = "cancelling"
             PROVE  j \in cancelled'
  BY DEF StopInv, Stopping
<1> USE DEF LineSound
<1>1. status[j] = "cancelling" => j \in cancelled
  BY DEF StopInv, Stopping
<1>2. ASSUME NEW i \in Jobs, CancelEffect(i) PROVE j \in cancelled'
  BY <1>1, <1>2 DEF CancelEffect, TypeOK, jobVars
<1>3. ASSUME UNCHANGED <<status, cancelled>> PROVE j \in cancelled'
  BY <1>1, <1>3
<1>4. CASE Enqueue
  BY <1>1, <1>4 DEF Enqueue, Submit, TypeOK
<1>5. ASSUME NEW i \in Jobs, Retry(i) PROVE j \in cancelled'
  BY <1>1, <1>5 DEF Retry, Submit, TypeOK
<1>6. ASSUME NEW i \in Jobs, Cancel(i) \/ LooseSweep(i) PROVE j \in cancelled'
  BY <1>2, <1>6 DEF Cancel, LooseSweep
<1>7. ASSUME NEW c \in Conns, UnbindBegin(c) \/ BindInsert(c) \/ UnbindDone(c) PROVE j \in cancelled'
  BY <1>3, <1>7 DEF UnbindBegin, BindInsert, UnbindDone, jobVars
<1>8. ASSUME NEW c \in Conns, NEW s \in Sessions, BindBegin(c, s) PROVE j \in cancelled'
  BY <1>3, <1>8 DEF BindBegin, jobVars
<1>9. ASSUME NEW c \in Conns, NEW i \in Jobs, ManagerSweep(c, i) PROVE j \in cancelled'
  BY <1>2, <1>9 DEF ManagerSweep
<1>10. ASSUME NEW s \in Sessions, SessionDies(s) \/ MonitorStops(s) \/ MonitorUnbinds(s)
       PROVE  j \in cancelled'
  BY <1>3, <1>10 DEF SessionDies, MonitorStops, MonitorUnbinds, jobVars
<1>11. ASSUME NEW w \in Windows, CloseWindow(w) PROVE j \in cancelled'
  BY <1>3, <1>11 DEF CloseWindow, jobVars
<1>12. CASE ClearCompleted
  BY <1>1, <1>12 DEF ClearCompleted, TypeOK
<1>13. CASE Pump \/ UNCHANGED vars
  BY <1>3, <1>13 DEF Pump, vars, jobVars
<1>14. ASSUME NEW t \in Tasks, PumpStart(t) \/ PumpStop(t) PROVE j \in cancelled'
  BY <1>1, <1>14 DEF PumpStart, PumpStop, TypeOK, jobVars
<1>15. ASSUME NEW t \in Tasks, TransferReturns(t) PROVE j \in cancelled'
  <2>1. PICK result \in {"ok", "err"} : Finish(t, result)
    BY <1>15 DEF TransferReturns
  <2>2. OutcomeOf(serving[t], result) # "cancelling"
    BY DEF OutcomeOf
  <2> QED BY <1>1, <2>1, <2>2 DEF Finish, TypeOK
<1> QED BY <1>4, <1>5, <1>6, <1>7, <1>8, <1>9, <1>10, <1>11, <1>12, <1>13, <1>14, <1>15 DEF Next

LEMMA ContractStep ==
  LineSound /\ StopInv /\ [Next]_vars => Contract!Next \/ UNCHANGED Contract!vars
<1> SUFFICES ASSUME LineSound, StopInv, [Next]_vars
             PROVE  Contract!Next \/ UNCHANGED Contract!vars
  OBVIOUS
<1> USE DEF LineSound
<1> DEFINE Goal == Contract!Next \/ UNCHANGED Contract!vars
<1>1. CASE Enqueue
  BY <1>1, ContractAccept DEF Enqueue
<1>2. ASSUME NEW j \in Jobs, Retry(j) PROVE Goal
  <2>1. PICK fresh \in Jobs : Submit(<<[id |-> fresh, conn |-> conn[j], owner |-> NONE]>>)
    BY <1>2 DEF Retry
  <2> DEFINE b == <<[id |-> fresh, conn |-> conn[j], owner |-> NONE]>>
  <2>2. conn[j] \in Conns
    <3>1. receipt[j] # NONE
      BY <1>2, QueueConstants DEF Retry, Terminal
    <3>2. status[j] # "new"
      BY <3>1 DEF ReceiptsMatch
    <3> QED BY <3>2 DEF Bookkeeping
  <2>3. b \in [1..1 -> Input] /\ 1 \in 1..MaxBatch
    BY <2>2, QueueConstants DEF Input
  <2> HIDE DEF b
  <2> QED BY <2>1, <2>3, ContractAccept DEF b
<1>3. ASSUME NEW j \in Jobs, Cancel(j) PROVE Goal
  BY <1>3, ContractCancel DEF Cancel
<1>4. ASSUME NEW j \in Jobs, LooseSweep(j) PROVE Goal
  BY <1>4, ContractCancel DEF LooseSweep
<1>5. ASSUME NEW c \in Conns, NEW j \in Jobs, ManagerSweep(c, j) PROVE Goal
  BY <1>5, ContractCancel DEF ManagerSweep
<1>6. ASSUME NEW c \in Conns, UnbindBegin(c) \/ BindInsert(c) \/ UnbindDone(c) PROVE Goal
  BY <1>6, ContractStutter DEF UnbindBegin, BindInsert, UnbindDone, jobVars, pumpVars
<1>7. ASSUME NEW c \in Conns, NEW s \in Sessions, BindBegin(c, s) PROVE Goal
  BY <1>7, ContractStutter DEF BindBegin, jobVars, pumpVars
<1>8. ASSUME NEW s \in Sessions, SessionDies(s) \/ MonitorStops(s) \/ MonitorUnbinds(s) PROVE Goal
  BY <1>8, ContractStutter DEF SessionDies, MonitorStops, MonitorUnbinds, jobVars, pumpVars
<1>9. ASSUME NEW w \in Windows, CloseWindow(w) PROVE Goal
  BY <1>9, ContractStutter DEF CloseWindow, jobVars, pumpVars
<1>10. CASE ClearCompleted
  <2>1. Stopping' = Stopping
    BY <1>10 DEF ClearCompleted, Stopping, Terminal, TypeOK
  <2>2. Served' = Served
    BY <1>10 DEF ClearCompleted, Served, pumpVars
  <2> QED BY <1>10, <2>1, <2>2 DEF ClearCompleted, Contract!vars, Served, Stopping
<1>11. ASSUME alive' \subseteq Tasks, UNCHANGED <<jobVars, serving>>,
              \A t \in (alive \ alive') \cup (alive' \ alive) : serving[t] = NONE
       PROVE  Goal
  <2>1. Served' = Served /\ Stopping' = Stopping
    BY <1>11 DEF Served, Stopping, jobVars
  <2> QED BY <1>11, <2>1 DEF Contract!vars, Served, Stopping, jobVars
<1>12. CASE Pump
  <2>1. alive' \subseteq Tasks /\ alive \subseteq alive' /\ UNCHANGED <<jobVars, serving>>
    BY <1>12 DEF Pump, TypeOK
  <2>2. \A t \in alive' \ alive : serving[t] = NONE
    BY <2>1 DEF Bookkeeping
  <2> QED BY <1>11, <2>1, <2>2
<1>13. ASSUME NEW t \in Tasks, PumpStop(t) PROVE Goal
  BY <1>11, <1>13 DEF PumpStop, Idle, TypeOK
<1>14. ASSUME NEW t \in Tasks, PumpStart(t) PROVE Goal
  BY <1>14, ContractBegin
<1>15. ASSUME NEW t \in Tasks, TransferReturns(t) PROVE Goal
  BY <1>15, ContractEnd DEF TransferReturns
<1>16. CASE UNCHANGED vars
  BY <1>16, ContractStutter DEF vars, jobVars, pumpVars
<1> QED BY <1>1, <1>2, <1>3, <1>4, <1>5, <1>6, <1>7, <1>8, <1>9, <1>10, <1>12, <1>13, <1>14,
           <1>15, <1>16 DEF Next

\* The queue of the code is the one-line, one-outcome queue of JobContract.
THEOREM QueueRefinesContract == Spec => ImplementsContract
<1>1. Init => StopInv
  BY DEF Init, StopInv, Stopping
<1>2. Init => Contract!Init
  BY ContractInit
<1>3. LineSound /\ StopInv /\ [Next]_vars => [Contract!Next]_(Contract!vars)
  BY ContractStep
<1> QED BY <1>1, <1>2, <1>3, LineInit, LineStep, StopStep, PTL
        DEF Spec, ImplementsContract, Contract!Spec

\* A job starts only after every job accepted before it has left the queue.
THEOREM StartsInOrder == Spec => FifoStart
<1>1. LineSound /\ [Next]_vars =>
        [\A i, j \in Jobs :
           /\ status[j] = "queued" /\ status'[j] = "transferring"
           /\ status[i] = "queued" /\ i # j
           => pos[j] < pos[i]]_vars
  <2> SUFFICES ASSUME LineSound, [Next]_vars, NEW i \in Jobs, NEW j \in Jobs,
                      status[j] = "queued", status'[j] = "transferring",
                      status[i] = "queued", i # j
               PROVE  pos[j] < pos[i]
    OBVIOUS
  <2> USE DEF LineSound
  <2>1. \E t \in Tasks : PumpStart(t)
    <3>1. ASSUME NEW k \in Jobs, CancelEffect(k) PROVE FALSE
      BY <3>1 DEF CancelEffect, TypeOK, jobVars
    <3>2. ASSUME NEW k \in Jobs, Cancel(k) \/ LooseSweep(k) PROVE FALSE
      BY <3>1, <3>2 DEF Cancel, LooseSweep
    <3>3. ASSUME NEW c \in Conns, NEW k \in Jobs, ManagerSweep(c, k) PROVE FALSE
      BY <3>1, <3>3 DEF ManagerSweep
    <3>4. ASSUME Enqueue \/ \E k \in Jobs : Retry(k) PROVE FALSE
      <4>1. PICK b : Submit(b)
        BY <3>4 DEF Enqueue, Retry
      <4> QED BY <4>1 DEF Submit
    <3>5. ASSUME NEW c \in Conns, UnbindBegin(c) \/ BindInsert(c) \/ UnbindDone(c) PROVE FALSE
      BY <3>5 DEF UnbindBegin, BindInsert, UnbindDone, jobVars
    <3>6. ASSUME NEW c \in Conns, NEW s \in Sessions, BindBegin(c, s) PROVE FALSE
      BY <3>6 DEF BindBegin, jobVars
    <3>7. ASSUME NEW s \in Sessions, SessionDies(s) \/ MonitorStops(s) \/ MonitorUnbinds(s)
          PROVE  FALSE
      BY <3>7 DEF SessionDies, MonitorStops, MonitorUnbinds, jobVars
    <3>8. ASSUME NEW w \in Windows, CloseWindow(w) PROVE FALSE
      BY <3>8 DEF CloseWindow, jobVars
    <3>9. ASSUME ClearCompleted \/ Pump \/ UNCHANGED vars PROVE FALSE
      BY <3>9 DEF ClearCompleted, Pump, vars, jobVars
    <3>10. ASSUME NEW t \in Tasks, PumpStop(t) \/ TransferReturns(t) PROVE FALSE
      <4>1. \A r \in {"ok", "err"} : OutcomeOf(serving[t], r) # "transferring"
        BY DEF OutcomeOf
      <4> QED BY <3>10, <4>1 DEF PumpStop, TransferReturns, Finish, TypeOK, jobVars
    <3> QED BY <3>2, <3>3, <3>4, <3>5, <3>6, <3>7, <3>8, <3>9, <3>10 DEF Next
  <2>2. j = Head(pending)
    BY <2>1 DEF PumpStart, TypeOK
  <2>3. PICK m \in DOMAIN pending : pending[m] = i
    BY DEF PendingIsQueue, Elems
  <2>4. 1 \in DOMAIN pending /\ j = pending[1] /\ 1 < m
    BY <2>2, <2>3 DEF TypeOK
  <2> QED BY <2>3, <2>4 DEF PendingIsQueue
<1> QED BY <1>1, LineInit, LineStep, PTL DEF Spec, FifoStart
=============================================================================
