--------------------------- MODULE TransferQueue ---------------------------
(***************************************************************************)
(* The application-wide transfer queue of src-tauri/src/transfer_queue.rs: *)
(* one FIFO shared by every webview and by native Finder drags, one pump   *)
(* task that runs one transfer at a time, and the bindings that tie jobs   *)
(* to an SSH/SFTP session generation.                                      *)
(*                                                                         *)
(* Every method takes the queue's mutex for one critical section, so one   *)
(* critical section is one action.  What a method does in several critical *)
(* sections (bind, unbind, cancel_window, enqueue followed by pump) is     *)
(* several actions, and other threads may run in between.  The revision    *)
(* counter and the snapshots and events sent after the unlock belong to    *)
(* module TransferFeed, which rests on the contract proved of this one.    *)
(***************************************************************************)
EXTENDS Naturals, Sequences

CONSTANTS
  Jobs,       \* transfer ids
  Conns,      \* connection ids
  Sessions,   \* transport sessions (Arc<russh Handle>); one binding token each
  Windows,    \* labels of editor windows
  Tasks,      \* pump tasks that may ever be alive at once
  MaxBatch,   \* bound: longest batch one enqueue call submits
  NONE        \* the absent value of an Option

Live     == {"queued", "transferring", "cancelling"}
Terminal == {"completed", "failed", "cancelled"}

ASSUME QueueConstants ==
  /\ MaxBatch \in Nat \ {0}
  /\ NONE \notin Jobs /\ NONE \notin Sessions /\ NONE \notin Windows
  /\ NONE \notin Live \cup Terminal
  /\ {"idle", "unbind"} \cap Sessions = {}

VARIABLES
  status,     \* items: "new" = never submitted, "cleared" = removed by clear_completed
  pos,        \* position of the item in the append-only items Vec
  accepted,   \* number of items pushed so far
  pending,    \* VecDeque of queued ids
  jobs,       \* keys of the jobs map
  conn,       \* job -> connection id of its request
  owner,      \* job -> editor window that owns it, NONE for the other sources
  sessionOf,  \* job -> session captured when the job was accepted
  cancelled,  \* jobs whose own child token was cancelled
  receipt,    \* job -> outcome sent on its oneshot channel
  pumping,    \* the flag that says a pump task exists
  alive,      \* pump tasks that were spawned and have not left their loop
  serving,    \* task -> job whose transfer it awaits, NONE between two jobs
  kicks,      \* enqueue calls that have unlocked but not yet called pump()
  bound,      \* bindings: connection -> session
  revoked,    \* sessions whose binding token was cancelled
  dead,       \* sessions whose transport is closed
  opened,     \* sessions that connected and were handed to bind
  monitors,   \* sessions whose 100 ms close monitor still runs
  mgr,        \* connection -> session bind is called with, "unbind" or "idle"
  sweep,      \* connection -> jobs the manager's unbind still has to cancel
  loose,      \* jobs a monitor or a closed window still has to cancel
  closed      \* closed_windows

jobVars  == <<status, pos, accepted, pending, jobs, cancelled, receipt>>
reqVars  == <<conn, owner, sessionOf>>
pumpVars == <<pumping, alive, serving, kicks>>
bindVars == <<bound, revoked, dead, opened, monitors>>
callVars == <<mgr, sweep, loose, closed>>
vars     == <<jobVars, reqVars, pumpVars, bindVars, callVars>>

Elems(s) == {s[k] : k \in DOMAIN s}

TypeOK ==
  /\ status \in [Jobs -> {"new", "cleared"} \cup Live \cup Terminal]
  /\ pos \in [Jobs -> Nat]
  /\ accepted \in Nat
  /\ pending \in Seq(Jobs)
  /\ jobs \subseteq Jobs
  /\ conn \in [Jobs -> Conns \cup {NONE}]
  /\ owner \in [Jobs -> Windows \cup {NONE}]
  /\ sessionOf \in [Jobs -> Sessions \cup {NONE}]
  /\ cancelled \subseteq Jobs
  /\ receipt \in [Jobs -> Terminal \cup {NONE}]
  /\ pumping \in BOOLEAN
  /\ alive \subseteq Tasks
  /\ serving \in [Tasks -> Jobs \cup {NONE}]
  /\ kicks \in Nat
  /\ bound \in [Conns -> Sessions \cup {NONE}]
  /\ revoked \subseteq Sessions
  /\ dead \subseteq Sessions
  /\ opened \subseteq Sessions
  /\ monitors \subseteq Sessions
  /\ mgr \in [Conns -> Sessions \cup {"idle", "unbind"}]
  /\ sweep \in [Conns -> SUBSET Jobs]
  /\ loose \subseteq Jobs
  /\ closed \subseteq Windows

Init ==
  /\ status = [j \in Jobs |-> "new"]
  /\ pos = [j \in Jobs |-> 0]
  /\ accepted = 0
  /\ pending = <<>>
  /\ jobs = {}
  /\ conn = [j \in Jobs |-> NONE]
  /\ owner = [j \in Jobs |-> NONE]
  /\ sessionOf = [j \in Jobs |-> NONE]
  /\ cancelled = {}
  /\ receipt = [j \in Jobs |-> NONE]
  /\ pumping = FALSE
  /\ alive = {}
  /\ serving = [t \in Tasks |-> NONE]
  /\ kicks = 0
  /\ bound = [c \in Conns |-> NONE]
  /\ revoked = {} /\ dead = {} /\ opened = {} /\ monitors = {}
  /\ mgr = [c \in Conns |-> "idle"]
  /\ sweep = [c \in Conns |-> {}]
  /\ loose = {}
  /\ closed = {}

-----------------------------------------------------------------------------
(* enqueue and retry *)

Input == [id : Jobs, conn : Conns, owner : Windows \cup {NONE}]

\* Definitions named X_<what is wrong> are deliberately wrong variants of X, each
\* the slip that one of the properties at the end of this module would expose.

\* Session bound to c accepts jobs: present, not revoked, transport open.
Usable(c) == bound[c] \in Sessions \ (revoked \cup dead)

Admissible_IdsReused(b) ==
  /\ \A k \in DOMAIN b : b[k].owner \notin closed /\ Usable(b[k].conn)
  /\ \A k, l \in DOMAIN b : b[k].id = b[l].id => k = l

\* The checks of the first loop: one bad input rejects the whole batch.
Admissible(b) ==
  /\ \A k \in DOMAIN b :
       /\ b[k].owner \notin closed
       /\ status[b[k].id] = "new"
       /\ Usable(b[k].conn)
  /\ \A k, l \in DOMAIN b : b[k].id = b[l].id => k = l

\* Index of job j in batch b.
IndexIn(b, j) == CHOOSE k \in DOMAIN b : b[k].id = j

Submit(b) ==
  LET new == {b[k].id : k \in DOMAIN b}
      in(j) == b[IndexIn(b, j)]
  IN  /\ Admissible(b)
      /\ status' = [j \in Jobs |-> IF j \in new THEN "queued" ELSE status[j]]
      /\ pos' = [j \in Jobs |-> IF j \in new THEN accepted + IndexIn(b, j) ELSE pos[j]]
      /\ accepted' = accepted + Len(b)
      /\ pending' = pending \o [k \in 1..Len(b) |-> b[k].id]
      /\ jobs' = jobs \cup new
      /\ conn' = [j \in Jobs |-> IF j \in new THEN in(j).conn ELSE conn[j]]
      /\ owner' = [j \in Jobs |-> IF j \in new THEN in(j).owner ELSE owner[j]]
      /\ sessionOf' = [j \in Jobs |-> IF j \in new THEN bound[in(j).conn] ELSE sessionOf[j]]
      /\ kicks' = kicks + 1
      /\ UNCHANGED <<cancelled, receipt, pumping, alive, serving, bindVars, callVars>>

Enqueue == \E n \in 1..MaxBatch : \E b \in [1..n -> Input] : Submit(b)

\* retry: a failed or cancelled item is submitted again under a fresh id, as a
\* browser transfer; the old item stays where it is.  retry looks the item up in
\* a snapshot it took before, so clear_completed may have removed it since.
Retry(j) ==
  /\ receipt[j] \in {"failed", "cancelled"}
  /\ \E fresh \in Jobs : Submit(<<[id |-> fresh, conn |-> conn[j], owner |-> NONE]>>)

-----------------------------------------------------------------------------
(* cancel, and the callers that cancel many jobs *)

Without_KeepsEntry(s, j) == s

\* VecDeque::retain(pending != j); j occurs at most once (PendingIsQueue).
Without(s, j) ==
  IF j \notin Elems(s) THEN s
  ELSE LET k == CHOOSE k \in DOMAIN s : s[k] = j
       IN  [i \in 1..(Len(s) - 1) |-> IF i < k THEN s[i] ELSE s[i + 1]]

\* The critical section of cancel(id); a no-op on items that are not cancellable.
CancelEffect(j) ==
  \/ /\ status[j] = "queued" /\ j \in jobs
     /\ status' = [status EXCEPT ![j] = "cancelled"]
     /\ pending' = Without(pending, j)
     /\ jobs' = jobs \ {j}
     /\ cancelled' = cancelled \cup {j}
     /\ receipt' = [receipt EXCEPT ![j] = "cancelled"]
     /\ UNCHANGED <<pos, accepted>>
  \/ /\ status[j] = "transferring" /\ j \in jobs
     /\ status' = [status EXCEPT ![j] = "cancelling"]
     /\ cancelled' = cancelled \cup {j}
     /\ UNCHANGED <<pos, accepted, pending, jobs, receipt>>
  \/ /\ status[j] \notin {"queued", "transferring"} \/ j \notin jobs
     /\ UNCHANGED jobVars

Cancel(j) ==
  /\ CancelEffect(j)
  /\ UNCHANGED <<reqVars, pumpVars, bindVars, callVars>>

JobsOn_QueuedOnly(c) == {j \in jobs : conn[j] = c /\ status[j] = "queued"}

JobsOn(c) == {j \in jobs : conn[j] = c}

\* Locked part of unbind(c): drop the binding, cancel its token, list its jobs.
DropBinding(c) ==
  /\ bound' = [bound EXCEPT ![c] = NONE]
  /\ revoked' = revoked \cup ({bound[c]} \ {NONE})
  /\ sweep' = [sweep EXCEPT ![c] = JobsOn(c)]

\* The connection manager calls unbind, or bind with the session of a new
\* connection, which unbinds first.  It holds its connection map's write lock
\* until the call returns, so calls on one connection do not overlap.
UnbindBegin(c) ==
  /\ mgr[c] = "idle"
  /\ DropBinding(c)
  /\ mgr' = [mgr EXCEPT ![c] = "unbind"]
  /\ UNCHANGED <<jobVars, reqVars, pumpVars, dead, opened, monitors, loose, closed>>

BindBegin(c, s) ==
  /\ mgr[c] = "idle" /\ s \notin opened
  /\ DropBinding(c)
  /\ mgr' = [mgr EXCEPT ![c] = s]
  /\ opened' = opened \cup {s}
  /\ UNCHANGED <<jobVars, reqVars, pumpVars, dead, monitors, loose, closed>>

\* One cancel(id) of the loop at the end of unbind_matching.
ManagerSweep(c, j) ==
  /\ j \in sweep[c]
  /\ CancelEffect(j)
  /\ sweep' = [sweep EXCEPT ![c] = @ \ {j}]
  /\ UNCHANGED <<reqVars, pumpVars, bindVars, mgr, loose, closed>>

\* bind after its unbind: insert the new binding and spawn its monitor.
BindInsert(c) ==
  /\ mgr[c] \in Sessions /\ sweep[c] = {}
  /\ bound' = [bound EXCEPT ![c] = mgr[c]]
  /\ monitors' = monitors \cup {mgr[c]}
  /\ mgr' = [mgr EXCEPT ![c] = "idle"]
  /\ UNCHANGED <<jobVars, reqVars, pumpVars, revoked, dead, opened, sweep, loose, closed>>

UnbindDone(c) ==
  /\ mgr[c] = "unbind" /\ sweep[c] = {}
  /\ mgr' = [mgr EXCEPT ![c] = "idle"]
  /\ UNCHANGED <<jobVars, reqVars, pumpVars, bindVars, sweep, loose, closed>>

\* The transport of a session closes, even before bind inserts it.
SessionDies(s) ==
  /\ s \in opened \ dead
  /\ dead' = dead \cup {s}
  /\ UNCHANGED <<jobVars, reqVars, pumpVars, bound, revoked, opened, monitors, callVars>>

MonitorStops_AtFirstTick(s) ==
  /\ s \in monitors
  /\ monitors' = monitors \ {s}
  /\ UNCHANGED <<jobVars, reqVars, pumpVars, bound, revoked, dead, opened, callVars>>

\* The monitor of s leaves when the token is cancelled.
MonitorStops(s) ==
  /\ s \in monitors \cap revoked
  /\ monitors' = monitors \ {s}
  /\ UNCHANGED <<jobVars, reqVars, pumpVars, bound, revoked, dead, opened, callVars>>

\* The monitor of s sees the transport closed: unbind_matching(c, Some(s)).
MonitorUnbinds(s) ==
  /\ s \in monitors \cap dead
  /\ \E c \in Conns :
       /\ bound[c] = s
       /\ bound' = [bound EXCEPT ![c] = NONE]
       /\ loose' = loose \cup JobsOn(c)
  /\ revoked' = revoked \cup {s}
  /\ monitors' = monitors \ {s}
  /\ UNCHANGED <<jobVars, reqVars, pumpVars, dead, opened, mgr, sweep, closed>>

\* cancel_window on WindowEvent::Destroyed.
CloseWindow(w) ==
  /\ closed' = closed \cup {w}
  /\ loose' = loose \cup {j \in jobs : owner[j] = w}
  /\ UNCHANGED <<jobVars, reqVars, pumpVars, bindVars, mgr, sweep>>

\* One cancel(id) of a monitor's or a window's loop.
LooseSweep(j) ==
  /\ j \in loose
  /\ CancelEffect(j)
  /\ loose' = loose \ {j}
  /\ UNCHANGED <<reqVars, pumpVars, bindVars, mgr, sweep, closed>>

ClearCompleted ==
  /\ status' = [j \in Jobs |-> IF status[j] \in Terminal THEN "cleared" ELSE status[j]]
  /\ UNCHANGED <<pos, accepted, pending, jobs, cancelled, receipt,
                 reqVars, pumpVars, bindVars, callVars>>

-----------------------------------------------------------------------------
(* the pump *)

\* pump() called by enqueue after its unlock: spawn a task unless one exists.
Pump ==
  /\ kicks > 0
  /\ kicks' = kicks - 1
  /\ pumping' = TRUE
  /\ IF pumping THEN UNCHANGED alive
     ELSE \E t \in Tasks \ alive : alive' = alive \cup {t}
  /\ UNCHANGED <<jobVars, reqVars, serving, bindVars, callVars>>

Idle(t) == t \in alive /\ serving[t] = NONE

PumpStart_PopsBack(t) ==
  /\ Idle(t) /\ pending # <<>>
  /\ pending' = SubSeq(pending, 1, Len(pending) - 1)
  /\ serving' = [serving EXCEPT ![t] = pending[Len(pending)]]
  /\ status' = [status EXCEPT ![pending[Len(pending)]] = "transferring"]
  /\ UNCHANGED <<pos, accepted, jobs, cancelled, receipt, reqVars,
                 pumping, alive, kicks, bindVars, callVars>>

\* A task pops the next id and starts its transfer.
PumpStart(t) ==
  /\ Idle(t) /\ pending # <<>>
  /\ Head(pending) \in jobs
  /\ pending' = Tail(pending)
  /\ serving' = [serving EXCEPT ![t] = Head(pending)]
  /\ status' = [status EXCEPT ![Head(pending)] = "transferring"]
  /\ UNCHANGED <<pos, accepted, jobs, cancelled, receipt, reqVars,
                 pumping, alive, kicks, bindVars, callVars>>

PumpStop_FlagLeftSet(t) ==
  /\ Idle(t) /\ pending = <<>>
  /\ alive' = alive \ {t}
  /\ UNCHANGED <<jobVars, reqVars, pumping, serving, kicks, bindVars, callVars>>

\* A task finds the queue empty: it clears the flag under the same lock and ends.
PumpStop(t) ==
  /\ Idle(t) /\ pending = <<>>
  /\ pumping' = FALSE
  /\ alive' = alive \ {t}
  /\ UNCHANGED <<jobVars, reqVars, serving, kicks, bindVars, callVars>>

TokenCancelled_NotAChild(j) == j \in cancelled

\* job.cancel is a child of the binding's token.
TokenCancelled(j) == j \in cancelled \/ sessionOf[j] \in revoked

OutcomeOf_LateSuccessWins(j, result) ==
  IF result = "ok" THEN "completed"
  ELSE IF TokenCancelled(j) THEN "cancelled" ELSE "failed"

OutcomeOf(j, result) ==
  IF TokenCancelled(j) THEN "cancelled"
  ELSE IF result = "ok" THEN "completed" ELSE "failed"

\* transfer() returned; finish(id, result).
Finish(t, result) ==
  LET j == serving[t]
  IN  /\ j \in jobs
      /\ status' = [status EXCEPT ![j] = OutcomeOf(j, result)]
      /\ receipt' = [receipt EXCEPT ![j] = OutcomeOf(j, result)]
      /\ jobs' = jobs \ {j}
      /\ serving' = [serving EXCEPT ![t] = NONE]
      /\ UNCHANGED <<pos, accepted, pending, cancelled, reqVars, pumping, alive,
                     kicks, bindVars, callVars>>

TransferReturns(t) == \E result \in {"ok", "err"} : Finish(t, result)

-----------------------------------------------------------------------------
Next ==
  \/ Enqueue
  \/ \E j \in Jobs : Retry(j) \/ Cancel(j) \/ LooseSweep(j)
  \/ \E c \in Conns : UnbindBegin(c) \/ BindInsert(c) \/ UnbindDone(c)
  \/ \E c \in Conns, s \in Sessions : BindBegin(c, s)
  \/ \E c \in Conns, j \in Jobs : ManagerSweep(c, j)
  \/ \E s \in Sessions : SessionDies(s) \/ MonitorStops(s) \/ MonitorUnbinds(s)
  \/ \E w \in Windows : CloseWindow(w)
  \/ ClearCompleted
  \/ Pump
  \/ \E t \in Tasks : PumpStart(t) \/ PumpStop(t) \/ TransferReturns(t)

Spec == Init /\ [][Next]_vars

(***************************************************************************)
(* Tokio runs every ready task, so the pump task, the cancel loops and the *)
(* monitors (a 100 ms interval) keep moving.  A transfer ends: every SFTP  *)
(* request times out after 120 s, and every wait is raced with the job's   *)
(* cancellation token.  Users and the network owe nothing.                 *)
(***************************************************************************)
Fairness ==
  /\ WF_vars(Pump)
  /\ \A t \in Tasks : WF_vars(PumpStart(t)) /\ WF_vars(PumpStop(t))
                        /\ WF_vars(TransferReturns(t))
  /\ \A j \in Jobs : WF_vars(LooseSweep(j))
  /\ \A c \in Conns, j \in Jobs : WF_vars(ManagerSweep(c, j))
  /\ \A s \in Sessions : WF_vars(MonitorUnbinds(s))

FairSpec == Spec /\ Fairness

-----------------------------------------------------------------------------
(* Invariants *)

Active == {j \in Jobs : status[j] \in {"transferring", "cancelling"}}

\* Transfers are strictly serialized across all windows and Finder drags: the
\* pump's flag keeps a second task from being spawned while one still works,
\* and exactly the job that task awaits is shown as transferring or cancelling.
Serialized ==
  /\ \A t, u \in alive : t = u
  /\ pumping <=> alive # {}
  /\ Active = {serving[t] : t \in alive} \ {NONE}

\* The pending deque is exactly the queued items, each once, in the order they
\* were accepted, although retain, pop_front and push_back run on different
\* threads; so the pump's s.jobs[&id] and .unwrap() never panic.
PendingIsQueue ==
  /\ Elems(pending) = {j \in Jobs : status[j] = "queued"}
  /\ \A k, l \in DOMAIN pending : k < l => pos[pending[k]] < pos[pending[l]]

\* A job is in the jobs map as long as its item is live, and no longer; from
\* then on its ticket holder has been sent the status the item shows.  So
\* clear_completed never removes the item finish() unwraps, and never loses an
\* outcome.
ReceiptsMatch ==
  /\ jobs = {j \in Jobs : status[j] \in Live}
  /\ \A j \in Jobs :
       /\ status[j] \in Terminal => receipt[j] = status[j]
       /\ status[j] \in Live \cup {"new"} <=> receipt[j] = NONE

\* A job whose session is no longer the one bound to its connection is being
\* cancelled, or some unbind loop still has its id: no reconnect, close or
\* transport death leaves a job of the old generation behind.
NoOrphans ==
  \A j \in jobs :
    status[j] # "cancelling" /\ bound[conn[j]] # sessionOf[j]
      => j \in sweep[conn[j]] \cup loose

\* Whenever something is queued a pump task is alive, or an enqueue call that
\* will spawn one has not finished: clearing the flag never loses a wakeup.
NoLostWakeup == pending # <<>> => alive # {} \/ kicks > 0

\* A destroyed editor window owns no job except those its cancel loop still has
\* to reach, however late the window's own submissions arrive.
ClosedWindowsDrained ==
  \A j \in jobs :
    owner[j] \in closed /\ status[j] # "cancelling" => j \in loose

\* enqueue's is_cancelled test is only defence: a token is cancelled together
\* with the removal of its binding, so no binding in the map is ever revoked.
BoundNotRevoked == \A c \in Conns : bound[c] \notin revoked

\* What the invariants above rest on.  A session is held by one connection, as
\* the bound one or the one bind is about to insert, and never after its token
\* was cancelled; a job's session is the bound one until it is revoked.
SessionsOwned ==
  /\ revoked \subseteq opened
  /\ \A c \in Conns :
       /\ bound[c] # NONE => bound[c] \in opened \ revoked /\ mgr[c] = "idle"
       /\ mgr[c] \in Sessions => mgr[c] \in opened \ revoked
  /\ \A c, d \in Conns : c # d =>
       /\ bound[c] # NONE => bound[c] # bound[d] /\ bound[c] # mgr[d]
       /\ mgr[c] \in Sessions => mgr[c] # mgr[d]
  /\ \A j \in jobs :
       /\ conn[j] \in Conns /\ sessionOf[j] \in Sessions
       /\ sessionOf[j] \notin revoked => bound[conn[j]] = sessionOf[j]

\* A task that has ended awaits nothing; a submitted item has a connection and a
\* position that is not in the future.
Bookkeeping ==
  /\ \A t \in Tasks \ alive : serving[t] = NONE
  /\ \A j \in Jobs : status[j] # "new" => pos[j] \in 1..accepted /\ conn[j] \in Conns

\* The pending line, the pump that serves it and the jobs map are one consistent
\* state between any two critical sections.
LineSound == TypeOK /\ Serialized /\ PendingIsQueue /\ ReceiptsMatch /\ NoLostWakeup /\ Bookkeeping

\* However connections are replaced, closed or lost and windows destroyed, no job
\* of a session or a window that is gone is forgotten by the loops that cancel.
GenerationsSound == SessionsOwned /\ NoOrphans /\ ClosedWindowsDrained /\ BoundNotRevoked

-----------------------------------------------------------------------------
(* Action properties *)

\* A transfer is reported completed only if its own session is still bound to
\* its connection when it finishes: success of a generation that was replaced,
\* closed or found dead is reported as cancelled.
CompletedOnlyOnLiveBinding ==
  [][\A j \in Jobs :
       receipt[j] = NONE /\ receipt'[j] = "completed"
         => bound[conn[j]] = sessionOf[j]]_vars

\* Once cancel() has accepted a request the job can only end as cancelled, even
\* if the transfer succeeds or fails in the meantime.
CancelSticks ==
  [][\A j \in cancelled : receipt'[j] \in {NONE, "cancelled"}]_vars

\* A job starts only when every job accepted before it has left the queue.
FifoStart ==
  [][\A i, j \in Jobs :
       /\ status[j] = "queued" /\ status'[j] = "transferring"
       /\ status[i] = "queued" /\ i # j
       => pos[j] < pos[i]]_vars

-----------------------------------------------------------------------------
(* The abstract queue *)

Contract == INSTANCE JobContract WITH
  line     <- pending,
  serving  <- {serving[t] : t \in alive} \ {NONE},
  stopping <- {j \in Jobs : status[j] = "cancelling"},
  outcome  <- receipt

\* With bindings, cancellation tokens, three kinds of cancel loops and the pump
\* hidden, the queue is a single line whose jobs each get exactly one outcome.
ImplementsContract == Contract!Spec

-----------------------------------------------------------------------------
(* Liveness, under FairSpec *)

\* Every accepted job is eventually settled and its ticket answered.
AcceptedSettles == \A j \in Jobs : status[j] \in Live ~> receipt[j] # NONE

\* A binding whose transport died is eventually dropped by its monitor.
DeadUnbound ==
  \A c \in Conns, s \in Sessions : s \in dead /\ bound[c] = s ~> bound[c] # s
=============================================================================
