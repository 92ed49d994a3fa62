---------------------------- MODULE TransferFeed ----------------------------
(***************************************************************************)
(* What a webview shows and promises about the transfer queue:             *)
(* transfer-queue-service.ts, and the messages transfer_queue.rs sends it. *)
(* The queue itself is the line of JobContract, which TransferQueue        *)
(* implements.                                                             *)
(*                                                                         *)
(* A critical section of the queue bumps the revision and copies the       *)
(* items; the job event and then that snapshot are sent after the unlock,  *)
(* by whatever thread ran the section, so snapshots are sent out of order. *)
(* Messages arrive in the order of sending, so sending one and handling it *)
(* is one step here, and its delay on the way is part of the delay before  *)
(* it is sent.  Answers to IPC calls take a way of their own.  Byte        *)
(* progress is left out: its snapshots and events change no status.        *)
(***************************************************************************)
EXTENDS Integers, Sequences, Functions

CONSTANTS
  Jobs,       \* transfer ids
  Natives,    \* bound: jobs that Finder drags, other windows and retries may submit
  MaxBatch,   \* bound: longest batch one call submits
  MaxOthers,  \* bound: calls of clear_completed and jobs cancelled by an unbind
              \* or a closing window, together
  NONE

Outcomes == {"completed", "failed", "cancelled"}
Statuses == {"queued", "transferring", "cancelling"} \cup Outcomes
Lists == UNION {[S -> Statuses] : S \in SUBSET Jobs}
Snapshots == [rev : Nat, items : Lists]

ASSUME FeedConstants ==
  /\ Natives \subseteq Jobs
  /\ MaxBatch \in Nat \ {0} /\ MaxOthers \in Nat
  /\ NONE \notin Outcomes \cup Snapshots

VARIABLES
  line, serving, stopping, outcome,  \* the queue, see JobContract
  present,    \* jobs whose item is in State::items
  changes,    \* State::revision
  others,     \* calls of clear_completed and jobs cancelled by unbinds so far
  outbox,     \* what critical sections still have to send
  calls,      \* submitBatch promise chains that are not finished
  cancels,    \* ids of cancel_transfer calls on their way
  query,      \* answer to get_transfer_queue, NONE before it is given
  ready,      \* progress of initialize()
  revision,   \* newest revision applied, -1 before
  view,       \* items: job -> status, for the jobs that are shown
  pending,    \* submitted here, not yet seen in a snapshot
  submitted,  \* jobs that were given a Submission record
  accepted,   \* records with accepted set
  cancelReq,  \* records with cancelRequested set
  promise,    \* job -> outcome its done promise resolved to
  notified    \* jobs in the notified set

lineVars  == <<line, serving, stopping, outcome>>
queueVars == <<lineVars, present, changes, others>>
ipcVars   == <<calls, cancels, query>>
shownVars == <<revision, view, pending, notified>>
recVars   == <<submitted, accepted, cancelReq, promise>>
vars      == <<queueVars, outbox, ipcVars, ready, shownVars, recVars>>

Queue == INSTANCE JobContract

Status(j) ==
  IF outcome[j] # NONE THEN outcome[j]
  ELSE IF j \in stopping THEN "cancelling"
  ELSE IF j \in serving THEN "transferring" ELSE "queued"

\* State::items as a snapshot copies it.
Items == [j \in present |-> Status(j)]

\* Jobs with a Submission record that is not settled.
Open == {j \in submitted : promise[j] = NONE}

Messages == [rev : Nat, items : Lists, event : SUBSET Jobs, by : {"pump", "main", "other"}]
Calls == [ids : Seq(Jobs), stage : {"wait", "sent", "ok", "error", "ftp"}, rev : Nat]

TypeOK ==
  /\ line \in Seq(Jobs) /\ serving \subseteq Jobs /\ stopping \subseteq serving
  /\ outcome \in [Jobs -> Outcomes \cup {NONE}]
  /\ present \subseteq Jobs /\ changes \in Nat /\ others \in 0..MaxOthers
  /\ outbox \subseteq Messages /\ calls \subseteq Calls /\ cancels \subseteq Jobs
  /\ query \in Snapshots \cup {NONE}
  /\ ready \in {"no", "listening", "querying", "yes", "failed"}
  /\ revision \in Nat \cup {-1}
  /\ view \in Lists
  /\ pending \cup accepted \cup cancelReq \subseteq submitted
  /\ submitted \cup notified \subseteq Jobs
  /\ promise \in [Jobs -> Outcomes \cup {NONE}]

Init ==
  /\ Queue!Init
  /\ present = {} /\ changes = 0 /\ others = 0
  /\ outbox = {}
  /\ calls = {} /\ cancels = {} /\ query = NONE
  /\ ready = "no" /\ revision = -1
  /\ view = <<>> /\ pending = {} /\ notified = {}
  /\ submitted = {} /\ accepted = {} /\ cancelReq = {}
  /\ promise = [j \in Jobs |-> NONE]

-----------------------------------------------------------------------------
(* the queue changes and publishes *)

\* Definitions named X_<what is wrong> are deliberately wrong variants of X, each
\* the slip that one of the properties at the end of this module would expose.

\* The end of a critical section: jobs with a channel get an event, then all
\* webviews get a snapshot; by names the thread that will send them.
Changed(events, by) ==
  /\ changes' = changes + 1
  /\ outbox' = outbox \cup
       {[rev |-> changes + 1, items |-> Items', event |-> events \cap submitted, by |-> by]}

\* The pump, and the main thread that runs the synchronous commands, send what
\* they have to before their next critical section.
Free(by) == \A m \in outbox : m.by # by

Begin ==
  /\ Free("pump") /\ Queue!Begin
  /\ UNCHANGED <<present, others>>
  /\ Changed(serving', "pump")
  /\ UNCHANGED <<ipcVars, ready, shownVars, recVars>>

End(j, o) ==
  /\ Free("pump") /\ Queue!End(j, o)
  /\ UNCHANGED <<present, others>>
  /\ Changed({j}, "pump")
  /\ UNCHANGED <<ipcVars, ready, shownVars, recVars>>

\* cancel(j), also when j is not cancellable (any more).
CancelEffect(j, by) ==
  \/ /\ \/ \E k \in DOMAIN line : line[k] = j /\ Queue!Withdraw(k)
        \/ j \notin stopping /\ Queue!RequestStop(j)
     /\ UNCHANGED present
     /\ Changed({j}, by)
  \/ /\ j \notin Range(line) \cup (serving \ stopping)
     /\ UNCHANGED <<lineVars, present, changes, outbox>>

\* An unbind or a closing window cancels a job.
BackendCancels(j) ==
  /\ others < MaxOthers
  /\ j \in Range(line) \cup (serving \ stopping)
  /\ others' = others + 1
  /\ CancelEffect(j, "other")
  /\ UNCHANGED <<ipcVars, ready, shownVars, recVars>>

\* cancel_transfer runs on the main thread.
CancelArrives(j) ==
  /\ j \in cancels /\ Free("main")
  /\ CancelEffect(j, "main")
  /\ UNCHANGED others
  /\ cancels' = cancels \ {j}
  /\ UNCHANGED <<calls, query, ready, shownVars, recVars>>

\* clear_completed, called by any webview.
ClearCompleted ==
  /\ others < MaxOthers /\ Free("main")
  /\ others' = others + 1
  /\ present' = {j \in present : outcome[j] = NONE}
  /\ UNCHANGED lineVars
  /\ Changed({}, "main")
  /\ UNCHANGED <<ipcVars, ready, shownVars, recVars>>

\* A Finder drag, another window or a retry submits a job.
NativeEnqueue(j) ==
  /\ j \in Natives \ submitted /\ Queue!Accept(<<j>>)
  /\ present' = present \cup {j}
  /\ UNCHANGED others
  /\ Changed({j}, "other")
  /\ UNCHANGED <<ipcVars, ready, shownVars, recVars>>

\* enqueue_file_transfers runs; its answer follows when everything is sent.
EnqueueArrives(c) ==
  /\ c.stage = "sent"
  /\ Queue!Accept(c.ids)
  /\ present' = present \cup Range(c.ids)
  /\ UNCHANGED others
  /\ Changed(Range(c.ids), "other")
  /\ calls' = (calls \ {c}) \cup {[c EXCEPT !.stage = "ok", !.rev = changes + 1]}
  /\ UNCHANGED <<cancels, query, ready, shownVars, recVars>>

\* It is refused: an FTP connection, no binding, a closed window.
EnqueueRefused(c) ==
  /\ c.stage = "sent"
  /\ \E why \in {"error", "ftp"} :
       calls' = (calls \ {c}) \cup {[c EXCEPT !.stage = why]}
  /\ UNCHANGED <<queueVars, outbox, cancels, query, ready, shownVars, recVars>>

-----------------------------------------------------------------------------
(* the adapter: snapshots and initialization *)

ApplySnapshot_AnyRevision(s) ==
  /\ revision' = s.rev
  /\ pending' = pending \ DOMAIN s.items
  /\ view' = [j \in DOMAIN s.items \cup (DOMAIN view \cap pending') |->
                IF j \in DOMAIN s.items THEN s.items[j] ELSE view[j]]
  /\ notified' = notified \cup {j \in DOMAIN view' : view'[j] \in Outcomes}

\* Older snapshots are dropped.  Submissions that no snapshot has shown yet stay
\* on the list.  Terminal items are notified, those of the bootstrap silently.
ApplySnapshot(s) ==
  IF s.rev <= revision THEN UNCHANGED shownVars
  ELSE /\ revision' = s.rev
       /\ pending' = pending \ DOMAIN s.items
       /\ view' = [j \in DOMAIN s.items \cup (DOMAIN view \cap pending') |->
                     IF j \in DOMAIN s.items THEN s.items[j] ELSE view[j]]
       /\ notified' = notified \cup {j \in DOMAIN view' : view'[j] \in Outcomes}

\* A component mounts and subscribes, or submitBatch asks for initialization.
Initialize ==
  /\ ready = "no"
  /\ ready' = "listening"
  /\ UNCHANGED <<queueVars, outbox, ipcVars, shownVars, recVars>>

\* The listener is registered, then the query leaves.
Listens ==
  /\ ready = "listening"
  /\ ready' = "querying"
  /\ UNCHANGED <<queueVars, outbox, ipcVars, shownVars, recVars>>

AnswerQuery_BeforeListening ==
  /\ ready \in {"listening", "querying"} /\ query = NONE
  /\ query' = [rev |-> changes, items |-> Items]
  /\ UNCHANGED <<queueVars, outbox, calls, cancels, ready, shownVars, recVars>>

AnswerQuery ==
  /\ ready = "querying" /\ query = NONE
  /\ query' = [rev |-> changes, items |-> Items]
  /\ UNCHANGED <<queueVars, outbox, calls, cancels, ready, shownVars, recVars>>

Bootstrap ==
  /\ ready = "querying" /\ query # NONE
  /\ ApplySnapshot(query)
  /\ ready' = "yes" /\ query' = NONE
  /\ UNCHANGED <<queueVars, outbox, calls, cancels, recVars>>

\* listen or the query rejects; ready keeps the rejected promise for good.
InitializeFails ==
  /\ ready \in {"listening", "querying"}
  /\ ready' = "failed" /\ query' = NONE
  /\ UNCHANGED <<queueVars, outbox, calls, cancels, shownVars, recVars>>

\* A message of a critical section, after its events; app.emit reaches only a
\* webview that listens.
Snapshot(m) ==
  /\ m \in outbox /\ m.event = {}
  /\ outbox' = outbox \ {m}
  /\ IF ready \in {"no", "listening"} THEN UNCHANGED shownVars ELSE ApplySnapshot(m)
  /\ UNCHANGED <<queueVars, ipcVars, ready, recVars>>

-----------------------------------------------------------------------------
(* the adapter: submissions *)

\* finish() for the ids with an open record.
Finish(outcomes) ==
  LET ids == DOMAIN outcomes \cap Open
  IN  /\ promise' = [j \in Jobs |-> IF j \in ids THEN outcomes[j] ELSE promise[j]]
      /\ pending' = pending \ ids

Show(statuses) ==
  view' = [j \in DOMAIN view |-> IF j \in DOMAIN statuses THEN statuses[j] ELSE view[j]]

\* submitBatch: fresh ids; the chain waits for initialization.
SubmitBatch(ids) ==
  /\ \A k \in DOMAIN ids : ids[k] \in Queue!Unknown \ submitted
  /\ IsInjective(ids)
  /\ submitted' = submitted \cup Range(ids)
  /\ pending' = pending \cup Range(ids)
  /\ view' = [j \in DOMAIN view \cup Range(ids) |-> IF j \in Range(ids) THEN "queued" ELSE view[j]]
  /\ calls' = calls \cup {[ids |-> ids, stage |-> "wait", rev |-> 0]}
  /\ ready' = IF ready = "no" THEN "listening" ELSE ready
  /\ UNCHANGED <<queueVars, outbox, cancels, query, revision, notified,
                 accepted, cancelReq, promise>>

Invoke_KeepsCancelled(c) ==
  /\ c.stage = "wait" /\ ready = "yes"
  /\ LET gone == [j \in Range(c.ids) \cap cancelReq |-> "cancelled"]
     IN  /\ Finish(gone) /\ Show(gone)
  /\ calls' = (calls \ {c}) \cup {[c EXCEPT !.stage = "sent"]}
  /\ UNCHANGED <<queueVars, outbox, cancels, query, ready, revision, notified,
                 submitted, accepted, cancelReq>>

\* The jobs of ids that are in keep, in the order of ids.
Kept(ids, keep) ==
  {rest \in UNION {[1..n -> keep] : n \in 0..Len(ids)} :
     /\ Range(rest) = keep
     /\ \A k, l \in DOMAIN rest : k < l =>
          \E a, b \in DOMAIN ids : a < b /\ ids[a] = rest[k] /\ ids[b] = rest[l]}

\* Jobs cancelled by now are settled here; the others go to the queue in one call.
Invoke(c) ==
  /\ c.stage = "wait" /\ ready = "yes"
  /\ LET gone == [j \in Range(c.ids) \cap cancelReq |-> "cancelled"]
     IN  /\ Finish(gone) /\ Show(gone)
         /\ \E rest \in Kept(c.ids, Range(c.ids) \ cancelReq) :
              calls' = (calls \ {c}) \cup
                (IF rest = <<>> THEN {} ELSE {[c EXCEPT !.ids = rest, !.stage = "sent"]})
  /\ UNCHANGED <<queueVars, outbox, cancels, query, ready, revision, notified,
                 submitted, accepted, cancelReq>>

Accepting_NoReplay(ids) ==
  /\ accepted' = accepted \cup (ids \cap Open)
  /\ UNCHANGED cancels

\* The record of each id becomes accepted; a cancel that came before is replayed.
Accepting(ids) ==
  LET new == (ids \cap Open) \ accepted
  IN  /\ accepted' = accepted \cup new
      /\ cancels' = cancels \cup (new \cap cancelReq)

\* The answer of enqueue_file_transfers; it is given after its snapshot is sent.
EnqueueReturns(c) ==
  /\ c.stage = "ok"
  /\ \A m \in outbox : m.rev # c.rev
  /\ Accepting(Range(c.ids))
  /\ calls' = calls \ {c}
  /\ UNCHANGED <<queueVars, outbox, query, ready, shownVars, submitted, cancelReq, promise>>

SubmitFails_OnlyRefusals(c) ==
  /\ c.stage \in {"error", "ftp"}
  /\ LET ids == Range(c.ids) \cap Open \cap DOMAIN view
         ends == [j \in ids |-> IF j \in cancelReq THEN "cancelled" ELSE "failed"]
     IN  /\ Finish(ends)
         /\ Show(ends) /\ notified' = notified \cup ids
  /\ calls' = calls \ {c}
  /\ UNCHANGED <<queueVars, outbox, cancels, query, ready, revision,
                 submitted, accepted, cancelReq>>

\* The catch branch: each open job fails, or is cancelled if that was asked for;
\* the panel that falls back to FTP takes the item over without a notice.
SubmitFails(c) ==
  /\ c.stage \in {"error", "ftp"} \/ (c.stage = "wait" /\ ready = "failed")
  /\ LET ids == Range(c.ids) \cap Open \cap DOMAIN view
         ends == [j \in ids |-> IF j \in cancelReq THEN "cancelled" ELSE "failed"]
     IN  /\ Finish(ends)
         /\ IF c.stage = "ftp"
            THEN view' = Restrict(view, DOMAIN view \ ids) /\ UNCHANGED notified
            ELSE Show(ends) /\ notified' = notified \cup ids
  /\ calls' = calls \ {c}
  /\ UNCHANGED <<queueVars, outbox, cancels, query, ready, revision,
                 submitted, accepted, cancelReq>>

\* cancelTransfer on a shown item, or through a handle or an abort signal.
CancelTransfer(j) ==
  /\ j \in Open \/ (j \in DOMAIN view /\ view[j] \notin Outcomes)
  /\ cancelReq' = cancelReq \cup ({j} \cap Open)
  /\ cancels' = IF j \in Open \ accepted THEN cancels ELSE cancels \cup {j}
  /\ UNCHANGED <<queueVars, outbox, calls, query, ready, shownVars,
                 submitted, accepted, promise>>

\* The job events of a critical section arrive on the channel of the batch; an
\* event of a settled record is ignored.
JobEvents(m) ==
  /\ m \in outbox /\ m.event # {}
  /\ outbox' = (outbox \ {m}) \cup {[m EXCEPT !.event = {}]}
  /\ Accepting(m.event)
  /\ Finish(Restrict(m.items, {j \in m.event : m.items[j] \in Outcomes}))
  /\ UNCHANGED <<queueVars, calls, query, ready,
                 revision, view, notified, submitted, cancelReq>>

-----------------------------------------------------------------------------
Next ==
  \/ Begin \/ ClearCompleted
  \/ \E j \in Jobs, o \in Outcomes : End(j, o)
  \/ \E j \in Jobs : BackendCancels(j) \/ CancelArrives(j) \/ NativeEnqueue(j)
  \/ \E c \in calls : EnqueueArrives(c) \/ EnqueueRefused(c)
  \/ \E m \in outbox : Snapshot(m) \/ JobEvents(m)
  \/ Initialize \/ Listens \/ AnswerQuery \/ Bootstrap \/ InitializeFails
  \/ \E n \in 1..MaxBatch : \E ids \in [1..n -> Jobs] : SubmitBatch(ids)
  \/ \E c \in calls : Invoke(c) \/ EnqueueReturns(c) \/ SubmitFails(c)
  \/ \E j \in Jobs : CancelTransfer(j)

Spec == Init /\ [][Next]_vars

(***************************************************************************)
(* Threads finish sending, the webview's event loop handles what arrived,  *)
(* IPC calls are answered, and the queue keeps serving (AcceptedSettles of *)
(* TransferQueue).  initialize() is answered one way or the other.         *)
(***************************************************************************)
Fairness ==
  /\ WF_vars(Begin) /\ WF_vars(\E j \in Jobs, o \in Outcomes : End(j, o))
  /\ WF_vars(\E m \in outbox : Snapshot(m) \/ JobEvents(m))
  /\ WF_vars(Listens) /\ WF_vars(AnswerQuery) /\ WF_vars(Bootstrap)
  /\ WF_vars(\E c \in calls : EnqueueArrives(c) \/ EnqueueRefused(c))
  /\ WF_vars(\E c \in calls : Invoke(c) \/ SubmitFails(c) \/ EnqueueReturns(c))
  /\ \A j \in Jobs : WF_vars(CancelArrives(j))

FairSpec == Spec /\ Fairness

-----------------------------------------------------------------------------
(* Invariants *)

\* What a done promise resolves to is the truth: the outcome the queue gave the
\* job, or, for a job the queue never accepted, a failure or cancellation that
\* stays true because no call that could still submit it is on its way.
PromiseIsTrue ==
  \A j \in Jobs : promise[j] # NONE =>
    \/ promise[j] = outcome[j]
    \/ /\ promise[j] # "completed" /\ j \in Queue!Unknown
       /\ \A c \in calls : c.stage \in {"wait", "sent"} => j \notin Range(c.ids)

\* A cancel asked for before the queue accepted the job is not lost: once the
\* job is accepted here, the queue has been told or is being told.
CancelNotLost ==
  \A j \in Open \cap cancelReq \cap accepted :
    j \in cancels \cup stopping \/ outcome[j] # NONE

\* A submission that no snapshot has shown yet is still on the list, although
\* every snapshot replaces the list, and so is each open job of a call that may
\* still fail: the code reads the item when the call is refused or cancelled, and
\* would leave the promise open without it.
SubmittedShown ==
  /\ pending \subseteq DOMAIN view
  /\ \A c \in calls : c.stage # "ok" => Range(c.ids) \cap Open \subseteq DOMAIN view

\* The webview's records hold together: a cancel that was asked for is not lost,
\* and an item that may still fail stays on the list for its failure to be shown.
RecordsAgree == TypeOK /\ CancelNotLost /\ SubmittedShown

Quiet ==
  /\ ready = "yes" /\ calls = {} /\ cancels = {} /\ outbox = {}

\* When everything that was sent has arrived, every item of the queue is shown
\* with its status, whatever order the snapshots and the bootstrap came in.
ViewCatchesUp ==
  Quiet => /\ revision = changes \/ changes = 0
           /\ \A j \in present : j \in DOMAIN view /\ view[j] = Status(j)

-----------------------------------------------------------------------------
(* Action properties *)

\* A status that is shown never goes back: no late snapshot or bootstrap answer
\* turns a finished transfer into a running one, or a running one into a queued.
Rank(st) == CASE st = "queued" -> 0 [] st = "transferring" -> 1
              [] st = "cancelling" -> 2 [] OTHER -> 3

NoRollback ==
  [][\A j \in DOMAIN view \cap DOMAIN view' :
       view'[j] # view[j] => Rank(view[j]) < Rank(view'[j])]_vars

-----------------------------------------------------------------------------
(* Liveness, under FairSpec *)

\* Every submission's promise resolves, also when a part of its batch was
\* cancelled, the call is refused or initialization fails.
SubmissionsSettle == \A j \in Jobs : j \in submitted ~> promise[j] # NONE

=============================================================================
