---------------------------- MODULE FtpWorkspace ----------------------------
(***************************************************************************)
(* The two-panel view of a file connection (file-browser-view.tsx), its    *)
(* panels (file-panel.tsx), and the transfer queue it runs itself when the *)
(* protocol is FTP (transfer-queue-reducer.ts).                            *)
(*                                                                         *)
(* A dispatch changes `items` at once, in the order of the dispatches; the *)
(* effects of the render it causes, which look at the queue, are a step of *)
(* their own, so callbacks run between the two and see the queue that the  *)
(* last effects saw.                                                       *)
(***************************************************************************)
EXTENDS Naturals, Sequences

CONSTANTS
  Panels,     \* the panels that are followed, of "local" and "remote"
  MaxItems,   \* bound: transfers ever queued in one view
  MaxTries,   \* bound: runs of one transfer
  MaxLoads,   \* bound: loads a panel has in flight when the user adds one, and one refresh more
  None

Paths == {"/", "/dir"}
Direction == [local |-> "upload", remote |-> "download"]   \* of what leaves a panel

VARIABLES
  view,      \* "gone", "offline" (the overlay replaces the panels) or "shown"
  path, shown, selected, loading,   \* of each panel: currentPath, the directory of its
                                    \* entries, something is selected, the spinner
  loads,     \* panel -> path -> requests in flight
  op,        \* an operation or an OS drop in flight: the panel and path it began with
  items,     \* the queue: sequence of items
  active,    \* the runs that isActive accepts, by the queue of the last effects
  due,       \* a render has effects to run
  busy,      \* processTransferRef
  flights    \* transfers this view has started in the backend: [id, try]

panelVars == <<path, shown, selected, loading, loads>>
queueVars == <<items, active, due, busy, flights>>
vars == <<view, panelVars, op, queueVars>>

NewPanels ==
  /\ path' = [p \in Panels |-> "/"] /\ shown' = [p \in Panels |-> None]
  /\ selected' = [p \in Panels |-> FALSE] /\ loading' = [p \in Panels |-> TRUE]
  /\ loads' = [p \in Panels |-> [at \in Paths |-> IF at = "/" THEN 1 ELSE 0]]

Init ==
  /\ view = "shown"
  /\ path = [p \in Panels |-> "/"] /\ shown = [p \in Panels |-> None]
  /\ selected = [p \in Panels |-> FALSE] /\ loading = [p \in Panels |-> TRUE]
  /\ loads = [p \in Panels |-> [at \in Paths |-> IF at = "/" THEN 1 ELSE 0]]
  /\ op = None /\ items = <<>> /\ active = {} /\ due = FALSE /\ busy = FALSE /\ flights = {}

(***************************************************************************)
(* The panels                                                              *)
(***************************************************************************)
(* loadDirectory: nothing numbers the requests of a panel. *)
Load(p, at) ==
  /\ loads' = [loads EXCEPT ![p][at] = @ + 1] /\ loading' = [loading EXCEPT ![p] = TRUE]
  /\ UNCHANGED <<path, shown, selected>>
InFlight(p) == loads[p]["/"] + loads[p]["/dir"]

Navigate(p, at) ==   \* a row, a breadcrumb, up, home, or refresh
  /\ view = "shown" /\ InFlight(p) < MaxLoads /\ Load(p, at) /\ UNCHANGED <<view, op, queueVars>>
Answered(p, at) == loads[p][at] > 0 /\ loads' = [loads EXCEPT ![p][at] = @ - 1]
Loaded(p, at) ==
  /\ Answered(p, at) /\ loading' = [loading EXCEPT ![p] = FALSE]
  /\ path' = [path EXCEPT ![p] = at] /\ shown' = [shown EXCEPT ![p] = at]
  /\ selected' = [selected EXCEPT ![p] = FALSE]
  /\ UNCHANGED <<view, op, queueVars>>
LoadFails(p, at) ==
  /\ Answered(p, at) /\ loading' = [loading EXCEPT ![p] = FALSE]
  /\ UNCHANGED <<path, shown, selected, view, op, queueVars>>

Select(p) ==
  /\ view = "shown" /\ shown[p] # None
  /\ \E some \in BOOLEAN : selected' = [selected EXCEPT ![p] = some]
  /\ UNCHANGED <<view, path, shown, loading, loads, op, queueVars>>

(* Deleting, renaming and creating; a drop of the OS onto the remote panel, which is *)
(* planned, and its directories created, before anything is queued.                 *)
Start(p) ==
  /\ view = "shown" /\ op = None /\ op' = [panel |-> p, at |-> path[p]]
  /\ UNCHANGED <<view, panelVars, queueVars>>
OpDone ==
  /\ op # None /\ view = "shown" /\ op' = None /\ InFlight(op.panel) <= MaxLoads /\ Load(op.panel, op.at) /\ UNCHANGED <<view, queueVars>>
OpFails == op # None /\ op' = None /\ UNCHANGED <<view, panelVars, queueVars>>

(***************************************************************************)
(* The queue                                                               *)
(***************************************************************************)
Item(dir) == [dir |-> dir, status |-> "queued", try |-> 1, by |-> None]
Gone == "cleared"   \* the status that stands for an item taken off the list
Dispatched(q) == items' = q /\ due' = (due \/ q # items)

Enqueue(dir) == Len(items) < MaxItems /\ Dispatched(Append(items, Item(dir)))
Transfer(p) ==   \* the buttons, F5, and a drag to the other panel
  /\ view = "shown" /\ selected[p] /\ Enqueue(Direction[p])
  /\ UNCHANGED <<view, panelVars, op, active, busy, flights>>
Dropped ==       \* what the OS dropped is planned
  /\ op # None /\ op.panel = "remote" /\ op' = None /\ Enqueue("upload")
  /\ UNCHANGED <<view, panelVars, active, busy, flights>>

Status(i, s) == [items EXCEPT ![i].status = s]
Cancel(i) ==
  /\ view = "shown" /\ items[i].status \in {"queued", "transferring"} /\ Dispatched(Status(i, "cancelled"))
  /\ UNCHANGED <<view, panelVars, op, active, busy, flights>>
Retry(i) ==
  /\ view = "shown" /\ items[i].status \in {"failed", "cancelled"} /\ items[i].try < MaxTries
  /\ Dispatched([items EXCEPT ![i] = [@ EXCEPT !.status = "queued", !.try = items[i].try + 1, !.by = None]])
  /\ UNCHANGED <<view, panelVars, op, active, busy, flights>>
Clear ==
  /\ view = "shown"
  /\ Dispatched([i \in DOMAIN items |-> IF items[i].status \in {"completed", "failed", "cancelled"}
                                       THEN [items[i] EXCEPT !.status = Gone, !.by = None] ELSE items[i]])
  /\ UNCHANGED <<view, panelVars, op, active, busy, flights>>

(* The effects of a render: the first queued item starts, unless one is running. *)
Ready(i) == /\ items[i].status = "queued" /\ \A j \in DOMAIN items : items[j].status # "transferring"
            /\ \A j \in 1..i - 1 : items[j].status # "queued"
Run(i) == [id |-> i, try |-> items[i].try]
(* isActive accepts a run while latestTransfers, the queue these effects see, shows *)
(* its item running; at the start it accepts it for the very object it started.     *)
Running == {f \in flights : items[f.id].status = "transferring"}
Effects ==
  /\ due
  /\ IF ~busy /\ \E i \in DOMAIN items : Ready(i)
     THEN LET i == CHOOSE j \in DOMAIN items : Ready(j)
          IN /\ items' = Status(i, "transferring") /\ due' = TRUE /\ busy' = TRUE
             /\ flights' = flights \cup {Run(i)} /\ active' = Running \cup {Run(i)}
     ELSE due' = FALSE /\ active' = Running /\ UNCHANGED <<items, busy, flights>>
  /\ UNCHANGED <<view, panelVars, op>>

(* The reducer accepts an outcome for a running item only. *)
Outcome_Unguarded(f, s) == [items EXCEPT ![f.id] = [@ EXCEPT !.status = s, !.by = f.try]]
Outcome(f, s) ==
  IF items[f.id].status = "transferring"
  THEN [items EXCEPT ![f.id] = [@ EXCEPT !.status = s, !.by = f.try]] ELSE items
Landed_NoRevision(f, q) ==
  /\ flights' = flights \ {f} /\ active' = active \ {f} /\ busy' = FALSE /\ items' = q /\ due' = (due \/ q # items) /\ UNCHANGED <<view, op>>
Landed(f, q) ==   \* with the finally block, whose revision makes the effects run again
  flights' = flights \ {f} /\ active' = active \ {f} /\ busy' = FALSE /\ items' = q /\ due' = TRUE /\ UNCHANGED <<view, op>>

Completes(f) ==
  /\ f \in active /\ Landed(f, Outcome(f, "completed"))
  /\ LET p == IF items[f.id].dir = "upload" THEN "remote" ELSE "local"
     IN IF view = "shown" /\ p \in Panels THEN InFlight(p) <= MaxLoads /\ Load(p, path[p])
                                         ELSE UNCHANGED panelVars
Fails(f) == f \in active /\ Landed(f, Outcome(f, "failed")) /\ UNCHANGED panelVars
Ignored(f) == f \notin active /\ Landed(f, items) /\ UNCHANGED panelVars

(***************************************************************************)
(* The connection                                                          *)
(***************************************************************************)
(* A disconnected tab keeps the view and its queue, without panels. *)
Disconnect ==
  /\ view = "shown" /\ view' = "offline"
  /\ loads' = [p \in Panels |-> [at \in Paths |-> 0]] /\ loading' = [p \in Panels |-> FALSE]
  /\ shown' = [p \in Panels |-> None] /\ path' = [p \in Panels |-> "/"]
  /\ selected' = [p \in Panels |-> FALSE] /\ UNCHANGED <<op, queueVars>>
(* Connecting replaces the view: its state is lost, and what its transfers answer  *)
(* reaches nobody.                                                                 *)
Connecting ==
  /\ view = "offline" /\ view' = "gone" /\ op' = None
  /\ items' = <<>> /\ active' = {} /\ due' = FALSE /\ busy' = FALSE /\ flights' = {}
  /\ UNCHANGED panelVars
Connected == view = "gone" /\ view' = "shown" /\ NewPanels /\ UNCHANGED <<op, queueVars>>

Panel ==
  \E p \in Panels :
    \/ Select(p) \/ Start(p) \/ Transfer(p)
    \/ \E at \in Paths : Navigate(p, at) \/ Loaded(p, at) \/ LoadFails(p, at)
Queue ==
  \/ \E i \in DOMAIN items : Cancel(i) \/ Retry(i)
  \/ \E f \in flights : Completes(f) \/ Fails(f) \/ Ignored(f)
  \/ Clear \/ Effects
Next == Panel \/ Queue \/ OpDone \/ OpFails \/ Dropped \/ Disconnect \/ Connecting \/ Connected

(* React runs the effects of every render, and the backend answers every command. *)
Ends == \E f \in flights : Completes(f) \/ Fails(f) \/ Ignored(f)
Fairness == WF_vars(Effects) /\ WF_vars(Ends)
Spec == Init /\ [][Next]_vars /\ Fairness

(***************************************************************************)
(* Properties                                                              *)
(***************************************************************************)
Statuses == {"queued", "transferring", "completed", "failed", "cancelled", Gone}
Items == [dir : {"upload", "download"}, status : Statuses, try : 1..MaxTries, by : {None} \cup 1..MaxTries]
PanelsOK ==
  /\ view \in {"gone", "offline", "shown"} /\ path \in [Panels -> Paths]
  /\ shown \in [Panels -> Paths \cup {None}] /\ selected \in [Panels -> BOOLEAN]
  /\ loading \in [Panels -> BOOLEAN] /\ loads \in [Panels -> [Paths -> Nat]]
  /\ op \in {None} \cup [panel : Panels, at : Paths]
QueueOK ==
  /\ items \in Seq(Items) /\ Len(items) <= MaxItems /\ due \in BOOLEAN /\ busy \in BOOLEAN
  /\ flights \subseteq [id : DOMAIN items, try : 1..MaxTries] /\ active \subseteq flights
TypeOK == PanelsOK /\ QueueOK

(* The names on show, which every operation joins to currentPath, are the names of  *)
(* that very directory, whatever order the loads answer in.                         *)
NamesBelongToPath == \A p \in Panels : shown[p] \in {None, path[p]}

(* A selection belongs to the listing it was made in.                               *)
SelectionBelongsToListing ==
  \A p \in Panels : selected[p] /\ selected'[p] => path'[p] = path[p]

(* A spinner turns only while a request can still stop it. *)
SpinnerCanStop == \A p \in Panels : loading[p] => InFlight(p) > 0

(* One transfer of the view runs at a time, also when a cancelled one is still at   *)
(* work in the backend; processTransferRef is set as long as it is.                 *)
OneAtATime == (\A f, g \in flights : f = g) /\ (flights # {} => busy)

(* A row shown running has its own run in the backend, whose outcome will be        *)
(* accepted, and a completed row was completed by its last run: a cancelled run     *)
(* that ends late completes nothing.                                                *)
OutcomeIsOwnRun ==
  \A i \in DOMAIN items :
    /\ items[i].status = "transferring" => Run(i) \in active
    /\ items[i].status \in {"completed", "failed"} => items[i].by = items[i].try

(* The queue never stands still: a queued transfer is run, cancelled or lost with   *)
(* the view.                                                                        *)
Waiting(i) == i \in DOMAIN items /\ items[i].status = "queued"

(* Types and invariants together. *)
Inv == TypeOK /\ NamesBelongToPath /\ SpinnerCanStop /\ OneAtATime /\ OutcomeIsOwnRun
=============================================================================
