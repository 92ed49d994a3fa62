---------------------------- MODULE MonitorPanels ----------------------------
(***************************************************************************)
(* The panels of the system monitor, which follow the active connection.   *)
(* A panel's effect asks once, with the retries of async-retry.ts, and     *)
(* then at intervals; when the connection changes or the panel is hidden   *)
(* the effect's cleanup marks its requests cancelled and a new run begins. *)
(* Panels share nothing, so one is followed at a time:                     *)
(*   "values"     overview, disk: the last answer replaces what is shown   *)
(*   "trend"      latency, network usage: an answer adds a point           *)
(*   "processes"  the process list, with the command that ends a process   *)
(*   "gpu"        detection, and statistics once a GPU was found           *)
(* A value is abstracted to the connection it was measured on.             *)
(***************************************************************************)
EXTENDS Naturals, FiniteSets

CONSTANTS
  Panels,       \* the kinds of panel that are followed
  Conns,        \* the connections that become active
  MaxRuns,      \* bound: runs of the effect
  Retries,      \* maxRetries: 3 of the GPU detection and the disks, 2 of the others
  MaxFailures,  \* bound: requests that fail
  MaxKills,     \* bound: processes ended
  None

VARIABLES
  panel,      \* which panel this is
  conn, active,
  run,        \* the number of the effect's run; requests of earlier runs are cancelled
  requests,   \* at work: [kind, of, run, left, asleep]
  shown,      \* the connection of the newest value, None if nothing is shown
  trend,      \* the connections of the points of the chart
  gpu,        \* the verdict of the detection: None or [of, found]
  target,     \* processToKill: the connection whose list it was picked from, or None
  kills, failures

vars == <<panel, conn, active, run, requests, shown, trend, gpu, target, kills, failures>>
bounds == <<kills, failures>>

Request(kind, of, r, left) == [kind |-> kind, of |-> of, run |-> r, left |-> left, asleep |-> FALSE]
Cancelled(q) == q.run # run \/ ~active
Found == gpu # None /\ gpu.found

(***************************************************************************)
(* The effects                                                             *)
(***************************************************************************)
Start ==
  /\ conn = CHOOSE c \in Conns : TRUE
  /\ active = TRUE /\ run = 1
  /\ requests = {Request("first", conn, 1, Retries)}
  /\ shown = None /\ trend = {} /\ gpu = None /\ target = None
  /\ kills = 0 /\ failures = 0
Init == panel \in Panels /\ Start

(* The detection forgets what it knew; the other panels keep what they show. *)
Forget ==
  IF panel = "gpu" THEN gpu' = None /\ shown' = None /\ trend' = {}
  ELSE UNCHANGED <<gpu, shown, trend>>
Rerun ==
  /\ run < MaxRuns /\ run' = run + 1
  /\ IF active'
     THEN Forget /\ requests' = requests \cup {Request("first", conn', run + 1, Retries)}
     ELSE UNCHANGED <<gpu, shown, trend, requests>>
  /\ UNCHANGED <<panel, target, bounds>>
Switch == conn' \in Conns \ {conn} /\ UNCHANGED active /\ Rerun
Show == active' = ~active /\ UNCHANGED conn /\ Rerun
(* Sorting the processes and choosing an interface start the effect anew. *)
Configure == panel \in {"processes", "trend"} /\ active /\ UNCHANGED <<conn, active>> /\ Rerun
Tick ==
  /\ active /\ (panel = "gpu" => Found)
  /\ requests' = requests \cup {Request("tick", conn, run, 0)}
  /\ UNCHANGED <<panel, conn, active, run, shown, trend, gpu, target, bounds>>

(***************************************************************************)
(* Answers                                                                 *)
(***************************************************************************)
Shows(q) ==
  /\ shown' = q.of
  /\ trend' = IF panel \in {"trend", "gpu"} THEN trend \cup {q.of} ELSE trend
Detects(q) == gpu' \in {[of |-> q.of, found |-> b] : b \in BOOLEAN} /\ UNCHANGED <<shown, trend>>
Ignored == UNCHANGED <<shown, trend, gpu>>
(* Statistics are also cancelled when the verdict they rest on goes. *)
Answer_Uncancelled(q) ==
  /\ q.kind \in {"first", "tick"} /\ ~q.asleep
  /\ requests' = requests \ {q}
  /\ IF panel = "gpu" /\ q.kind = "first" THEN Detects(q) ELSE Shows(q) /\ UNCHANGED gpu
  /\ UNCHANGED <<panel, conn, active, run, target, bounds>>
Answer(q) ==
  /\ q.kind \in {"first", "tick"} /\ ~q.asleep
  /\ requests' = requests \ {q}
  /\ IF Cancelled(q) \/ (panel = "gpu" /\ q.kind = "tick" /\ ~Found) THEN Ignored
     ELSE IF panel = "gpu" /\ q.kind = "first" THEN Detects(q)
     ELSE Shows(q) /\ UNCHANGED gpu
  /\ UNCHANGED <<panel, conn, active, run, target, bounds>>
(* withRetry sleeps after a failure, unless it was the last attempt: then the error  *)
(* is thrown without a look at the cancellation, and a failed detection is a verdict.*)
Fail(q) ==
  /\ q.kind \in {"first", "tick"} /\ ~q.asleep
  /\ failures < MaxFailures /\ failures' = failures + 1
  /\ requests' = (requests \ {q}) \cup (IF q.left = 0 THEN {} ELSE {[q EXCEPT !.asleep = TRUE]})
  /\ gpu' = IF panel = "gpu" /\ q.kind = "first" /\ q.left = 0 THEN [of |-> q.of, found |-> FALSE] ELSE gpu
  /\ UNCHANGED <<panel, conn, active, run, shown, trend, target, kills>>
Wake(q) ==
  /\ q.asleep
  /\ requests' = (requests \ {q}) \cup
       (IF Cancelled(q) THEN {} ELSE {[q EXCEPT !.asleep = FALSE, !.left = @ - 1]})
  /\ UNCHANGED <<panel, conn, active, run, shown, trend, gpu, target, bounds>>

(***************************************************************************)
(* Ending a process of the list                                            *)
(***************************************************************************)
Pick ==
  /\ panel = "processes" /\ shown # None /\ target = None /\ target' = shown
  /\ UNCHANGED <<panel, conn, active, run, requests, shown, trend, gpu, bounds>>
Dismiss ==
  /\ target # None /\ target' = None
  /\ UNCHANGED <<panel, conn, active, run, requests, shown, trend, gpu, bounds>>
Kill ==
  /\ target # None /\ kills < MaxKills /\ kills' = kills + 1 /\ target' = None
  /\ requests' = requests \cup {Request("kill", conn, run, 0)}
  /\ UNCHANGED <<panel, conn, active, run, shown, trend, gpu, failures>>
(* A success asks for the list again, and nothing cancels that request. *)
Killed(q, ok) ==
  /\ q.kind = "kill" /\ target' = None
  /\ requests' = (requests \ {q}) \cup (IF ok THEN {[q EXCEPT !.kind = "refresh"]} ELSE {})
  /\ UNCHANGED <<panel, conn, active, run, shown, trend, gpu, bounds>>
Refreshed(q, ok) ==
  /\ q.kind = "refresh" /\ requests' = requests \ {q}
  /\ IF ok THEN Shows(q) /\ UNCHANGED gpu ELSE Ignored
  /\ UNCHANGED <<panel, conn, active, run, target, bounds>>

Ends(q) == Answer(q) \/ Wake(q) \/ \E ok \in BOOLEAN : Killed(q, ok) \/ Refreshed(q, ok)
Next ==
  \/ Switch \/ Show \/ Configure \/ Tick \/ Pick \/ Dismiss \/ Kill
  \/ \E q \in requests : Ends(q) \/ Fail(q)
Spec == Init /\ [][Next]_vars
(* Intervals fire, and the requests of the present run settle. *)
Settles(kind) == \E q \in requests : q.kind = kind /\ q.run = run /\ Ends(q)
Fairness == WF_vars(Tick) /\ WF_vars(Settles("first")) /\ WF_vars(Settles("tick"))
FairSpec == Spec /\ Fairness

Kinds == [kind : {"first", "tick", "kill", "refresh"}, of : Conns, run : 1 .. MaxRuns, left : 0 .. Retries, asleep : BOOLEAN]
TypeOK ==
  /\ conn \in Conns /\ active \in BOOLEAN /\ run \in 1 .. MaxRuns /\ requests \subseteq Kinds
  /\ shown \in Conns \cup {None} /\ trend \subseteq Conns /\ target \in Conns \cup {None}
  /\ gpu \in [of : Conns, found : BOOLEAN] \cup {None}
  /\ kills \in 0 .. MaxKills /\ failures \in 0 .. MaxFailures
(* A visible GPU panel that has found GPUs, or charts them, shows those of the active *)
(* connection: neither a late answer nor the points of the last connection get in.    *)
GpuIsOfConnection ==
  panel = "gpu" /\ active => /\ Found => gpu.of = conn
                             /\ shown \in {conn, None} /\ trend \subseteq {conn}
(* Once the connection stays and requests stop failing, a visible panel ends up with  *)
(* values of its connection, however late the answers of others come; and the         *)
(* detection ends in a verdict.                                                       *)
CaughtUp == ~active \/ IF panel = "gpu" THEN gpu # None ELSE shown = conn

(* Types and invariants together. *)
Inv == TypeOK /\ GpuIsOfConnection
=============================================================================
