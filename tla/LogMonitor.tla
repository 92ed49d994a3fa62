----------------------------- MODULE LogMonitor -----------------------------
(***************************************************************************)
(* The log view of log-monitor.tsx, which follows the active connection:   *)
(* it discovers the log sources of the host, shows the end of the selected *)
(* one, and while auto refresh is on reads it again at intervals.          *)
(* Nothing numbers or cancels the reads, so an answer is shown whichever   *)
(* connection and source it was asked for. A log is abstracted to the      *)
(* connection and the source it was read from. Filters and scrolling only  *)
(* select from the lines shown and are left out.                           *)
(***************************************************************************)
EXTENDS Naturals

CONSTANTS
  Conns,        \* the SSH connections that become active
  Discoverable, \* the sources a host may report
  Custom,       \* "custom:" paths, typed or sent from the file browser
  MaxMoves,     \* bound: changes of the connection, the selection and auto refresh
  MaxFailures,  \* bound: reads and discoveries that fail or find nothing
  None
Ids == Discoverable \cup Custom

VARIABLES
  conn, sources, selected, auto,
  lines,        \* None, or [of, id]: where the lines were read
  loading, discovering,
  calls,        \* reads under way: [kind, of, id]
  moves, failures
vars == <<conn, sources, selected, auto, lines, loading, discovering, calls, moves, failures>>

Call(kind, of, id) == [kind |-> kind, of |-> of, id |-> id]
Init ==
  /\ conn = CHOOSE c \in Conns : TRUE
  /\ sources = {} /\ selected = None /\ auto = FALSE /\ lines = None
  /\ loading = FALSE /\ discovering = TRUE /\ calls = {Call("discover", conn, None)}
  /\ moves = 0 /\ failures = 0

(* An empty log counts as a failure. *)
Fails(ok) == failures' = failures + (IF ok THEN 0 ELSE 1) /\ failures' <= MaxFailures
Moves == moves < MaxMoves /\ moves' = moves + 1

(***************************************************************************)
(* Sources                                                                 *)
(***************************************************************************)
Discover(c) ==
  /\ discovering' = TRUE
  /\ calls' = calls \cup {Call("discover", c, None)}
(* The answer replaces every source, the custom ones too; the selection stays. *)
Discovered(q, found, ok) ==
  /\ q.kind = "discover" /\ Fails(ok)
  /\ calls' = calls \ {q} /\ discovering' = FALSE
  /\ sources' = IF ok THEN found ELSE sources
  /\ UNCHANGED <<conn, selected, auto, lines, loading, moves>>
Rediscover == ~discovering /\ Discover(conn) /\ UNCHANGED <<conn, sources, selected, auto, lines, loading, moves, failures>>
(* The lines and the selection of the last connection stay, and nothing is read. *)
Switch ==
  /\ Moves /\ conn' \in Conns \ {conn} /\ Discover(conn')
  /\ UNCHANGED <<sources, selected, auto, lines, loading, failures>>

(***************************************************************************)
(* The selection: a new one empties the view and reads                     *)
(***************************************************************************)
Selecting(id) ==
  /\ selected' = id
  /\ IF id = selected THEN UNCHANGED <<lines, loading, calls>>
     ELSE lines' = None /\ loading' = TRUE /\ calls' = calls \cup {Call("load", conn, id)}
Select(id) ==
  /\ Moves /\ id \in sources /\ Selecting(id) /\ auto' = FALSE
  /\ UNCHANGED <<conn, sources, discovering, failures>>
AddPath(id) ==
  /\ Moves /\ Selecting(id) /\ sources' = sources \cup {id}
  /\ UNCHANGED <<conn, auto, discovering, failures>>

(***************************************************************************)
(* Reading                                                                 *)
(***************************************************************************)
ToggleAuto == Moves /\ auto' = ~auto /\ UNCHANGED <<conn, sources, selected, lines, loading, discovering, calls, failures>>
Refresh ==
  /\ selected # None /\ ~loading /\ loading' = TRUE
  /\ calls' = calls \cup {Call("load", conn, selected)}
  /\ UNCHANGED <<conn, sources, selected, auto, lines, discovering, moves, failures>>
Tick ==
  /\ auto /\ selected # None
  /\ calls' = calls \cup {Call("auto", conn, selected)}
  /\ UNCHANGED <<conn, sources, selected, auto, lines, loading, discovering, moves, failures>>
Loaded(q, ok) ==
  /\ q.kind # "discover" /\ Fails(ok)
  /\ calls' = calls \ {q}
  /\ lines' = IF ok THEN [of |-> q.of, id |-> q.id] ELSE lines
  /\ loading' = (loading /\ q.kind = "auto")
  /\ UNCHANGED <<conn, sources, selected, auto, discovering, moves>>

Answers(q) == \E ok \in BOOLEAN : Loaded(q, ok) \/ \E found \in SUBSET Discoverable : Discovered(q, found, ok)
Next ==
  \/ Rediscover \/ Switch \/ ToggleAuto \/ Refresh \/ Tick
  \/ \E id \in Ids : Select(id)
  \/ \E id \in Custom : AddPath(id)
  \/ \E q \in calls : Answers(q)
Spec == Init /\ [][Next]_vars

(* The interval fires, and every read is answered: read_log has a timeout. *)
AnswersTo(c, id) == \E q \in calls : q.of = c /\ q.id = id /\ Answers(q)
Fairness == WF_vars(Tick) /\ \A c \in Conns, id \in Ids : WF_vars(AnswersTo(c, id))
FairSpec == Spec /\ Fairness

TypeOK ==
  /\ conn \in Conns /\ sources \subseteq Ids /\ selected \in Ids \cup {None}
  /\ {auto, loading, discovering} \subseteq BOOLEAN
  /\ lines \in [of : Conns, id : Ids] \cup {None}
  /\ calls \subseteq [kind : {"discover", "load", "auto"}, of : Conns, id : Ids \cup {None}]
(* Late answers of other sources and connections are shown, but with auto refresh on  *)
(* the view comes to show the selected source of the active connection and stays so.  *)
CaughtUp == ~auto \/ selected = None \/ lines = [of |-> conn, id |-> selected]
(* The spinner of a read asked for by hand turns only while one is under way, whatever *)
(* answers overlap it.                                                                 *)
SpinnerHasRead == loading => \E q \in calls : q.kind = "load"

(* Types and invariants together. *)
Inv == TypeOK /\ SpinnerHasRead
=============================================================================
