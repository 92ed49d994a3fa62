------------------------------ MODULE MCPanels ------------------------------
(***************************************************************************)
(* What works on a session that is up, on small instances: the monitors,   *)
(* the log viewer, the port-forward dialog, the file editor and directory  *)
(* synchronization. The models share no state, so they are checked one     *)
(* beside the other: every behaviour is one of a single part, whose        *)
(* variables are v1, v2, ...                                               *)
(***************************************************************************)
EXTENDS Naturals, Sequences, FiniteSets

CONSTANTS
  Conns, None,
  Panels, MaxEffects, Retries, MaxLost, MaxKills,   \* the monitors, and their bounds
  Discoverable, Custom, MaxChoices,                 \* the log viewer
  Marks, MaxSessions, MaxMoves,                     \* the port forwards
  Empty, MaxEdits, MaxSaves, MaxLoads,              \* the file editor
  Dialogs, Configs, Trees, Dir, MaxScopes, MaxRuns, \* directory synchronization
  MaxFailures

ASSUME PanelsConstants ==
  /\ Conns # {} /\ None \notin [of : Conns, found : BOOLEAN]
  /\ {MaxEffects, MaxLoads} \subseteq Nat \ {0}
  /\ {Retries, MaxLost, MaxKills, MaxSessions, MaxEdits, MaxSaves, MaxScopes, MaxFailures} \subseteq Nat
  /\ Empty \notin Nat
  /\ Dialogs \subseteq {"sync", "directory"}
  /\ Configs \subseteq [dir : {"up", "down"}, criteria : {"size", "modified", "size+modified"},
                        orphans : BOOLEAN, recursive : BOOLEAN]
  /\ None # Dir /\ None \notin {"upload", "download", "skip", "conflict", "create-dir", "delete-remote", "clean"}
  /\ None \notin [config : Configs, alone : BOOLEAN, all : BOOLEAN]
  /\ \A s \in SUBSET {"d", "d/f", "g"} :
       None \notin [s -> [action : {"upload", "download", "skip", "conflict", "create-dir", "delete-remote"},
                          checked : BOOLEAN]]
  /\ {None, Dir} \cap [size : Nat, time : {"first", "up", "down"}] = {}
  /\ Trees \subseteq [{"local", "remote"} ->
       [{"d", "d/f", "g"} -> {None, Dir} \cup [size : Nat, time : {"first", "up", "down"}]]]

(* On the small instance: three configurations, and nine pairs of trees with a directory *)
(* to create, one to delete, a file where a directory should be, files that differ, and  *)
(* files that only one side has.                                                         *)
SomeConfigs ==
  {[dir |-> "up", criteria |-> "size+modified", orphans |-> TRUE, recursive |-> TRUE],
   [dir |-> "down", criteria |-> "size", orphans |-> TRUE, recursive |-> TRUE],
   [dir |-> "up", criteria |-> "size", orphans |-> FALSE, recursive |-> FALSE]}
File(n) == [size |-> n, time |-> "first"]
Tree(d, f, g) == [i \in {"d", "d/f", "g"} |-> CASE i = "d" -> d [] i = "d/f" -> f [] OTHER -> g]
SomeTrees ==
  {[side \in {"local", "remote"} |-> IF side = "local" THEN l ELSE r] :
     l \in {Tree(Dir, File(1), File(1)), Tree(None, None, File(1)), Tree(Dir, File(2), None)},
     r \in {Tree(None, None, File(2)), Tree(Dir, File(1), None), Tree(File(1), None, File(1))}}

VARIABLES
  part,  \* which of them runs
  v1, v2, v3, v4, v5, v6, v7, v8, v9, v10, v11, v12, v13, v14, v15, v16, v17
vars == <<part, v1, v2, v3, v4, v5, v6, v7, v8, v9, v10, v11, v12, v13, v14, v15, v16, v17>>

Monitor == INSTANCE MonitorPanels WITH
  MaxRuns <- MaxEffects, MaxFailures <- MaxLost, panel <- v1, conn <- v2, active <- v3, run <- v4, requests <- v5,
  shown <- v6, trend <- v7, gpu <- v8, target <- v9, kills <- v10, failures <- v11
Log == INSTANCE LogMonitor WITH
  MaxMoves <- MaxChoices, conn <- v1,
  sources <- v2, selected <- v3, auto <- v4, lines <- v5, loading <- v6, discovering <- v7,
  calls <- v8, moves <- v9, failures <- v10
Forwards == INSTANCE PortForwards WITH
  live <- v1, sessions <- v2, forwards <- v3, starts <- v4, auto <- v5, marks <- v6, conn <- v7,
  open <- v8, shown <- v9, editing <- v10, listings <- v11, moves <- v12, failures <- v13
Editor == INSTANCE FileEditor WITH
  isConnected <- v1, content <- v2, savedContent <- v3, remote <- v4, loading <- v5, saving <- v6,
  error <- v7, loads <- v8, saves <- v9, overlap <- v10, download <- v11,
  downloading <- v12, mounted <- v13, edits <- v14, nsaves <- v15, nloads <- v16,
  failures <- v17
Sync == INSTANCE DirectorySync WITH
  dialog <- v1, tree <- v2, open <- v3, scope <- v4, config <- v5, phase <- v6, entries <- v7, cancel <- v8,
  runs <- v9, started <- v10, report <- v11, basis <- v12

Init ==
  \/ part = "monitor" /\ Monitor!Init
     /\ v12 = 0 /\ v13 = 0 /\ v14 = 0 /\ v15 = 0 /\ v16 = 0 /\ v17 = 0
  \/ part = "log" /\ Log!Init
     /\ v11 = 0 /\ v12 = 0 /\ v13 = 0 /\ v14 = 0 /\ v15 = 0 /\ v16 = 0 /\ v17 = 0
  \/ part = "forwards" /\ Forwards!Init
     /\ v14 = 0 /\ v15 = 0 /\ v16 = 0 /\ v17 = 0
  \/ part = "editor" /\ Editor!Init
  \/ part = "sync" /\ Sync!Init
     /\ v13 = 0 /\ v14 = 0 /\ v15 = 0 /\ v16 = 0 /\ v17 = 0
Next ==
  /\ UNCHANGED part
  /\ \/ part = "monitor" /\ Monitor!Next /\ UNCHANGED <<v12, v13, v14, v15, v16, v17>>
     \/ part = "log" /\ Log!Next /\ UNCHANGED <<v11, v12, v13, v14, v15, v16, v17>>
     \/ part = "forwards" /\ Forwards!Next /\ UNCHANGED <<v14, v15, v16, v17>>
     \/ part = "editor" /\ Editor!Next
     \/ part = "sync" /\ Sync!Next /\ UNCHANGED <<v13, v14, v15, v16, v17>>

Fairness ==
  /\ WF_(Monitor!vars)(part = "monitor" /\ Monitor!Tick)
  /\ \A kind \in {"first", "tick"} : WF_(Monitor!vars)(part = "monitor" /\ Monitor!Settles(kind))
  /\ WF_(Log!vars)(part = "log" /\ Log!Tick)
  /\ \A c \in Conns, id \in Discoverable \cup Custom : WF_(Log!vars)(part = "log" /\ Log!AnswersTo(c, id))
  /\ WF_(Forwards!vars)(part = "forwards" /\ Forwards!Refresh)
  /\ WF_(Forwards!vars)(part = "forwards" /\ Forwards!Lists)
  /\ WF_(Forwards!vars)(part = "forwards" /\ Forwards!Answers)
  /\ WF_(Forwards!vars)(part = "forwards" /\ Forwards!Binds)
  /\ WF_(Sync!vars)(part = "sync" /\ Sync!Progress)
Spec == Init /\ [][Next]_vars /\ Fairness

(***************************************************************************)
(* The properties of the parts, by their names there                       *)
(***************************************************************************)
(* A GPU panel shows the GPUs of its own connection, a log's spinner has a read under  *)
(* way, and a text that no longer shows as modified is the text on the server.         *)
ShownIsTrue ==
  /\ part = "monitor" => Monitor!Inv
  /\ part = "log" => Log!Inv
  /\ part = "forwards" => Forwards!TypeOK
  /\ part = "editor" => Editor!Inv
(* However late other answers come, a panel that stays on a connection comes to show   *)
(* that connection: a monitor its values, a log its lines, the dialog its forwards.    *)
PanelsCatchUp ==
  /\ <>[](part = "monitor" => Monitor!CaughtUp)
  /\ <>[](part = "log" => Log!CaughtUp)
  /\ <>[](part = "forwards" => Forwards!CaughtUp)
(* What a synchronization or a directory transfer reports complete, is: every file it  *)
(* was to move has arrived; and a busy dialog has one loop at work.                    *)
SyncKeepsItsWord == part = "sync" => Sync!Inv
(* What was cancelled, or lost its connection, paths or view, begins nothing more.     *)
CancelStops ==
  [][/\ part = "sync" => Sync!GoesOnUncancelled
     /\ part = "editor" => Editor!LeftIsNotOpened]_vars
(* A dialog that compares or transfers comes to an end. *)
BusyEnds == []<>(part = "sync" => ~Sync!Busy)
=============================================================================
