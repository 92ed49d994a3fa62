------------------------------- MODULE MCFiles -------------------------------
(***************************************************************************)
(* The file panels, on small instances: the remote panel under a terminal, *)
(* its directory tree, drops on it, the SFTP transfers it queues, the      *)
(* moves it makes, and the two-panel FTP view.                             *)
(* The models share no state, so they are checked one beside the other:    *)
(* every behaviour is one of a single part, whose variables are v1, v2,... *)
(***************************************************************************)
EXTENDS Naturals, Sequences, FiniteSets

CONSTANTS
  None,
  Sessions, MaxLoads, MaxHistory,             \* the connections of the panel; bounds of the panel
  Depth, MaxMoves, MaxFailures,               \* the tree
  Local, Tree, Shows, MaxDrops,               \* what can be dropped, where, and how often
  FtpPanels, MaxItems, MaxTries, MaxRefreshes,  \* the two-panel view
  Sizes, Chunk, MaxDepth, MaxResizes,         \* an SFTP transfer
  Names, Taken, MaxRuns, MaxOthers            \* moves

ASSUME FilesConstants ==
  /\ None \notin Nat \cup Sessions \cup {"/", "/home", "/dir", "new", "old", "other", "ok", "error"}
  /\ None \notin {"setup", "remote", "starved", "broken", "cancelled"}
  /\ None \notin [s : Sessions, at : {"/home", "/"}, target : {"/home", "/"}, keep : BOOLEAN]
  /\ Sessions # {} /\ {MaxLoads, Depth} \subseteq Nat
  /\ MaxDrops \in Nat /\ Shows \subseteq Seq(STRING)
  /\ \A p \in Local :   \* the listing of a folder has the directory of each of its files
       /\ Tree[p].name \in STRING /\ Tree[p].dirs \subseteq Seq(STRING) /\ Tree[p].files \subseteq Seq(STRING)
       /\ \A f \in Tree[p].files : f # <<>> /\ SubSeq(f, 1, Len(f) - 1) \in {<<>>} \cup Tree[p].dirs
  /\ FtpPanels \subseteq {"local", "remote"} /\ MaxItems \in Nat /\ MaxTries \in Nat \ {0}
  /\ Sizes \subseteq Nat /\ {Chunk, MaxDepth} \subseteq Nat \ {0} /\ MaxResizes \in Nat
  /\ Names \in Nat \ {0} /\ {MaxRuns, MaxOthers} \subseteq Nat

(* On the small instance a file and a folder are dropped. *)
Drops == {"file", "folder"}
Dropped == [p \in Drops |->
  IF p = "file" THEN [name |-> "a", folder |-> FALSE, dirs |-> {}, files |-> {}]
  ELSE [name |-> "b", folder |-> TRUE, dirs |-> {<<"s">>}, files |-> {<<"x">>, <<"s", "y">>}]]

Folders == {<<>>, <<"p">>}

VARIABLES
  part,  \* which of them runs
  v1, v2, v3, v4, v5, v6, v7, v8, v9, v10, v11, v12, v13, v14, v15, v16
vars == <<part, v1, v2, v3, v4, v5, v6, v7, v8, v9, v10, v11, v12, v13, v14, v15, v16>>

Browser == INSTANCE FileBrowser WITH
  session <- v1, avail <- v2, path <- v3, files <- v4, selected <- v5, hist <- v6, idx <- v7,
  cache <- v8, loads <- v9, gen <- v10, isLoading <- v11, answered <- v12, follow <- v13,
  cwd <- v14, settled <- v15, op <- v16
Dirs == INSTANCE DirectoryTree WITH
  Conns <- Sessions, conn <- v1, currentPath <- v2, disabled <- v3, nodes <- v4, loading <- v5,
  requests <- v6, initial <- v7, cache <- v8, failed <- v9, moves <- v10, failures <- v11
Upload == INSTANCE UploadPlan WITH
  Panels <- Shows, MaxRuns <- MaxDrops, path <- v1, gone <- v2, remote <- v3, runs <- v4, queue <- v5
Ftp == INSTANCE FtpWorkspace WITH
  Panels <- FtpPanels, MaxLoads <- MaxRefreshes, view <- v1,
  path <- v2, shown <- v3, selected <- v4, loading <- v5, loads <- v6, op <- v7,
  items <- v8, active <- v9, due <- v10, busy <- v11, flights <- v12
Sftp == INSTANCE SftpPipeline WITH
  upload <- v1, size <- v2, resizes <- v3, depth <- v4, pc <- v5, inflight <- v6, ranges <- v7,
  next <- v8, eof <- v9, written <- v10, landed <- v11, acked <- v12, cancelled <- v13, cause <- v14
Moves == INSTANCE FileMoves WITH
  src <- v1, dst <- v2, kept <- v3, backup <- v4, runs <- v5, overwrite <- v6, pc <- v7,
  item <- v8, conflicts <- v9, results <- v10, warned <- v11, agreed <- v12, others <- v13

Init ==
  \/ part = "browser" /\ Browser!Init
  \/ part = "tree" /\ Dirs!Init
     /\ v12 = 0 /\ v13 = 0 /\ v14 = 0 /\ v15 = 0 /\ v16 = 0
  \/ part = "upload" /\ Upload!Init
     /\ v6 = 0 /\ v7 = 0 /\ v8 = 0 /\ v9 = 0 /\ v10 = 0 /\ v11 = 0 /\ v12 = 0 /\ v13 = 0 /\ v14 = 0 /\ v15 = 0 /\ v16 = 0
  \/ part = "ftp" /\ Ftp!Init
     /\ v13 = 0 /\ v14 = 0 /\ v15 = 0 /\ v16 = 0
  \/ part = "sftp" /\ Sftp!Init /\ v15 = 0 /\ v16 = 0
  \/ part = "moves" /\ Moves!Init /\ v14 = 0 /\ v15 = 0 /\ v16 = 0
Next ==
  /\ UNCHANGED part
  /\ \/ part = "browser" /\ Browser!Next
     \/ part = "tree" /\ Dirs!Next /\ UNCHANGED <<v12, v13, v14, v15, v16>>
     \/ part = "upload" /\ Upload!Next /\ UNCHANGED <<v6, v7, v8, v9, v10, v11, v12, v13, v14, v15, v16>>
     \/ part = "ftp" /\ Ftp!Next /\ UNCHANGED <<v13, v14, v15, v16>>
     \/ part = "sftp" /\ Sftp!Next /\ UNCHANGED <<v15, v16>>
     \/ part = "moves" /\ Moves!Next /\ UNCHANGED <<v14, v15, v16>>

Fairness ==
  /\ WF_(Browser!vars)(part = "browser" /\ Browser!Progress)
  /\ WF_(Ftp!vars)(part = "ftp" /\ Ftp!Effects)
  /\ WF_(Ftp!vars)(part = "ftp" /\ Ftp!Ends)
  /\ WF_(Sftp!vars)(part = "sftp" /\ Sftp!Steps)
  /\ WF_(Sftp!vars)(part = "sftp" /\ Sftp!Answers)
Spec == Init /\ [][Next]_vars /\ Fairness

(***************************************************************************)
(* The properties of the parts, by their names there                       *)
(***************************************************************************)
(* The panel's place in its history is the directory on show, it shows a load while    *)
(* its newest request is open, and a usable tree has every ancestor of its path.       *)
PanelsKnowTheirPlace == (part = "browser" => Browser!Inv) /\ (part = "tree" => Dirs!Inv)
(* The listing on show never gives way to the answer of an older request, and nothing  *)
(* selected in one directory is still selected in another.                             *)
ListingsGoForward ==
  [][/\ part = "browser" => Browser!NeverOlder /\ Browser!SelectionStaysBehind
     /\ part = "ftp" => Ftp!SelectionBelongsToListing]_vars
(* What is dropped goes, whole, to the directory it was dropped on, and is queued only *)
(* when its remote folder exists or the failure to make it was reported.               *)
DropsArriveWhole == part = "upload" => Upload!Inv
(* The outcome that is told is the true one: an FTP transfer, of which one runs at a    *)
(* time, shows that of its own run; an SFTP transfer that ends well moved every byte in *)
(* its place; and a move that fails half way loses nothing.                             *)
OutcomesAreTrue ==
  (part = "ftp" => Ftp!Inv) /\ (part = "sftp" => Sftp!Inv) /\ (part = "moves" => Moves!Inv)
(* Every load of the remote panel ends, and so does an SFTP transfer; a queued FTP     *)
(* transfer is run, cancelled or lost with its view.                                   *)
FilesSettle ==
  /\ []<>(part = "browser" => ~Browser!Busy) /\ []<>(part = "sftp" => Sftp!Ended)
  /\ \A i \in 1 .. MaxItems : []<>(part = "ftp" => ~Ftp!Waiting(i))
=============================================================================
