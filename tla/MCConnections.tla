---------------------------- MODULE MCConnections ----------------------------
(***************************************************************************)
(* What makes a session and carries it, on small instances: the attempts   *)
(* of file tabs and of terminal tabs, the answers to a server's questions, *)
(* the link of a terminal, its size, and the pane that types into it. The  *)
(* models share no state, so they are checked one beside the other: every  *)
(* behaviour is one of a single part, whose variables are v1, v2, ...      *)
(***************************************************************************)
EXTENDS Naturals, Sequences, FiniteSets

CONSTANTS
  None,
  FileTabs, FileAttempts,                    \* tabs of file connections; attempts to connect them
  SshTabs, SshAttempts,                      \* the same of terminal tabs
  MaxMounts, MaxReconnects, MaxDropRetries, MaxDrops, MaxChunks,  \* the link of a terminal
  Sizes, Tiny, Fresh, Enough, MaxChanges,    \* its size
  Hosts, MaxDials, MaxChallenges,            \* servers that ask questions
  Terminals, MaxText, MaxEdits               \* terminals with drafts

ASSUME ConnectionsConstants ==
  /\ None \notin Nat \cup FileTabs \cup SshTabs \cup Hosts \cup Terminals \cup [id : Nat, n : Nat]
  /\ {FileAttempts, SshAttempts, MaxDrops, MaxChunks, MaxDials, MaxChallenges, MaxText} \subseteq Nat
  /\ {MaxMounts, MaxReconnects, MaxDropRetries} \subseteq Nat \ {0}
  /\ Sizes \cup {Fresh} \subseteq (Nat \ {0}) \X (Nat \ {0}) /\ MaxChanges \in Nat

(* On the small instance, in character cells: a container too small to use, the size of *)
(* a terminal never fitted, and two that differ from it in rows and in columns.         *)
Cramped == <<5, 3>>
Standard == <<80, 24>>
Proper == <<40, 10>>
PaneSizes == {Cramped, Standard, <<80, 30>>, <<120, 24>>}

VARIABLES
  part,  \* which of them runs
  v1, v2, v3, v4, v5, v6, v7, v8, v9, v10, v11, v12, v13, v14, v15, v16, v17, v18
vars == <<part, v1, v2, v3, v4, v5, v6, v7, v8, v9, v10, v11, v12, v13, v14, v15, v16, v17, v18>>

File == INSTANCE FileConnections WITH
  Conns <- FileTabs, MaxAttempts <- FileAttempts, tab <- v1, closing <- v2, session <- v3,
  progress <- v4, of <- v5, prev <- v6, phase <- v7, aborted <- v8, retry <- v9, asked <- v10,
  dialog <- v11, trusting <- v12, retrying <- v13, cancels <- v14, call <- v15,
  token <- v16, revoked <- v17, live <- v18
Ssh == INSTANCE SshSessions WITH
  Ids <- SshTabs, MaxAttempts <- SshAttempts, Serial <- TRUE, tab <- v1, closing <- v2, progress <- v3,
  pty <- v4, of <- v5, kind <- v6, at <- v7, call <- v8, live <- v9, retried <- v10,
  question <- v11, shown <- v12, trusting <- v13, connecting <- v14, stopped <- v15
Link == INSTANCE TerminalLink WITH
  MaxAttempts <- MaxReconnects,
  mount <- v1, alive <- v2, phase <- v3, ever <- v4, redrop <- v5, attempts <- v6,
  dropTries <- v7, status <- v8, auto <- v9, drops <- v10, sent <- v11, queue <- v12,
  writing <- v13, shown <- v14
Fit == INSTANCE TerminalFit WITH
  box <- v1, term <- v2, lastSent <- v3, pty <- v4, sock <- v5, observed <- v6,
  frame <- v7, settling <- v8, columns <- v9, focusing <- v10, large <- v11, changes <- v12
Broker == INSTANCE Challenges WITH
  Conns <- Hosts, MaxAttempts <- MaxDials, attempts <- v1, begun <- v2,
  token <- v3, pending <- v4, sequence <- v5, listener <- v6, events <- v7, queue <- v8,
  submitting <- v9, replies <- v10, overlapped <- v11, dismissed <- v12, arrived <- v13
Compose == INSTANCE ComposePane WITH
  NoTerminal <- None, shown <- v1,
  draft <- v2, timer <- v3, clear <- v4, stored <- v5, connected <- v6, sender <- v7,
  open <- v8, typed <- v9, delivered <- v10, edits <- v11

Init ==
  \/ part = "file" /\ File!Init
  \/ part = "ssh" /\ Ssh!Init
     /\ v16 = 0 /\ v17 = 0 /\ v18 = 0
  \/ part = "link" /\ Link!Init
     /\ v15 = 0 /\ v16 = 0 /\ v17 = 0 /\ v18 = 0
  \/ part = "fit" /\ Fit!Init
     /\ v13 = 0 /\ v14 = 0 /\ v15 = 0 /\ v16 = 0 /\ v17 = 0 /\ v18 = 0
  \/ part = "challenge" /\ Broker!Init
     /\ v14 = 0 /\ v15 = 0 /\ v16 = 0 /\ v17 = 0 /\ v18 = 0
  \/ part = "compose" /\ Compose!Init
     /\ v12 = 0 /\ v13 = 0 /\ v14 = 0 /\ v15 = 0 /\ v16 = 0 /\ v17 = 0 /\ v18 = 0
Next ==
  /\ UNCHANGED part
  /\ \/ part = "file" /\ File!Next
     \/ part = "ssh" /\ Ssh!Next /\ UNCHANGED <<v16, v17, v18>>
     \/ part = "link" /\ Link!Next /\ UNCHANGED <<v15, v16, v17, v18>>
     \/ part = "fit" /\ Fit!Next /\ UNCHANGED <<v13, v14, v15, v16, v17, v18>>
     \/ part = "challenge" /\ Broker!Next /\ UNCHANGED <<v14, v15, v16, v17, v18>>
     \/ part = "compose" /\ Compose!Next /\ UNCHANGED <<v12, v13, v14, v15, v16, v17, v18>>

Fairness ==
  /\ \A a \in 1 .. FileAttempts : WF_(File!vars)(part = "file" /\ File!Runs(a))
  /\ WF_(File!vars)(part = "file" /\ File!Ending) /\ WF_(File!vars)(part = "file" /\ File!TrustAnswers)
  /\ WF_(Ssh!vars)(part = "ssh" /\ Ssh!Progress) /\ WF_(Link!vars)(part = "link" /\ Link!Progress)
Spec == Init /\ [][Next]_vars /\ Fairness

(***************************************************************************)
(* The properties of the parts, by their names there                       *)
(***************************************************************************)
(* A tab that shows a connection has its session, a tab or panel that shows an attempt *)
(* has that attempt, and an aborted attempt of a file tab leaves no session behind.    *)
TabsHaveSessions == (part = "file" => File!Inv) /\ (part = "ssh" => Ssh!Inv)
(* The late answer of an attempt never brings back the tab that was closed. *)
LateAnswerRevivesNothing == [][part = "ssh" => Ssh!ShowsOnlyOpened]_vars
(* Every attempt, of a file tab, a terminal tab or a terminal's link, ends or comes to *)
(* ask about a host key, and a session that was connected reaches a terminal.          *)
AttemptsResolve ==
  /\ \A a \in 1 .. FileAttempts : []<>(part = "file" => File!Settled(a))
  /\ \A a \in 1 .. SshAttempts : []<>(part = "ssh" => Ssh!Over(a) /\ Ssh!Reached(a))
  /\ []<>(part = "link" => Link!Made)
(* What the shell writes is shown in order and without gaps, by the socket of the run  *)
(* of the effect that is mounted.                                                      *)
OutputInOrder == part = "link" => Link!Inv
(* A shell that runs is told the size its terminal has. *)
SizeReachesShell == part = "fit" => Fit!Inv
(* An attempt that waits for an answer has its prompt on the screen or on its way, and *)
(* hears no answer but that to its own challenge.                                      *)
PromptsReachAttempts == part = "challenge" => Broker!Inv
(* What was typed for a terminal is kept for it until it is sent or erased, and what   *)
(* is sent runs each line once.                                                        *)
DraftsKept == part = "compose" => Compose!Inv
=============================================================================
