---------------------------- MODULE PtyLifecycle ----------------------------
(***************************************************************************)
(* The interactive terminal of one connection id: the WebSocket tasks that *)
(* start, serve and close it (websocket_server.rs), the PTY half of        *)
(* connection_manager.rs, and the terminal component that mounts, unmounts *)
(* and remounts on new sockets (pty-terminal.tsx).                         *)
(*                                                                         *)
(* A socket's messages are handled one after the other by its own task;    *)
(* tasks of different sockets interleave at every await.  One action is    *)
(* one critical section of one lock, or one poll of the reader's select.   *)
(***************************************************************************)
EXTENDS Naturals

CONSTANTS
  Sockets,    \* WebSocket connections; a remount opens a new one
  UI,         \* the task of local_shell_disconnect
  Ptys,       \* PTY sessions that may be created
  NONE,
  LocalId,    \* the id is an ephemeral local shell ("local-..."), not an SSH one
  Overlap     \* may a socket send StartPty while another's is being handled?

ASSUME PtyConstants ==
  /\ LocalId \in BOOLEAN /\ Overlap \in BOOLEAN
  /\ UI \notin Sockets /\ NONE \notin Ptys /\ NONE \notin Sockets \cup {UI}

Procs == Sockets \cup {UI}

VARIABLES
  pc,          \* where a task is in the handler it runs
  want,        \* generation passed to close_pty_connection, 0 for None
  isLocal,     \* start_pty_connection's local of that name
  mine,        \* socket -> PTY its StartPty created
  gen,         \* socket -> generation its StartPty returned, 0 before
  active,      \* active_pty_generations of the socket's task, 0 when absent
  reader,      \* socket -> PTY whose cancel token its reader watches
  client,      \* the component: "new", "mounted", "closing" or "lost"
  told,        \* generation the component learnt from PtyStarted, 0 before
  session,     \* pty_sessions[id]
  generation,  \* pty_generations[id]
  typed,       \* connection_types[id] is "Local"
  lock,        \* task that holds the write lock of pty_sessions
  cancelled,   \* PTYs whose token is cancelled
  created      \* PTYs created so far

taskVars   == <<pc, want, isLocal, mine, gen, active, reader>>
clientVars == <<client, told>>
mgrVars    == <<session, generation, typed, lock, cancelled, created>>
vars       == <<taskVars, clientVars, mgrVars>>

Starting == {"register", "classify", "evict", "create", "bump", "insert", "token"}
Closing  == {"check", "remove", "untype"}

TypeOK ==
  /\ pc \in [Procs -> {"idle", "serve", "forget", "done"} \cup Starting \cup Closing]
  /\ want \in [Procs -> Nat]
  /\ isLocal \in [Sockets -> BOOLEAN]
  /\ mine \in [Sockets -> Ptys \cup {NONE}]
  /\ gen \in [Sockets -> Nat]
  /\ active \in [Sockets -> Nat]
  /\ reader \in [Sockets -> Ptys \cup {NONE}]
  /\ client \in [Sockets -> {"new", "mounted", "closing", "lost"}]
  /\ told \in [Sockets -> Nat]
  /\ session \in Ptys \cup {NONE}
  /\ generation \in Nat
  /\ typed \in BOOLEAN
  /\ lock \in Procs \cup {NONE}
  /\ cancelled \subseteq created
  /\ created \subseteq Ptys

Init ==
  /\ pc = [q \in Procs |-> "idle"]
  /\ want = [q \in Procs |-> 0]
  /\ isLocal = [c \in Sockets |-> FALSE]
  /\ mine = [c \in Sockets |-> NONE]
  /\ gen = [c \in Sockets |-> 0]
  /\ active = [c \in Sockets |-> 0]
  /\ reader = [c \in Sockets |-> NONE]
  /\ client = [c \in Sockets |-> "new"]
  /\ told = [c \in Sockets |-> 0]
  /\ session = NONE /\ generation = 0 /\ typed = FALSE /\ lock = NONE
  /\ cancelled = {} /\ created = {}

Goto(q, l) == pc' = [pc EXCEPT ![q] = l]

-----------------------------------------------------------------------------
(* the terminal component *)

\* The component mounts, opens socket c and sends StartPty, which is received.
Mount(c) ==
  /\ client[c] = "new"
  /\ Overlap \/ \A d \in Sockets : pc[d] \notin Starting
  /\ client' = [client EXCEPT ![c] = "mounted"]
  /\ Goto(c, "register")
  /\ UNCHANGED <<want, isLocal, mine, gen, active, reader, told, mgrVars>>

\* PtyStarted arrives; send_control may also drop it when the channel is full.
Learn(c) ==
  /\ client[c] = "mounted" /\ active[c] # 0 /\ told[c] = 0
  /\ told' = [told EXCEPT ![c] = active[c]]
  /\ UNCHANGED <<taskVars, client, mgrVars>>

\* The cleanup sends Close, with the generation if it is known, and closes c.
Unmount(c) ==
  /\ client[c] = "mounted"
  /\ client' = [client EXCEPT ![c] = "closing"]
  /\ UNCHANGED <<taskVars, told, mgrVars>>

\* The socket drops, or is closed on an error, without a Close message.
Drop(c) ==
  /\ client[c] = "mounted"
  /\ client' = [client EXCEPT ![c] = "lost"]
  /\ UNCHANGED <<taskVars, told, mgrVars>>

-----------------------------------------------------------------------------
(* StartPty: start_pty_connection, then the reader *)

\* create_local_connection, for an ephemeral id without a connection type.
Register(c) ==
  /\ pc[c] = "register"
  /\ typed' = (typed \/ LocalId)
  /\ Goto(c, "classify")
  /\ UNCHANGED <<want, isLocal, mine, gen, active, reader, clientVars,
                 session, generation, lock, cancelled, created>>

Classify(c) ==
  /\ pc[c] = "classify"
  /\ isLocal' = [isLocal EXCEPT ![c] = typed]
  /\ Goto(c, "evict")
  /\ UNCHANGED <<want, mine, gen, active, reader, clientVars, mgrVars>>

\* Definitions named X_<what is wrong> are deliberately wrong variants of X, each
\* the slip that one of the properties at the end of this module would expose.

RemoveSession_NotCancelled == session' = NONE /\ UNCHANGED cancelled

\* Remove the session from the map and cancel its token.
RemoveSession ==
  /\ session' = NONE
  /\ cancelled' = cancelled \cup ({session} \ {NONE})

Evict(c) ==
  /\ pc[c] = "evict" /\ lock = NONE
  /\ RemoveSession
  /\ Goto(c, "create")
  /\ UNCHANGED <<want, isLocal, mine, gen, active, reader, clientVars,
                 generation, typed, lock, created>>

\* A local shell, or a shell on the SSH connection: there is none for a local id.
CreatePty(c) ==
  /\ pc[c] = "create" /\ LocalId = isLocal[c]
  /\ \E p \in Ptys \ created :
       /\ created' = created \cup {p}
       /\ mine' = [mine EXCEPT ![c] = p]
  /\ Goto(c, "bump")
  /\ UNCHANGED <<want, isLocal, gen, active, reader, clientVars,
                 session, generation, typed, lock, cancelled>>

\* An Error message answers StartPty; the task goes on serving the socket.
CreateFails(c) ==
  /\ pc[c] = "create"
  /\ Goto(c, "serve")
  /\ UNCHANGED <<want, isLocal, mine, gen, active, reader, clientVars, mgrVars>>

BumpGeneration(c) ==
  /\ pc[c] = "bump"
  /\ generation' = generation + 1
  /\ gen' = [gen EXCEPT ![c] = generation + 1]
  /\ Goto(c, "insert")
  /\ UNCHANGED <<want, isLocal, mine, active, reader, clientVars,
                 session, typed, lock, cancelled, created>>

\* A session that another StartPty stored in the meantime is dropped uncancelled.
InsertSession(c) ==
  /\ pc[c] = "insert" /\ lock = NONE
  /\ session' = mine[c]
  /\ Goto(c, "token")
  /\ UNCHANGED <<want, isLocal, mine, gen, active, reader, clientVars,
                 generation, typed, lock, cancelled, created>>

\* get_pty_cancel_token takes whatever session is stored under the id now; then
\* PtyStarted is sent, the reader spawned and the generation remembered.
FetchToken(c) ==
  /\ pc[c] = "token" /\ lock = NONE
  /\ Goto(c, "serve")
  /\ IF session = NONE THEN UNCHANGED <<active, reader>>
     ELSE /\ reader' = [reader EXCEPT ![c] = session]
          /\ active' = [active EXCEPT ![c] = gen[c]]
  /\ UNCHANGED <<want, isLocal, mine, gen, clientVars, mgrVars>>

\* The reader leaves: its token is cancelled, the id has no session, or the
\* socket's channel is closed.
ReaderExit(c) ==
  /\ reader[c] # NONE
  /\ reader[c] \in cancelled \/ (session = NONE /\ lock = NONE) \/ pc[c] = "done"
  /\ reader' = [reader EXCEPT ![c] = NONE]
  /\ UNCHANGED <<pc, want, isLocal, mine, gen, active, clientVars, mgrVars>>

\* The shell it reads ends: the reader reports "Connection lost" and leaves.
ShellEnds(c) ==
  /\ reader[c] # NONE /\ session # NONE /\ lock = NONE
  /\ reader' = [reader EXCEPT ![c] = NONE]
  /\ UNCHANGED <<pc, want, isLocal, mine, gen, active, clientVars, mgrVars>>

-----------------------------------------------------------------------------
(* close_pty_connection, for the Close message, the cleanup and the UI *)

BeginClose(q, g) ==
  /\ want' = [want EXCEPT ![q] = g]
  /\ Goto(q, IF g = 0 THEN "remove" ELSE "check")

CloseMessage(c) ==
  /\ pc[c] = "serve" /\ client[c] = "closing"
  /\ BeginClose(c, told[c])
  /\ UNCHANGED <<isLocal, mine, gen, active, reader, clientVars, mgrVars>>

\* The end of handle_connection: close what this socket still has active.
Cleanup(c) ==
  /\ pc[c] = "serve" /\ client[c] = "lost"
  /\ IF active[c] = 0 THEN Goto(c, "done") /\ UNCHANGED want
     ELSE BeginClose(c, active[c])
  /\ UNCHANGED <<isLocal, mine, gen, active, reader, clientVars, mgrVars>>

\* local_shell_disconnect: close_local_connection passes no generation.
Disconnect ==
  /\ LocalId /\ pc[UI] = "idle"
  /\ BeginClose(UI, 0)
  /\ UNCHANGED <<isLocal, mine, gen, active, reader, clientVars, mgrVars>>

CheckGeneration(q) ==
  /\ pc[q] = "check"
  /\ Goto(q, IF generation = want[q] THEN "remove" ELSE "forget")
  /\ UNCHANGED <<want, isLocal, mine, gen, active, reader, clientVars, mgrVars>>

\* The write guard of pty_sessions lives to the end of the function.
CloseRemove(q) ==
  /\ pc[q] = "remove" /\ lock = NONE
  /\ RemoveSession
  /\ lock' = q
  /\ Goto(q, "untype")
  /\ UNCHANGED <<want, isLocal, mine, gen, active, reader, clientVars,
                 generation, typed, created>>

CloseUntype_LockKept(q) ==
  /\ pc[q] = "untype"
  /\ typed' = FALSE
  /\ Goto(q, "forget")
  /\ UNCHANGED <<want, isLocal, mine, gen, active, reader, clientVars,
                 session, generation, lock, cancelled, created>>

CloseUntype(q) ==
  /\ pc[q] = "untype"
  /\ typed' = FALSE
  /\ lock' = NONE
  /\ Goto(q, "forget")
  /\ UNCHANGED <<want, isLocal, mine, gen, active, reader, clientVars,
                 session, generation, cancelled, created>>

\* should_remove_pty_state(active, want)
ForgetsActive(c) == active[c] # 0 /\ (want[c] = 0 \/ want[c] = active[c])

\* After Close the client has closed the socket; after a cleanup the task ends.
Forget(c) ==
  /\ pc[c] = "forget"
  /\ active' = [active EXCEPT ![c] = IF ForgetsActive(c) THEN 0 ELSE @]
  /\ client' = [client EXCEPT ![c] = "lost"]
  /\ Goto(c, "serve")
  /\ UNCHANGED <<want, isLocal, mine, gen, reader, told, mgrVars>>

\* close_local_connection removes the type again after close_pty_connection.
DisconnectDone ==
  /\ pc[UI] = "forget"
  /\ typed' = FALSE
  /\ Goto(UI, "done")
  /\ UNCHANGED <<want, isLocal, mine, gen, active, reader, clientVars,
                 session, generation, lock, cancelled, created>>

-----------------------------------------------------------------------------
Start(c) ==
  \/ Register(c) \/ Classify(c) \/ Evict(c) \/ CreatePty(c) \/ CreateFails(c)
  \/ BumpGeneration(c) \/ InsertSession(c) \/ FetchToken(c)

Finishing(q) == CheckGeneration(q) \/ CloseRemove(q) \/ CloseUntype(q)

Serving(c) == CloseMessage(c) \/ Cleanup(c) \/ Forget(c)

Next ==
  \/ \E c \in Sockets : Mount(c) \/ Learn(c) \/ Unmount(c) \/ Drop(c)
  \/ \E c \in Sockets : Start(c) \/ Serving(c) \/ ReaderExit(c) \/ ShellEnds(c)
  \/ Disconnect \/ DisconnectDone
  \/ \E q \in Procs : Finishing(q)

Spec == Init /\ [][Next]_vars

(***************************************************************************)
(* Tokio keeps running every ready task.  Nothing is assumed of CreatePty: *)
(* opening a channel on a dead SSH connection may hang for ever when       *)
(* keepalives are off.  Tokio's RwLock is fair, so a task that waits for   *)
(* its write lock gets it: hence SF for CloseRemove.                       *)
(***************************************************************************)
Fairness ==
  /\ \A q \in Procs : WF_vars(CheckGeneration(q)) /\ WF_vars(CloseUntype(q))
                        /\ SF_vars(CloseRemove(q))
  /\ \A c \in Sockets : WF_vars(Serving(c)) /\ WF_vars(ReaderExit(c))

FairSpec == Spec /\ Fairness

-----------------------------------------------------------------------------
(* Invariants *)

\* Removing a session and cancelling its token are one critical section, so a
\* StartPty never picks up the token of a session that was already torn down.
MapHoldsLiveSession == session \notin cancelled

\* As long as StartPty requests do not overlap, a terminal only ever shows the
\* output of the shell it started: its reader looks the session up by connection
\* id at every read, and what it finds is its own.
OwnOutput ==
  \A c \in Sockets :
    reader[c] \notin cancelled \cup {NONE} /\ session # NONE => session = mine[c]

\* As long as StartPty requests do not overlap, the stored session belongs to a
\* socket whose own cleanup will present the current generation and remove it.
SessionAttended ==
  session # NONE =>
    \E c \in Sockets :
      /\ mine[c] = session /\ gen[c] = generation
      /\ pc[c] = "token" \/ active[c] = generation

\* As long as StartPty requests do not overlap, every terminal has the output of
\* its own shell, and the stored session is a live one that its socket will remove.
SessionsAreOwn == TypeOK /\ MapHoldsLiveSession /\ OwnOutput /\ SessionAttended

-----------------------------------------------------------------------------
(* Liveness, under FairSpec *)

\* A socket that is gone gets its task finished and its reader stopped, even if
\* the StartPty of another socket hangs for ever in CreatePty.
ClosedSocketsSettle ==
  \A c \in Sockets :
    pc[c] = "serve" /\ client[c] \in {"closing", "lost"}
      ~> pc[c] = "done" /\ reader[c] = NONE

-----------------------------------------------------------------------------
(* What comments of the code claim, and the code does not do *)

\* connection_manager.rs: close_pty_connection acts "only if the generation
\* matches.  This prevents a stale Close (from a remounting component) from
\* killing a newly created PTY session."
StaleCloseIgnored ==
  [][\A q \in Procs :
       pc[q] = "remove" /\ pc'[q] = "untype" /\ want[q] # 0 /\ session # NONE
         => generation = want[q]]_vars

\* connection_manager.rs: removing the existing session first "ensures the old
\* SSH channel and reader task are torn down before we create a new one,
\* preventing orphaned sessions."
OldReadersTornDown ==
  \A c \in Sockets : reader[c] # NONE => reader[c] \in cancelled \cup {session}

=============================================================================
