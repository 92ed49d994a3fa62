-------------------------- MODULE PtyLifecycleProofs --------------------------
(***************************************************************************)
(* For any number of sockets and shells: as long as StartPty requests do   *)
(* not overlap, every terminal shows its own shell, and the stored session *)
(* is a live one that its socket will remove.                              *)
(*                                                                         *)
(* The argument: the one StartPty in flight has emptied the map before it  *)
(* creates its shell, so nothing is overwritten; its generation is the     *)
(* newest, and generations of two sockets differ, so the session it finds  *)
(* when it asks for a token is its own; and a socket forgets a generation  *)
(* only after it removed the session or found a newer generation.          *)
(***************************************************************************)
EXTENDS PtyLifecycle, TLAPS

\* StartPty requests do not overlap.
Serial ==
  \A c, d \in Sockets : pc[c] \in Starting /\ pc[d] \in Starting => c = d

\* Shells and generations belong to the socket whose StartPty made them.
Owned ==
  /\ \A c \in Sockets :
       /\ mine[c] \in created \cup {NONE}
       /\ gen[c] <= generation
       /\ active[c] \in {0, gen[c]} /\ told[c] \in {0, gen[c]}
       /\ reader[c] # NONE =>
            reader[c] = mine[c] /\ (mine[c] = session \/ mine[c] \in cancelled)
  /\ \A c, d \in Sockets :
       /\ mine[c] = mine[d] /\ mine[c] # NONE => c = d
       /\ gen[c] = gen[d] /\ gen[c] # 0 => c = d

\* What a socket's task knows at each point of its handlers.
Stages ==
  \A c \in Sockets :
    /\ client[c] = "new" => pc[c] = "idle"
    /\ pc[c] \in {"idle", "register", "classify", "evict", "create", "bump"} =>
         gen[c] = 0 /\ reader[c] = NONE
    /\ pc[c] \in {"create", "bump", "insert"} => session = NONE
    /\ pc[c] \in {"bump", "insert"} => mine[c] # NONE /\ mine[c] \notin cancelled
    /\ pc[c] \in {"insert", "token"} =>
         gen[c] = generation /\ gen[c] # 0 /\ reader[c] = NONE
    /\ pc[c] = "check" => want[c] = gen[c]
    /\ pc[c] \in {"untype", "forget"} /\ session # NONE =>
         mine[c] # session \/ gen[c] # generation

PtyInv ==
  /\ TypeOK /\ Serial /\ Owned /\ Stages
  /\ MapHoldsLiveSession /\ SessionAttended

LEMMA PtyInit == Init => PtyInv
<1> USE DEF Procs, Starting, Closing
<1> SUFFICES ASSUME Init PROVE PtyInv
  OBVIOUS
<1>1. TypeOK
  BY DEF Init, TypeOK
<1>2. Serial /\ Owned /\ Stages
  BY PtyConstants DEF Init, Serial, Owned, Stages
<1>3. MapHoldsLiveSession /\ SessionAttended
  BY DEF Init, MapHoldsLiveSession, SessionAttended
<1> QED BY <1>1, <1>2, <1>3 DEF PtyInv

(* The component's own steps; it mounts only when no other StartPty is handled. *)
LEMMA ClientStep ==
  ASSUME PtyInv, ~Overlap, NEW c \in Sockets, Mount(c) \/ Learn(c) \/ Unmount(c) \/ Drop(c)
  PROVE  PtyInv'
<1> USE PtyConstants DEF PtyInv, Procs, Starting, Closing, Goto, RemoveSession, BeginClose,
    taskVars, clientVars, mgrVars
<1>1. CASE Mount(c)
  <2>1. TypeOK'
    BY <1>1 DEF TypeOK, Mount
  <2>2. Serial'
    BY <1>1 DEF TypeOK, Serial, Mount
  <2>3. Owned'
    BY <1>1 DEF TypeOK, Serial, Owned, Stages, SessionAttended, Mount
  <2>4. Stages'
    BY <1>1 DEF TypeOK, Serial, Owned, Stages, Mount
  <2>5. MapHoldsLiveSession' /\ SessionAttended'
    BY <1>1 DEF TypeOK, Owned, Stages, MapHoldsLiveSession, SessionAttended, Mount
  <2> QED BY <2>1, <2>2, <2>3, <2>4, <2>5
<1>2. CASE Learn(c)
  <2>1. TypeOK'
    BY <1>2 DEF TypeOK, Learn
  <2>2. Serial'
    BY <1>2 DEF TypeOK, Serial, Learn
  <2>3. Owned'
    BY <1>2 DEF TypeOK, Serial, Owned, Stages, SessionAttended, Learn
  <2>4. Stages'
    BY <1>2 DEF TypeOK, Serial, Owned, Stages, Learn
  <2>5. MapHoldsLiveSession' /\ SessionAttended'
    BY <1>2 DEF TypeOK, Owned, Stages, MapHoldsLiveSession, SessionAttended, Learn
  <2> QED BY <2>1, <2>2, <2>3, <2>4, <2>5
<1>3. CASE Unmount(c)
  <2>1. TypeOK'
    BY <1>3 DEF TypeOK, Unmount
  <2>2. Serial'
    BY <1>3 DEF TypeOK, Serial, Unmount
  <2>3. Owned'
    BY <1>3 DEF TypeOK, Serial, Owned, Stages, SessionAttended, Unmount
  <2>4. Stages'
    BY <1>3 DEF TypeOK, Serial, Owned, Stages, Unmount
  <2>5. MapHoldsLiveSession' /\ SessionAttended'
    BY <1>3 DEF TypeOK, Owned, Stages, MapHoldsLiveSession, SessionAttended, Unmount
  <2> QED BY <2>1, <2>2, <2>3, <2>4, <2>5
<1>4. CASE Drop(c)
  <2>1. TypeOK'
    BY <1>4 DEF TypeOK, Drop
  <2>2. Serial'
    BY <1>4 DEF TypeOK, Serial, Drop
  <2>3. Owned'
    BY <1>4 DEF TypeOK, Serial, Owned, Stages, SessionAttended, Drop
  <2>4. Stages'
    BY <1>4 DEF TypeOK, Serial, Owned, Stages, Drop
  <2>5. MapHoldsLiveSession' /\ SessionAttended'
    BY <1>4 DEF TypeOK, Owned, Stages, MapHoldsLiveSession, SessionAttended, Drop
  <2> QED BY <2>1, <2>2, <2>3, <2>4, <2>5
<1> QED BY <1>1, <1>2, <1>3, <1>4

(* A step of start_pty_connection. *)
LEMMA StartStep ==
  ASSUME PtyInv, NEW c \in Sockets, Start(c)
  PROVE  PtyInv'
<1> USE PtyConstants DEF PtyInv, Procs, Starting, Closing, Goto, RemoveSession, BeginClose,
    taskVars, clientVars, mgrVars
<1>1. CASE Register(c)
  <2>1. TypeOK'
    BY <1>1 DEF TypeOK, Register
  <2>2. Serial'
    BY <1>1 DEF TypeOK, Serial, Register
  <2>3. Owned'
    BY <1>1 DEF TypeOK, Serial, Owned, Stages, SessionAttended, Register
  <2>4. Stages'
    BY <1>1 DEF TypeOK, Serial, Owned, Stages, Register
  <2>5. MapHoldsLiveSession' /\ SessionAttended'
    BY <1>1 DEF TypeOK, Owned, Stages, MapHoldsLiveSession, SessionAttended, Register
  <2> QED BY <2>1, <2>2, <2>3, <2>4, <2>5
<1>2. CASE Classify(c)
  <2>1. TypeOK'
    BY <1>2 DEF TypeOK, Classify
  <2>2. Serial'
    BY <1>2 DEF TypeOK, Serial, Classify
  <2>3. Owned'
    BY <1>2 DEF TypeOK, Serial, Owned, Stages, SessionAttended, Classify
  <2>4. Stages'
    BY <1>2 DEF TypeOK, Serial, Owned, Stages, Classify
  <2>5. MapHoldsLiveSession' /\ SessionAttended'
    BY <1>2 DEF TypeOK, Owned, Stages, MapHoldsLiveSession, SessionAttended, Classify
  <2> QED BY <2>1, <2>2, <2>3, <2>4, <2>5
<1>3. CASE Evict(c)
  <2>1. TypeOK'
    BY <1>3 DEF TypeOK, Owned, SessionAttended, Evict
  <2>2. Serial'
    BY <1>3 DEF TypeOK, Serial, Evict
  <2>3. Owned'
    BY <1>3 DEF TypeOK, Serial, Owned, Stages, SessionAttended, Evict
  <2>4. Stages'
    BY <1>3 DEF TypeOK, Serial, Owned, Stages, Evict
  <2>5. MapHoldsLiveSession' /\ SessionAttended'
    BY <1>3 DEF TypeOK, Owned, Stages, MapHoldsLiveSession, SessionAttended, Evict
  <2> QED BY <2>1, <2>2, <2>3, <2>4, <2>5
<1>4. CASE CreatePty(c)
  <2>1. TypeOK'
    BY <1>4 DEF TypeOK, CreatePty
  <2>2. Serial'
    BY <1>4 DEF TypeOK, Serial, CreatePty
  <2>3. Owned'
    BY <1>4 DEF TypeOK, Serial, Owned, Stages, SessionAttended, CreatePty
  <2>4. Stages'
    BY <1>4 DEF TypeOK, Serial, Owned, Stages, CreatePty
  <2>5. MapHoldsLiveSession' /\ SessionAttended'
    BY <1>4 DEF TypeOK, Owned, Stages, MapHoldsLiveSession, SessionAttended, CreatePty
  <2> QED BY <2>1, <2>2, <2>3, <2>4, <2>5
<1>5. CASE CreateFails(c)
  <2>1. TypeOK'
    BY <1>5 DEF TypeOK, CreateFails
  <2>2. Serial'
    BY <1>5 DEF TypeOK, Serial, CreateFails
  <2>3. Owned'
    BY <1>5 DEF TypeOK, Serial, Owned, Stages, SessionAttended, CreateFails
  <2>4. Stages'
    BY <1>5 DEF TypeOK, Serial, Owned, Stages, CreateFails
  <2>5. MapHoldsLiveSession' /\ SessionAttended'
    BY <1>5 DEF TypeOK, Owned, Stages, MapHoldsLiveSession, SessionAttended, CreateFails
  <2> QED BY <2>1, <2>2, <2>3, <2>4, <2>5
<1>6. CASE BumpGeneration(c)
  <2>1. TypeOK'
    BY <1>6 DEF TypeOK, BumpGeneration
  <2>2. Serial'
    BY <1>6 DEF TypeOK, Serial, BumpGeneration
  <2>3. Owned'
    BY <1>6 DEF TypeOK, Serial, Owned, Stages, SessionAttended, BumpGeneration
  <2>4. Stages'
    BY <1>6 DEF TypeOK, Serial, Owned, Stages, BumpGeneration
  <2>5. MapHoldsLiveSession' /\ SessionAttended'
    BY <1>6 DEF TypeOK, Owned, Stages, MapHoldsLiveSession, SessionAttended, BumpGeneration
  <2> QED BY <2>1, <2>2, <2>3, <2>4, <2>5
<1>7. CASE InsertSession(c)
  <2>1. TypeOK'
    BY <1>7 DEF TypeOK, InsertSession
  <2>2. Serial'
    BY <1>7 DEF TypeOK, Serial, InsertSession
  <2>3. Owned'
    BY <1>7 DEF TypeOK, Serial, Owned, Stages, SessionAttended, InsertSession
  <2>4. Stages'
    BY <1>7 DEF TypeOK, Serial, Owned, Stages, InsertSession
  <2>5. MapHoldsLiveSession' /\ SessionAttended'
    BY <1>7 DEF TypeOK, Owned, Stages, MapHoldsLiveSession, SessionAttended, InsertSession
  <2> QED BY <2>1, <2>2, <2>3, <2>4, <2>5
<1>8. CASE FetchToken(c)
  <2>1. TypeOK'
    BY <1>8 DEF TypeOK, FetchToken
  <2>2. Serial'
    BY <1>8 DEF TypeOK, Serial, FetchToken
  <2>3. Owned'
    BY <1>8 DEF TypeOK, Serial, Owned, Stages, SessionAttended, FetchToken
  <2>4. Stages'
    BY <1>8 DEF TypeOK, Serial, Owned, Stages, FetchToken
  <2>5. MapHoldsLiveSession' /\ SessionAttended'
    BY <1>8 DEF TypeOK, Owned, Stages, MapHoldsLiveSession, SessionAttended, FetchToken
  <2> QED BY <2>1, <2>2, <2>3, <2>4, <2>5
<1> QED BY <1>1, <1>2, <1>3, <1>4, <1>5, <1>6, <1>7, <1>8 DEF Start

(* A reader leaves. *)
LEMMA ReaderStep ==
  ASSUME PtyInv, NEW c \in Sockets, ReaderExit(c) \/ ShellEnds(c)
  PROVE  PtyInv'
<1> USE PtyConstants DEF PtyInv, Procs, Starting, Closing, Goto, RemoveSession, BeginClose,
    taskVars, clientVars, mgrVars
<1>1. CASE ReaderExit(c)
  <2>1. TypeOK'
    BY <1>1 DEF TypeOK, ReaderExit
  <2>2. Serial'
    BY <1>1 DEF TypeOK, Serial, ReaderExit
  <2>3. Owned'
    BY <1>1 DEF TypeOK, Serial, Owned, Stages, SessionAttended, ReaderExit
  <2>4. Stages'
    BY <1>1 DEF TypeOK, Serial, Owned, Stages, ReaderExit
  <2>5. MapHoldsLiveSession' /\ SessionAttended'
    BY <1>1 DEF TypeOK, Owned, Stages, MapHoldsLiveSession, SessionAttended, ReaderExit
  <2> QED BY <2>1, <2>2, <2>3, <2>4, <2>5
<1>2. CASE ShellEnds(c)
  <2>1. TypeOK'
    BY <1>2 DEF TypeOK, ShellEnds
  <2>2. Serial'
    BY <1>2 DEF TypeOK, Serial, ShellEnds
  <2>3. Owned'
    BY <1>2 DEF TypeOK, Serial, Owned, Stages, SessionAttended, ShellEnds
  <2>4. Stages'
    BY <1>2 DEF TypeOK, Serial, Owned, Stages, ShellEnds
  <2>5. MapHoldsLiveSession' /\ SessionAttended'
    BY <1>2 DEF TypeOK, Owned, Stages, MapHoldsLiveSession, SessionAttended, ShellEnds
  <2> QED BY <2>1, <2>2, <2>3, <2>4, <2>5
<1> QED BY <1>1, <1>2

(* A step of close_pty_connection, or of its callers. *)
LEMMA CloseStep ==
  ASSUME PtyInv, NEW c \in Sockets, Serving(c)
  PROVE  PtyInv'
<1> USE PtyConstants DEF PtyInv, Procs, Starting, Closing, Goto, RemoveSession, BeginClose,
    taskVars, clientVars, mgrVars
<1>1. CASE CloseMessage(c)
  <2>1. TypeOK'
    BY <1>1 DEF TypeOK, CloseMessage
  <2>2. Serial'
    BY <1>1 DEF TypeOK, Serial, CloseMessage
  <2>3. Owned'
    BY <1>1 DEF TypeOK, Serial, Owned, Stages, SessionAttended, CloseMessage
  <2>4. Stages'
    BY <1>1 DEF TypeOK, Serial, Owned, Stages, CloseMessage
  <2>5. MapHoldsLiveSession' /\ SessionAttended'
    BY <1>1 DEF TypeOK, Owned, Stages, MapHoldsLiveSession, SessionAttended, CloseMessage
  <2> QED BY <2>1, <2>2, <2>3, <2>4, <2>5
<1>2. CASE Cleanup(c)
  <2>1. TypeOK'
    BY <1>2 DEF TypeOK, Cleanup
  <2>2. Serial'
    BY <1>2 DEF TypeOK, Serial, Cleanup
  <2>3. Owned'
    BY <1>2 DEF TypeOK, Serial, Owned, Stages, SessionAttended, Cleanup
  <2>4. Stages'
    BY <1>2 DEF TypeOK, Serial, Owned, Stages, Cleanup
  <2>5. MapHoldsLiveSession' /\ SessionAttended'
    BY <1>2 DEF TypeOK, Owned, Stages, MapHoldsLiveSession, SessionAttended, Cleanup
  <2> QED BY <2>1, <2>2, <2>3, <2>4, <2>5
<1>3. CASE Forget(c)
  <2>1. TypeOK'
    BY <1>3 DEF TypeOK, Forget
  <2>2. Serial'
    BY <1>3 DEF TypeOK, Serial, Forget
  <2>3. Owned'
    BY <1>3 DEF TypeOK, Serial, Owned, Stages, SessionAttended, Forget
  <2>4. Stages'
    BY <1>3 DEF TypeOK, Serial, Owned, Stages, Forget
  <2>5. MapHoldsLiveSession' /\ SessionAttended'
    BY <1>3 DEF TypeOK, Owned, Stages, MapHoldsLiveSession, SessionAttended, Forget
  <2> QED BY <2>1, <2>2, <2>3, <2>4, <2>5
<1> QED BY <1>1, <1>2, <1>3 DEF Serving

(* close_pty_connection itself, of a socket or of the UI. *)
LEMMA FinishStep ==
  ASSUME PtyInv, NEW q \in Procs, Finishing(q)
  PROVE  PtyInv'
<1> USE PtyConstants DEF PtyInv, Procs, Starting, Closing, Goto, RemoveSession, BeginClose,
    taskVars, clientVars, mgrVars
<1>1. CASE CheckGeneration(q)
  <2>1. TypeOK'
    BY <1>1 DEF TypeOK, CheckGeneration
  <2>2. Serial'
    BY <1>1 DEF TypeOK, Serial, CheckGeneration
  <2>3. Owned'
    BY <1>1 DEF TypeOK, Serial, Owned, Stages, SessionAttended, CheckGeneration
  <2>4. Stages'
    BY <1>1 DEF TypeOK, Serial, Owned, Stages, CheckGeneration
  <2>5. MapHoldsLiveSession' /\ SessionAttended'
    BY <1>1 DEF TypeOK, Owned, Stages, MapHoldsLiveSession, SessionAttended, CheckGeneration
  <2> QED BY <2>1, <2>2, <2>3, <2>4, <2>5
<1>2. CASE CloseRemove(q)
  <2>1. TypeOK'
    BY <1>2 DEF TypeOK, Owned, SessionAttended, CloseRemove
  <2>2. Serial'
    BY <1>2 DEF TypeOK, Serial, CloseRemove
  <2>3. Owned'
    BY <1>2 DEF TypeOK, Serial, Owned, Stages, SessionAttended, CloseRemove
  <2>4. Stages'
    BY <1>2 DEF TypeOK, Serial, Owned, Stages, CloseRemove
  <2>5. MapHoldsLiveSession' /\ SessionAttended'
    BY <1>2 DEF TypeOK, Owned, Stages, MapHoldsLiveSession, SessionAttended, CloseRemove
  <2> QED BY <2>1, <2>2, <2>3, <2>4, <2>5
<1>3. CASE CloseUntype(q)
  <2>1. TypeOK'
    BY <1>3 DEF TypeOK, CloseUntype
  <2>2. Serial'
    BY <1>3 DEF TypeOK, Serial, CloseUntype
  <2>3. Owned'
    BY <1>3 DEF TypeOK, Serial, Owned, Stages, SessionAttended, CloseUntype
  <2>4. Stages'
    BY <1>3 DEF TypeOK, Serial, Owned, Stages, CloseUntype
  <2>5. MapHoldsLiveSession' /\ SessionAttended'
    BY <1>3 DEF TypeOK, Owned, Stages, MapHoldsLiveSession, SessionAttended, CloseUntype
  <2> QED BY <2>1, <2>2, <2>3, <2>4, <2>5
<1> QED BY <1>1, <1>2, <1>3 DEF Finishing

(* The UI disconnects a local shell. *)
LEMMA UIStep == ASSUME PtyInv, Disconnect \/ DisconnectDone PROVE PtyInv'
<1> USE PtyConstants DEF PtyInv, Procs, Starting, Closing, Goto, BeginClose,
    taskVars, clientVars, mgrVars
<1>1. TypeOK'
  <2>1. CASE Disconnect
    BY <2>1 DEF TypeOK, Disconnect
  <2>2. CASE DisconnectDone
    BY <2>2 DEF TypeOK, DisconnectDone
  <2> QED BY <2>1, <2>2
<1>2. Serial' /\ Stages'
  BY DEF TypeOK, Serial, Stages, Disconnect, DisconnectDone
<1>3. Owned'
  BY DEF TypeOK, Owned, Disconnect, DisconnectDone
<1>4. MapHoldsLiveSession' /\ SessionAttended'
  BY DEF TypeOK, MapHoldsLiveSession, SessionAttended, Disconnect, DisconnectDone
<1> QED BY <1>1, <1>2, <1>3, <1>4

LEMMA PtyNext == ASSUME ~Overlap, PtyInv, [Next]_vars PROVE PtyInv'
<1>1. CASE \E c \in Sockets : Mount(c) \/ Learn(c) \/ Unmount(c) \/ Drop(c)
  BY <1>1, ClientStep
<1>2. CASE \E c \in Sockets : Start(c) \/ Serving(c) \/ ReaderExit(c) \/ ShellEnds(c)
  BY <1>2, StartStep, ReaderStep, CloseStep
<1>3. CASE Disconnect \/ DisconnectDone
  BY <1>3, UIStep
<1>4. CASE \E q \in Procs : Finishing(q)
  BY <1>4, FinishStep
<1>5. CASE UNCHANGED vars
  BY <1>5 DEF PtyInv, TypeOK, Serial, Owned, Stages, MapHoldsLiveSession, SessionAttended,
              vars, taskVars, clientVars, mgrVars
<1> QED BY <1>1, <1>2, <1>3, <1>4, <1>5 DEF Next

LEMMA PtyInvImplies == PtyInv => SessionsAreOwn
<1> SUFFICES ASSUME PtyInv PROVE OwnOutput
  BY DEF PtyInv, SessionsAreOwn
<1> QED BY DEF PtyInv, Owned, OwnOutput

(* As long as StartPty requests do not overlap, in every state a terminal shows the *)
(* output of its own shell, and the stored session of a connection id is live and   *)
(* attended by the socket that started it (start_pty_connection, close_pty_         *)
(* connection and the reader of websocket_server.rs).                               *)
THEOREM SessionsStayOwn == ASSUME ~Overlap PROVE Spec => []SessionsAreOwn
<1>1. PtyInv /\ [Next]_vars => PtyInv'
  BY PtyNext
<1> QED BY PtyInit, <1>1, PtyInvImplies, PTL DEF Spec

=============================================================================
