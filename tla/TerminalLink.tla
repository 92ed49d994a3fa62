---------------------------- MODULE TerminalLink ----------------------------
(***************************************************************************)
(* The link of one terminal tab to the bridge, as pty-terminal.tsx keeps   *)
(* it: wait for a size, ask for the endpoint, open a socket, start the     *)
(* PTY, and after a failure or a drop set a timer and do it again.  Every  *)
(* run of the component's effect (a "mount") has its own chain of these    *)
(* steps; the counters, the reported status and the socket reference       *)
(* belong to the component and outlive a run, unless the tab is            *)
(* reconnected by the application, which makes a component anew.           *)
(*                                                                         *)
(* What the bridge does with the socket is PtyLifecycle; here it answers,  *)
(* refuses or drops at any moment.  Output is a sequence of chunks, some   *)
(* of which decode to nothing (the first bytes of a character).            *)
(***************************************************************************)
EXTENDS Naturals, Sequences

CONSTANTS
  MaxMounts,      \* bound: runs of the effect
  MaxAttempts,    \* MAX_RECONNECT_ATTEMPTS
  MaxDropRetries, \* MAX_AUTO_RECONNECT_AFTER_DROP
  MaxDrops,       \* bound: sessions the bridge ends after they started
  MaxChunks       \* bound: chunks of output

Mounts == 1 .. MaxMounts

VARIABLES
  mount,      \* the number of the last run of the effect
  alive,      \* isRunning of that run
  phase,      \* mount -> where its chain is
  ever,       \* hasEverConnected of the last run
  redrop,     \* isReconnectAfterDrop of the last run
  attempts,   \* reconnectAttemptsRef
  dropTries,  \* autoReconnectAfterDropRef
  status,     \* connectionStatusRef, what the application was last told
  auto,       \* the setting autoReconnect
  drops,      \* drops so far
  sent,       \* the chunks that came in this run, in order: whether it is empty
  queue,      \* ptyOutputQueue, by number
  writing,    \* ptyWritePending: the chunk xterm is parsing, 0 for none
  shown       \* chunks xterm has parsed in this run, in order

vars == <<mount, alive, phase, ever, redrop, attempts, dropTries, status, auto, drops,
          sent, queue, writing, shown>>
retries == <<ever, redrop, attempts, dropTries>>
output == <<sent, queue, writing, shown>>

Socket == {"opening", "open", "started"}    \* "started": the Success message has come
Phase == {"none", "sizing", "dialing", "timer", "closing", "stopped", "ended"} \cup Socket
Running(m) == alive /\ m = mount
Here(p) == alive /\ phase[mount] = p
At(p) == phase' = [phase EXCEPT ![mount] = p]

Init ==
  /\ mount = 1 /\ alive = TRUE
  /\ phase = [m \in Mounts |-> IF m = 1 THEN "sizing" ELSE "none"]
  /\ ever = FALSE /\ redrop = FALSE /\ attempts = 0 /\ dropTries = 0
  /\ status = "connecting" /\ auto \in BOOLEAN /\ drops = 0
  /\ sent = <<>> /\ queue = <<>> /\ writing = 0 /\ shown = <<>>

(***************************************************************************)
(* scheduleReconnect                                                       *)
(***************************************************************************)
GiveUp == At("stopped") /\ status' = "disconnected" /\ UNCHANGED retries
AfterDrop ==
  IF ~auto \/ dropTries >= MaxDropRetries
  THEN GiveUp
  ELSE /\ At("timer") /\ status' = "connecting"
       /\ dropTries' = dropTries + 1
       /\ redrop' = TRUE /\ ever' = FALSE /\ attempts' = 0
AfterFailure ==
  IF attempts >= MaxAttempts
  THEN GiveUp
  ELSE /\ At("timer") /\ status' = "connecting"
       /\ attempts' = attempts + 1 /\ UNCHANGED <<ever, redrop, dropTries>>
Schedule == IF ever THEN AfterDrop ELSE AfterFailure

(***************************************************************************)
(* connectWebSocket.  A run that is over leaves its awaits to end alone.   *)
(***************************************************************************)
Quits(m) == ~Running(m) /\ phase' = [phase EXCEPT ![m] = "ended"] /\ UNCHANGED status
Sized(m) ==
  /\ phase[m] = "sizing"
  /\ \/ Quits(m)
     \/ Running(m) /\ At("dialing") /\ status' = "connecting"
  /\ UNCHANGED <<mount, alive, retries, auto, drops, output>>
Endpoint(m) ==
  /\ phase[m] = "dialing"
  /\ \/ Quits(m)
     \/ Running(m) /\ At("opening") /\ UNCHANGED status
  /\ UNCHANGED <<mount, alive, retries, auto, drops, output>>
NoEndpoint ==
  /\ Here("dialing") /\ Schedule
  /\ UNCHANGED <<mount, alive, auto, drops, output>>
TimerFires ==
  /\ Here("timer") /\ At("sizing")
  /\ UNCHANGED <<mount, alive, retries, status, auto, drops, output>>

(***************************************************************************)
(* The socket's handlers                                                   *)
(***************************************************************************)
Opens ==
  /\ Here("opening") /\ At("open")
  /\ UNCHANGED <<mount, alive, retries, status, auto, drops, output>>
(* onerror; onclose follows. *)
Refused ==
  /\ Here("opening") /\ At("closing") /\ status' = "disconnected"
  /\ UNCHANGED <<mount, alive, retries, auto, drops, output>>
Success ==
  /\ Here("open") /\ At("started")
  /\ attempts' = 0 /\ dropTries' = 0 /\ ever' = TRUE /\ redrop' = FALSE
  /\ UNCHANGED <<mount, alive, status, auto, drops, output>>
PtyStarted ==
  /\ Here("started") /\ status' = "connected"
  /\ UNCHANGED <<mount, alive, phase, retries, auto, drops, output>>
(* An Error message: permanent ones end the retries.  The component closes the       *)
(* socket and tells the application.                                                *)
StartError(permanent) ==
  /\ Here("open") /\ At("closing") /\ status' = "disconnected"
  /\ attempts' = IF permanent THEN MaxAttempts ELSE attempts
  /\ UNCHANGED <<mount, alive, ever, redrop, dropTries, auto, drops, output>>
LostError(permanent) ==
  /\ Here("started") /\ drops < MaxDrops /\ drops' = drops + 1
  /\ At("closing") /\ status' = "disconnected"
  /\ attempts' = IF permanent THEN MaxAttempts ELSE attempts
  /\ UNCHANGED <<mount, alive, ever, redrop, dropTries, auto, output>>
(* The connection of the socket is lost. *)
Drops ==
  /\ Here("started") /\ drops < MaxDrops /\ drops' = drops + 1 /\ At("closing")
  /\ UNCHANGED <<mount, alive, retries, status, auto, output>>
DropsEarly ==
  /\ Here("open") /\ At("closing")
  /\ UNCHANGED <<mount, alive, retries, status, auto, drops, output>>
Closed ==
  /\ Here("closing") /\ Schedule
  /\ UNCHANGED <<mount, alive, auto, drops, output>>

(***************************************************************************)
(* Output: writePtyOutput and pumpPtyOutput.  An empty chunk that is       *)
(* shifted ends the pump without a write.                                  *)
(***************************************************************************)
Pump(q) ==
  /\ queue' = IF q = <<>> THEN <<>> ELSE Tail(q)
  /\ writing' = IF q = <<>> \/ sent'[Head(q)] THEN 0 ELSE Head(q)
Arrives(empty) == Here("started") /\ Len(sent) < MaxChunks /\ sent' = Append(sent, empty)
Output_Restarts(empty) ==
  /\ Arrives(empty) /\ Pump(Append(queue, Len(sent) + 1))
  /\ UNCHANGED <<mount, alive, phase, retries, status, auto, drops, shown>>
Output(empty) ==
  /\ Arrives(empty)
  /\ LET q == Append(queue, Len(sent) + 1)
     IN IF writing # 0 THEN queue' = q /\ UNCHANGED writing ELSE Pump(q)
  /\ UNCHANGED <<mount, alive, phase, retries, status, auto, drops, shown>>
Written ==
  /\ alive /\ writing # 0 /\ shown' = Append(shown, writing)
  /\ UNCHANGED sent /\ Pump(queue)
  /\ UNCHANGED <<mount, alive, phase, retries, status, auto, drops>>

(***************************************************************************)
(* The effect's cleanup, and its next run                                  *)
(***************************************************************************)
CleanedPhase == IF phase[mount] \in {"sizing", "dialing"} THEN phase[mount] ELSE "ended"
Cleaned == sent' = <<>> /\ queue' = <<>> /\ writing' = 0 /\ shown' = <<>>
Starts ==
  /\ alive /\ mount < MaxMounts /\ mount' = mount + 1
  /\ phase' = [phase EXCEPT ![mount] = CleanedPhase, ![mount + 1] = "sizing"]
  /\ Cleaned /\ ever' = FALSE /\ redrop' = FALSE
  /\ UNCHANGED <<alive, auto, drops>>
(* RECONNECT_TAB: the component is made anew. *)
Remount == Starts /\ attempts' = 0 /\ dropTries' = 0 /\ status' = "connecting"
(* The renderer changes: the effect runs again, the references stay. *)
Restart == Starts /\ UNCHANGED <<attempts, dropTries, status>>
Unmount ==
  /\ alive /\ alive' = FALSE
  /\ phase' = [phase EXCEPT ![mount] = CleanedPhase]
  /\ Cleaned
  /\ UNCHANGED <<mount, retries, status, auto, drops>>
ToggleAuto ==
  /\ auto' = ~auto
  /\ UNCHANGED <<mount, alive, phase, retries, status, drops, output>>

Attempt(m) == Sized(m) \/ Endpoint(m)
Handlers ==
  NoEndpoint \/ TimerFires \/ Opens \/ Refused \/ Success \/ PtyStarted \/ Closed
  \/ DropsEarly \/ \E p \in BOOLEAN : StartError(p)
Next ==
  \/ \E m \in Mounts : Attempt(m)
  \/ Handlers \/ Drops \/ \E b \in BOOLEAN : LostError(b) \/ Output(b)
  \/ Written \/ Remount \/ Restart \/ Unmount \/ ToggleAuto
Spec == Init /\ [][Next]_vars
(* Awaited promises settle, timers fire, a socket opens, fails or closes. *)
Progress == (\E m \in Mounts : Attempt(m)) \/ (Handlers /\ phase' # phase)
Fairness == WF_vars(Progress)
FairSpec == Spec /\ Fairness

TypeOK ==
  /\ mount \in Mounts /\ alive \in BOOLEAN /\ phase \in [Mounts -> Phase]
  /\ ever \in BOOLEAN /\ redrop \in BOOLEAN /\ auto \in BOOLEAN
  /\ attempts \in 0 .. MaxAttempts /\ dropTries \in 0 .. MaxDropRetries
  /\ status \in {"connecting", "connected", "disconnected"}
  /\ drops \in 0 .. MaxDrops /\ sent \in Seq(BOOLEAN) /\ writing \in 0 .. Len(sent)
  /\ queue \in Seq(1 .. Len(sent)) /\ shown \in Seq(1 .. Len(sent))
(* Only the run of the effect that is mounted has a socket or a timer: what an ended  *)
(* run awaited never opens a socket, which no cleanup would close.                    *)
OnlyTheMountTalks ==
  \A m \in Mounts : phase[m] \in Socket \cup {"timer", "closing", "stopped"} => Running(m)
(* A tab said to be connected has a started session, or its end is on the way: the    *)
(* socket is closing, or a restarted effect still waits for a size.                   *)
ConnectedIsLive ==
  alive /\ status = "connected" => phase[mount] \in {"started", "closing", "sizing"}
(* A success clears the count of drops, so a drop always finds it at zero: the limit  *)
(* on reconnects after drops and its longer delays are never reached.                 *)
DropCountRestarts == ever => dropTries = 0
(* The queue is what came last, in order; xterm has shown or is writing all of what    *)
(* came before but for empty chunks, in order, nothing twice; and the queue waits for a *)
(* write, or else behind an empty chunk, which ended the pump.                          *)
OutputInOrder ==
  LET taken == Len(sent) - Len(queue)
      given == {shown[i] : i \in DOMAIN shown} \cup ({writing} \ {0})
  IN /\ \A k \in DOMAIN queue : queue[k] = taken + k
     /\ given = {n \in 1 .. taken : ~sent[n]}
     /\ \A i, j \in DOMAIN shown : i < j => shown[i] < shown[j]
     /\ writing # 0 => \A i \in DOMAIN shown : shown[i] < writing
     /\ queue # <<>> /\ writing = 0 => sent[taken]
(* A link that is being made is made, given up, or its tab goes.                      *)
Made == ~alive \/ phase[mount] \in {"started", "stopped"}

(* Types and invariants together. *)
Inv == TypeOK /\ OnlyTheMountTalks /\ ConnectedIsLive /\ DropCountRestarts /\ OutputInOrder
=============================================================================
