----------------------------- MODULE PanelsProofs -----------------------------
(***************************************************************************)
(* Proofs about what works on a session that is up (MCPanels): a GPU panel *)
(* shows its own connection, a spinning log viewer has a read under way,   *)
(* and an editor's unmodified text is the server's (ShownIsTrue); what a   *)
(* synchronization or a directory transfer reports complete is             *)
(* (SyncKeepsItsWord); and what was cancelled or left begins nothing more  *)
(* (CancelStops); for any connections, logs, marks, trees, configurations  *)
(* and bounds.                                                             *)
(*                                                                         *)
(* The parts are instances whose variables are v1, v2, ... there:          *)
(*   Monitor   v1 panel, v2 conn, v3 active, v4 run, v5 requests, v6 shown,*)
(*             v7 trend, v8 gpu, v9 target, v10 kills, v11 failures        *)
(*   Log       v1 conn, v2 sources, v3 selected, v4 auto, v5 lines,        *)
(*             v6 loading, v7 discovering, v8 calls, v9 moves,             *)
(*             v10 failures                                                *)
(*   Forwards  v1 live, v2 sessions, v3 forwards, v4 starts, v5 auto,      *)
(*             v6 marks, v7 conn, v8 open, v9 shown, v10 editing,          *)
(*             v11 listings, v12 moves, v13 failures                       *)
(*   Editor    v1 isConnected, v2 content, v3 savedContent, v4 remote,     *)
(*             v5 loading, v6 saving, v7 error, v8 loads, v9 saves,        *)
(*             v10 overlap, v11 download, v12 downloading, v13 mounted,    *)
(*             v14 edits, v15 nsaves, v16 nloads, v17 failures             *)
(*   Sync      v1 dialog, v2 tree, v3 open, v4 scope, v5 config, v6 phase, *)
(*             v7 entries, v8 cancel, v9 runs, v10 started, v11 report,    *)
(*             v12 basis                                                   *)
(***************************************************************************)
EXTENDS MCPanels, TLAPS

(***************************************************************************)
(* Monitors                                                                *)
(***************************************************************************)
(* Requests of the present run were made for the active connection, one that sleeps *)
(* has an attempt left, and only the process list has commands of a user.           *)
MonitorRequests ==
  /\ \A q \in v5 : /\ q.run <= v4 /\ (q.run = v4 /\ v3 => q.of = v2)
                   /\ q.asleep => q.left > 0
                   /\ q.kind \in {"kill", "refresh"} => v1 = "processes"
  /\ v9 # None => v1 = "processes"
MonitorSound == Monitor!Inv /\ MonitorRequests

LEMMA MonitorInit == Monitor!Init => MonitorSound
<1> SUFFICES ASSUME Monitor!Init PROVE MonitorSound
  OBVIOUS
<1>1. v2 \in Conns /\ 1 \in 1 .. MaxEffects /\ {Retries, MaxLost, MaxKills} \subseteq Nat
  BY PanelsConstants DEF Monitor!Init, Monitor!Start
<1>2. Monitor!TypeOK
  BY <1>1 DEF Monitor!Init, Monitor!Start, Monitor!TypeOK, Monitor!Kinds, Monitor!Request
<1>3. Monitor!GpuIsOfConnection
  BY DEF Monitor!Init, Monitor!Start, Monitor!GpuIsOfConnection, Monitor!Found
<1>4. MonitorRequests
  BY <1>1 DEF Monitor!Init, Monitor!Start, MonitorRequests, Monitor!Request
<1> QED BY <1>2, <1>3, <1>4 DEF MonitorSound, Monitor!Inv

(* The runs of the effect only count up; a new one asks for the connection it is for. *)
LEMMA MonitorRerun ==
  ASSUME MonitorSound, v2' \in Conns, v3' \in BOOLEAN, v2' = v2 \/ v3' = v3, Monitor!Rerun
  PROVE  MonitorSound'
<1> DEFINE q == Monitor!Request("first", v2', v4 + 1, Retries)
<1>1. Monitor!TypeOK /\ MonitorRequests /\ v4 < MaxEffects /\ v4' = v4 + 1 /\ v4' \in 1 .. MaxEffects
  BY PanelsConstants DEF MonitorSound, Monitor!Inv, Monitor!Rerun, Monitor!TypeOK
<1>2. q \in [kind : {"first"}, of : {v2'}, run : {v4'}, left : {Retries}, asleep : {FALSE}] /\ q \in Monitor!Kinds'
  BY <1>1, PanelsConstants DEF Monitor!Request, Monitor!Kinds
<1>3. /\ v5 \subseteq v5' /\ v5' \subseteq v5 \cup (IF v3' THEN {q} ELSE {})
      /\ UNCHANGED <<v1, v9, v10, v11>>
  BY DEF Monitor!Rerun, Monitor!bounds
<1>4. /\ v6' \in {v6, None} /\ v7' \in {v7, {}} /\ v8' \in {v8, None}
      /\ v3' /\ v1 = "gpu" => v6' = None /\ v7' = {} /\ v8' = None
  BY DEF Monitor!Rerun, Monitor!Forget
<1> HIDE DEF q
<1>5. Monitor!TypeOK'
  BY <1>1, <1>2, <1>3, <1>4 DEF Monitor!TypeOK, Monitor!Kinds
<1>6. MonitorRequests'
  <2>1. v4 \in Nat
    BY <1>1, PanelsConstants DEF Monitor!TypeOK
  <2>3. q.run = v4' /\ q.of = v2' /\ q.asleep = FALSE /\ q.kind = "first"
    BY <1>2
  <2>2. \A r \in v5 : r.run \in Nat
    BY <1>1, PanelsConstants DEF Monitor!TypeOK, Monitor!Kinds
  <2> QED BY <1>1, <1>3, <2>1, <2>2, <2>3 DEF MonitorRequests
<1>7. Monitor!GpuIsOfConnection'
  BY <1>3, <1>4 DEF Monitor!GpuIsOfConnection, Monitor!Found
<1> QED BY <1>5, <1>6, <1>7 DEF MonitorSound, Monitor!Inv

(* Answers, failures and wake-ups leave the run alone. *)
LEMMA MonitorRequest ==
  ASSUME MonitorSound, NEW q \in v5, Monitor!Ends(q) \/ Monitor!Fail(q)
  PROVE  MonitorSound'
<1> USE DEF Monitor!bounds
<1>1. /\ Monitor!TypeOK /\ MonitorRequests /\ Monitor!GpuIsOfConnection
      /\ q \in Monitor!Kinds /\ {Retries, MaxLost, MaxKills} \subseteq Nat /\ MaxEffects \in Nat
  BY PanelsConstants DEF MonitorSound, Monitor!Inv, Monitor!TypeOK
<1>2. UNCHANGED <<v1, v2, v3, v4, v10>> /\ v9' \in {v9, None}
  BY DEF Monitor!Ends, Monitor!Fail, Monitor!Answer, Monitor!Wake, Monitor!Killed, Monitor!Refreshed
<1> DEFINE Again ==
      {r \in Monitor!Kinds : /\ r.of = q.of /\ r.run = q.run /\ (r.asleep => r.left > 0)
                             /\ (r.kind \in {"kill", "refresh"} => q.kind \in {"kill", "refresh"})}
<1>3. v5' \subseteq v5 \cup Again
  <2>1. CASE \E ok \in BOOLEAN : Monitor!Killed(q, ok)
    <3>1. [q EXCEPT !.kind = "refresh"] \in Again /\ q.kind = "kill"
      BY <1>1, <2>1 DEF Monitor!Kinds, MonitorRequests, Monitor!Killed
    <3> QED BY <2>1, <3>1 DEF Monitor!Killed
  <2>2. CASE Monitor!Wake(q)
    <3>1. q.left \in Nat /\ q.left > 0 /\ q.left - 1 \in 0 .. Retries
      BY <1>1, <2>2 DEF Monitor!Kinds, MonitorRequests, Monitor!Wake
    <3>2. [q EXCEPT !.asleep = FALSE, !.left = @ - 1] \in Monitor!Kinds
      BY <1>1, <3>1 DEF Monitor!Kinds
    <3>3. LET r == [q EXCEPT !.asleep = FALSE, !.left = @ - 1] IN r.of = q.of /\ r.run = q.run /\ ~r.asleep /\ r.kind = q.kind
      BY <1>1 DEF Monitor!Kinds
    <3>4. [q EXCEPT !.asleep = FALSE, !.left = @ - 1] \in Again
      BY <3>2, <3>3
    <3> QED BY <2>2, <3>4 DEF Monitor!Wake
  <2>3. CASE Monitor!Fail(q)
    <3>1. [q EXCEPT !.asleep = TRUE] \in Monitor!Kinds
      BY <1>1 DEF Monitor!Kinds
    <3>2. LET r == [q EXCEPT !.asleep = TRUE] IN r.of = q.of /\ r.run = q.run /\ r.left = q.left /\ r.kind = q.kind
      BY <1>1 DEF Monitor!Kinds
    <3>3. q.left # 0 => q.left > 0
      BY <1>1 DEF Monitor!Kinds
    <3>4. q.left # 0 => [q EXCEPT !.asleep = TRUE] \in Again
      BY <3>1, <3>2, <3>3
    <3> QED BY <2>3, <3>4 DEF Monitor!Fail
  <2>4. CASE Monitor!Answer(q) \/ \E ok \in BOOLEAN : Monitor!Refreshed(q, ok)
    BY <2>4 DEF Monitor!Answer, Monitor!Refreshed
  <2> QED BY <2>1, <2>2, <2>3, <2>4 DEF Monitor!Ends
<1>4. \/ /\ UNCHANGED <<v6, v7, v11>> 
         /\ \/ v8' = v8 \/ v8' = [of |-> q.of, found |-> FALSE]
            \/ ~Monitor!Cancelled(q) /\ v8' \in {[of |-> q.of, found |-> b] : b \in BOOLEAN}
      \/ /\ UNCHANGED <<v8, v11>> /\ v6' = q.of /\ v7' \in {v7, v7 \cup {q.of}}
         /\ v1 = "gpu" => ~Monitor!Cancelled(q)
      \/ UNCHANGED <<v6, v7>> /\ v11' \in 0 .. MaxLost /\ (v8' = v8 \/ v8' = [of |-> q.of, found |-> FALSE])
  <2>1. CASE Monitor!Answer(q)
    BY <1>1, <2>1 DEF Monitor!Answer, Monitor!Ignored, Monitor!Detects, Monitor!Shows
  <2>2. CASE Monitor!Fail(q)
    BY <1>1, <2>2 DEF Monitor!Fail, Monitor!TypeOK
  <2>3. CASE Monitor!Wake(q) \/ \E ok \in BOOLEAN : Monitor!Killed(q, ok)
    BY <2>3 DEF Monitor!Wake, Monitor!Killed
  <2>4. CASE \E ok \in BOOLEAN : Monitor!Refreshed(q, ok)
    <3>1. v1 # "gpu"
      BY <1>1, <2>4 DEF Monitor!Refreshed, MonitorRequests
    <3> QED BY <2>4, <3>1 DEF Monitor!Refreshed, Monitor!Ignored, Monitor!Shows
  <2> QED BY <2>1, <2>2, <2>3, <2>4 DEF Monitor!Ends
<1>5. Monitor!TypeOK'
  <2>1. v5' \subseteq Monitor!Kinds' /\ v9' \in Conns \cup {None}
    BY <1>1, <1>2, <1>3 DEF Monitor!TypeOK, Monitor!Kinds
  <2>2. q.of \in Conns /\ \A b \in BOOLEAN : [of |-> q.of, found |-> b] \in [of : Conns, found : BOOLEAN]
    BY <1>1 DEF Monitor!Kinds
  <2>3. v6' \in Conns \cup {None} /\ v7' \subseteq Conns /\ v11' \in 0 .. MaxLost /\ v8' \in [of : Conns, found : BOOLEAN] \cup {None}
    BY <1>1, <1>4, <2>2 DEF Monitor!TypeOK
  <2> QED BY <1>1, <1>2, <2>1, <2>3 DEF Monitor!TypeOK
<1>6. MonitorRequests'
  BY <1>1, <1>2, <1>3 DEF MonitorRequests
<1>7. Monitor!GpuIsOfConnection'
  BY <1>1, <1>2, <1>4 DEF Monitor!GpuIsOfConnection, Monitor!Found, Monitor!Cancelled, MonitorRequests
<1> QED BY <1>5, <1>6, <1>7 DEF MonitorSound, Monitor!Inv

LEMMA MonitorStep == MonitorSound /\ [Monitor!Next]_(Monitor!vars) => MonitorSound'
<1> SUFFICES ASSUME MonitorSound, [Monitor!Next]_(Monitor!vars) PROVE MonitorSound'
  OBVIOUS
<1> USE DEF Monitor!bounds
<1>1. /\ Monitor!TypeOK /\ MonitorRequests /\ Monitor!GpuIsOfConnection
      /\ {Retries, MaxLost, MaxKills} \subseteq Nat /\ MaxEffects \in Nat
  BY PanelsConstants DEF MonitorSound, Monitor!Inv
<1>2. CASE Monitor!Switch \/ Monitor!Show \/ Monitor!Configure
  <2>1. v2' \in Conns /\ v3' \in BOOLEAN /\ (v2' = v2 \/ v3' = v3) /\ Monitor!Rerun
    BY <1>1, <1>2 DEF Monitor!Switch, Monitor!Show, Monitor!Configure, Monitor!TypeOK
  <2> QED BY <2>1, MonitorRerun
<1>3. ASSUME Monitor!Tick \/ Monitor!Kill PROVE MonitorSound'
  <2> DEFINE New == {r \in Monitor!Kinds : r.of = v2 /\ r.run = v4 /\ ~r.asleep /\ (r.kind \in {"kill", "refresh"} => v1 = "processes")}
  <2>1. v5' \subseteq v5 \cup New
    <3>1. Monitor!Tick => Monitor!Request("tick", v2, v4, 0) \in New
      BY <1>1 DEF Monitor!TypeOK, Monitor!Request, Monitor!Kinds
    <3>2. Monitor!Kill => Monitor!Request("kill", v2, v4, 0) \in New
      BY <1>1 DEF Monitor!TypeOK, Monitor!Request, Monitor!Kinds, Monitor!Kill, MonitorRequests
    <3> QED BY <1>3, <3>1, <3>2 DEF Monitor!Tick, Monitor!Kill
  <2>2. UNCHANGED <<v1, v2, v3, v4, v6, v7, v8, v11>> /\ v9' \in {v9, None} /\ v10' \in 0 .. MaxKills
    BY <1>1, <1>3 DEF Monitor!Tick, Monitor!Kill, Monitor!TypeOK
  <2>3. Monitor!TypeOK'
    BY <1>1, <2>1, <2>2 DEF Monitor!TypeOK, Monitor!Kinds
  <2>4. MonitorRequests'
    <3>1. v4 <= v4
      BY <1>1 DEF Monitor!TypeOK
    <3> QED BY <1>1, <2>1, <2>2, <3>1 DEF MonitorRequests
  <2> QED BY <1>1, <2>2, <2>3, <2>4 DEF MonitorSound, Monitor!Inv, Monitor!GpuIsOfConnection, Monitor!Found
<1>4. CASE Monitor!Pick \/ Monitor!Dismiss
  BY <1>1, <1>4 DEF Monitor!Pick, Monitor!Dismiss, MonitorSound, Monitor!Inv, Monitor!TypeOK, Monitor!Kinds, MonitorRequests,
     Monitor!GpuIsOfConnection, Monitor!Found
<1>5. CASE UNCHANGED Monitor!vars
  BY <1>1, <1>5 DEF Monitor!vars, MonitorSound, Monitor!Inv, Monitor!TypeOK, Monitor!Kinds, MonitorRequests,
     Monitor!GpuIsOfConnection, Monitor!Found
<1> QED BY <1>2, <1>3, <1>4, <1>5, MonitorRequest DEF Monitor!Next

(***************************************************************************)
(* Log viewer                                                              *)
(***************************************************************************)
LogReads == \A q \in v8 : q.kind # "discover" => q.id \in Log!Ids
LogSound == Log!Inv /\ LogReads

LEMMA LogInit == Log!Init => LogSound
<1> SUFFICES ASSUME Log!Init PROVE LogSound
  OBVIOUS
<1>1. v1 \in Conns
  BY PanelsConstants DEF Log!Init
<1>2. v8 = {Log!Call("discover", v1, None)}
  BY DEF Log!Init
<1>3. v8 \subseteq [kind : {"discover", "load", "auto"}, of : Conns, id : Log!Ids \cup {None}] /\ LogReads
  BY <1>1, <1>2 DEF Log!Call, LogReads
<1>4. {v4, v6, v7} \subseteq BOOLEAN /\ v2 = {} /\ v3 = None /\ v5 = None /\ v6 = FALSE
  BY DEF Log!Init
<1> QED BY <1>1, <1>3, <1>4 DEF LogSound, Log!Inv, Log!TypeOK, Log!SpinnerHasRead

LEMMA LogStep == LogSound /\ [Log!Next]_(Log!vars) => LogSound'
<1> SUFFICES ASSUME LogSound, [Log!Next]_(Log!vars) PROVE LogSound'
  OBVIOUS
<1> USE DEF Log!Call
<1>1. Log!TypeOK /\ Log!SpinnerHasRead /\ LogReads
  BY DEF LogSound, Log!Inv
<1> DEFINE Calls == [kind : {"discover", "load", "auto"}, of : Conns, id : Log!Ids \cup {None}]
           Grows(c) == v8' = v8 \cup {c}
(* A call is added, and what it is for is a source. *)
<1>2. ASSUME NEW c \in Calls, Grows(c), c.kind # "discover" => c.id \in Log!Ids,
             v6' => v6 \/ c.kind = "load", v6' \in BOOLEAN, v7' \in BOOLEAN, v4' \in BOOLEAN,
             v1' \in Conns, v2' \subseteq Log!Ids, v3' \in Log!Ids \cup {None}, v5' \in {v5, None}
      PROVE  LogSound'
  <2>1. Log!TypeOK'
    BY <1>1, <1>2 DEF Log!TypeOK, Log!Ids
  <2>2. Log!SpinnerHasRead' /\ LogReads'
    BY <1>1, <1>2 DEF Log!SpinnerHasRead, LogReads, Log!Ids
  <2> QED BY <2>1, <2>2 DEF LogSound, Log!Inv
<1>3. ASSUME Log!Rediscover \/ Log!Switch PROVE LogSound'
  <2>1. Log!Call("discover", v1', None) \in Calls /\ Grows(Log!Call("discover", v1', None)) /\ v6' = v6
    BY <1>1, <1>3 DEF Log!Rediscover, Log!Switch, Log!Discover, Log!TypeOK
  <2>2. UNCHANGED <<v2, v3, v4, v5>> /\ v7' = TRUE /\ v1' \in Conns
    BY <1>1, <1>3 DEF Log!Rediscover, Log!Switch, Log!Discover, Log!TypeOK
  <2> QED BY <1>1, <1>2, <2>1, <2>2 DEF Log!TypeOK
<1>4. ASSUME NEW id \in Log!Ids, Log!Select(id) \/ (id \in Custom /\ Log!AddPath(id)) PROVE LogSound'
  <2>1. v3' = id /\ v2' \subseteq Log!Ids /\ v4' \in BOOLEAN /\ UNCHANGED <<v1, v7>>
    BY <1>1, <1>4 DEF Log!Select, Log!AddPath, Log!Selecting, Log!TypeOK
  <2>2. CASE id = v3
    <3>1. UNCHANGED <<v5, v6, v8>>
      BY <1>4, <2>2 DEF Log!Select, Log!AddPath, Log!Selecting
    <3> QED BY <1>1, <2>1, <3>1 DEF LogSound, Log!Inv, Log!TypeOK, Log!SpinnerHasRead, LogReads, Log!Ids
  <2>3. CASE id # v3
    <3>1. v5' = None /\ v6' = TRUE /\ Grows(Log!Call("load", v1, id))
      BY <1>4, <2>3 DEF Log!Select, Log!AddPath, Log!Selecting
    <3>2. Log!Call("load", v1, id) \in Calls
      BY <1>1 DEF Log!TypeOK
    <3> QED BY <1>1, <1>2, <2>1, <3>1, <3>2 DEF Log!TypeOK
  <2> QED BY <2>2, <2>3
<1>5. CASE Log!ToggleAuto
  BY <1>1, <1>5 DEF Log!ToggleAuto, LogSound, Log!Inv, Log!TypeOK, Log!SpinnerHasRead, LogReads, Log!Ids
<1>6. ASSUME Log!Refresh \/ Log!Tick PROVE LogSound'
  <2>1. PICK kind \in {"load", "auto"} : Grows(Log!Call(kind, v1, v3)) /\ (v6' = v6 \/ (kind = "load" /\ v6' = TRUE))
    BY <1>6 DEF Log!Refresh, Log!Tick
  <2>2. UNCHANGED <<v1, v2, v3, v4, v5, v7>> /\ v3 \in Log!Ids
    BY <1>1, <1>6 DEF Log!Refresh, Log!Tick, Log!TypeOK
  <2>3. Log!Call(kind, v1, v3) \in Calls /\ Log!Call(kind, v1, v3).id = v3 /\ Log!Call(kind, v1, v3).kind = kind
    BY <1>1, <2>2 DEF Log!TypeOK
  <2>4. v6' \in BOOLEAN /\ v7' \in BOOLEAN /\ v4' \in BOOLEAN
    BY <1>1, <2>1, <2>2 DEF Log!TypeOK
  <2>5. v1' \in Conns /\ v2' \subseteq Log!Ids /\ v3' \in Log!Ids \cup {None} /\ v5' \in {v5, None}
    BY <1>1, <2>2 DEF Log!TypeOK
  <2> HIDE DEF Calls
  <2> QED BY <1>2, <2>1, <2>2, <2>3, <2>4, <2>5
<1>7. ASSUME NEW q \in v8, Log!Answers(q) PROVE LogSound'
  <2>1. v8' = v8 \ {q} /\ UNCHANGED <<v1, v3, v4>> /\ v2' \subseteq Log!Ids /\ v7' \in BOOLEAN
    BY <1>1, <1>7 DEF Log!Answers, Log!Loaded, Log!Discovered, Log!TypeOK, Log!Ids
  <2>2. v6' \in BOOLEAN /\ (v6' => v6 /\ q.kind # "load")
    <3>1. v6 = TRUE \/ v6 = FALSE
      BY <1>1 DEF Log!TypeOK
    <3>2. (v6' = v6 /\ q.kind = "discover") \/ v6' = (v6 /\ q.kind = "auto")
      BY <1>7 DEF Log!Answers, Log!Loaded, Log!Discovered
    <3>3. v6 = FALSE => v6' = FALSE
      BY <3>2
    <3>4. v6 = TRUE => (v6' = TRUE /\ q.kind # "load") \/ v6' = FALSE
      BY <3>2
    <3> QED BY <3>1, <3>3, <3>4
  <2>3. q.of \in Conns /\ (q.kind # "discover" => q.id \in Log!Ids)
    BY <1>1 DEF Log!TypeOK, LogReads
  <2>4. v5' \in [of : Conns, id : Log!Ids] \cup {None}
    BY <1>1, <1>7, <2>3 DEF Log!Answers, Log!Loaded, Log!Discovered, Log!TypeOK
  <2>5. Log!TypeOK'
    BY <1>1, <2>1, <2>2, <2>4 DEF Log!TypeOK, Log!Ids
  <2>6. Log!SpinnerHasRead' /\ LogReads'
    BY <1>1, <2>1, <2>2 DEF Log!SpinnerHasRead, LogReads, Log!Ids
  <2> QED BY <2>5, <2>6 DEF LogSound, Log!Inv
<1>8. CASE UNCHANGED Log!vars
  BY <1>1, <1>8 DEF Log!vars, LogSound, Log!Inv, Log!TypeOK, Log!SpinnerHasRead, LogReads, Log!Ids
<1> QED BY <1>3, <1>4, <1>5, <1>6, <1>7, <1>8 DEF Log!Next, Log!Ids

(***************************************************************************)
(* Port forwards                                                           *)
(***************************************************************************)
Lists == [of : Conns, found : {{None}} \cup SUBSET Forwards!Forwards]
ForwardsSound == Forwards!TypeOK /\ v2 \in 0 .. MaxSessions /\ v11 \subseteq Lists

LEMMA ForwardsInit == Forwards!Init => ForwardsSound
<1> SUFFICES ASSUME Forwards!Init PROVE ForwardsSound
  OBVIOUS
<1>1. v7 \in Conns /\ MaxSessions \in Nat
  BY PanelsConstants DEF Forwards!Init
<1>2. 0 \in 0 .. MaxSessions
  BY <1>1
<1>3. v1 \in [Conns -> 0 .. MaxSessions] /\ v2 \in 0 .. MaxSessions /\ v8 \in BOOLEAN /\ v10 = None
  BY <1>2 DEF Forwards!Init
<1>4. v3 = {} /\ v4 = {} /\ v5 = {} /\ v6 = {} /\ v9 = {} /\ v11 = {}
  BY DEF Forwards!Init
<1> QED BY <1>1, <1>3, <1>4 DEF ForwardsSound, Forwards!TypeOK

LEMMA ForwardsStep == ForwardsSound /\ [Forwards!Next]_(Forwards!vars) => ForwardsSound'
<1> SUFFICES ASSUME ForwardsSound, [Forwards!Next]_(Forwards!vars) PROVE ForwardsSound'
  OBVIOUS
<1> DEFINE Began == [of : Conns, mark : Marks \cup {None}, session : 1 .. MaxSessions, shows : BOOLEAN]
           Stored == [id : Marks, of : Conns, auto : BOOLEAN]
<1>1. /\ v1 \in [Conns -> 0 .. MaxSessions] /\ v3 \subseteq Forwards!Forwards /\ v9 \subseteq Forwards!Forwards
      /\ v4 \subseteq Began /\ v5 \subseteq Conns /\ v6 \subseteq Stored
      /\ v7 \in Conns /\ v8 \in BOOLEAN /\ v10 \in Marks \cup {None}
      /\ v2 \in 0 .. MaxSessions /\ v11 \subseteq Lists /\ MaxSessions \in Nat
  BY PanelsConstants DEF ForwardsSound, Forwards!TypeOK
<1>0. ASSUME v1' \in [Conns -> 0 .. MaxSessions], v3' \subseteq Forwards!Forwards, v9' \subseteq Forwards!Forwards,
             v4' \subseteq Began, v5' \subseteq Conns, v6' \subseteq Stored,
             v7' \in Conns, v8' \in BOOLEAN, v10' \in Marks \cup {None},
             v2' \in 0 .. MaxSessions, v11' \subseteq Lists
      PROVE  ForwardsSound'
  BY <1>0 DEF ForwardsSound, Forwards!TypeOK, Lists, Forwards!Forwards
<1> USE DEF Forwards!backend, Forwards!dialog
(* What several actions do. *)
<1>2. ASSUME NEW c \in Conns, Forwards!Ask(c) PROVE v11' \subseteq Lists
  BY <1>1, <1>2 DEF Forwards!Ask, Lists
<1>3. ASSUME NEW c \in Conns, NEW ms \in SUBSET (Marks \cup {None}), NEW b \in BOOLEAN, v1[c] # 0, Forwards!Begin(c, ms, b)
      PROVE  v4' \subseteq Began
  <2>1. v1[c] \in 1 .. MaxSessions
    BY <1>1, <1>3
  <2>2. ASSUME NEW m \in ms PROVE [of |-> c, mark |-> m, session |-> v1[c], shows |-> b] \in Began
    BY <2>1
  <2> QED BY <1>1, <1>3, <2>2 DEF Forwards!Begin
<1>4. ASSUME NEW c \in Conns, Forwards!Connects(c) \/ Forwards!close_connection(c) PROVE ForwardsSound'
  <2>1. v2' \in 0 .. MaxSessions /\ v1' \in [Conns -> 0 .. MaxSessions] /\ v3' \subseteq v3
    BY <1>1, <1>4 DEF Forwards!Connects, Forwards!close_connection
  <2>2. UNCHANGED <<v4, v5, v6, v7, v8, v9, v10, v11>>
    BY <1>4 DEF Forwards!Connects, Forwards!close_connection
  <2> QED BY <1>1, <2>1, <2>2, <1>0
<1>5. ASSUME NEW c \in Conns, Forwards!AutoStart(c) \/ Forwards!AutoForget(c) \/ Forwards!DropProfile(c) PROVE ForwardsSound'
  <2>1. v4' \subseteq Began
    <3>1. {b.id : b \in {x \in v6 : x.of = c /\ x.auto}} \in SUBSET (Marks \cup {None})
      BY <1>1
    <3> QED BY <1>1, <1>3, <1>5, <3>1 DEF Forwards!AutoStart, Forwards!AutoForget, Forwards!DropProfile, Forwards!Keeps
  <2>2. v5' \subseteq Conns /\ v6' \subseteq v6 /\ UNCHANGED <<v1, v2, v3, v7, v8, v9, v10, v11>>
    BY <1>1, <1>5 DEF Forwards!AutoStart, Forwards!AutoForget, Forwards!DropProfile, Forwards!Keeps
  <2> QED BY <1>1, <2>1, <2>2, <1>0
<1>6. ASSUME NEW s \in v4, NEW ok \in BOOLEAN, Forwards!start_local(s, ok) PROVE ForwardsSound'
  <2>1. s.of \in Conns /\ [of |-> s.of, mark |-> s.mark, session |-> s.session] \in Forwards!Forwards
    BY <1>1 DEF Forwards!Forwards
  <2>2. v3' \subseteq Forwards!Forwards /\ v4' \subseteq v4 /\ UNCHANGED <<v1, v2, v5, v6, v7, v8, v9, v10>>
    BY <1>1, <1>6, <2>1 DEF Forwards!start_local
  <2>3. v11' \subseteq Lists
    BY <1>1, <1>2, <1>6, <2>1 DEF Forwards!start_local
  <2> QED BY <1>1, <2>2, <2>3, <1>0
<1>7. ASSUME NEW m \in Marks \cup {None}, Forwards!Starts(m) PROVE ForwardsSound'
  <2>1. UNCHANGED <<v1, v2, v3, v5, v6, v7, v8, v9, v10, v11>> /\ v1[v7] # 0 /\ Forwards!Begin(v7, {m}, TRUE)
    BY <1>7 DEF Forwards!Starts, Forwards!canManage
  <2>2. v4' \subseteq Began
    BY <1>1, <1>3, <2>1
  <2> QED BY <1>1, <2>1, <2>2, <1>0
<1>8. ASSUME NEW f \in v9, Forwards!Stops(f) PROVE ForwardsSound'
  <2>1. v3' \subseteq v3 /\ UNCHANGED <<v1, v2, v4, v5, v6, v7, v8, v9, v10>>
    BY <1>8 DEF Forwards!Stops
  <2>2. v11' \subseteq Lists
    BY <1>1, <1>2, <1>8 DEF Forwards!Stops
  <2> QED BY <1>1, <2>1, <2>2, <1>0
<1>9. CASE Forwards!Refresh
  <2>1. v9' \in {v9, {}} /\ UNCHANGED <<v1, v2, v3, v4, v5, v6, v7, v8, v10>>
    BY <1>9 DEF Forwards!Refresh
  <2>2. v11' \subseteq Lists
    BY <1>1, <1>2, <1>9 DEF Forwards!Refresh
  <2> QED BY <1>1, <2>1, <2>2, <1>0
<1>10. ASSUME NEW q \in v11, Forwards!list(q) PROVE ForwardsSound'
  <2>1. Forwards!Of(q.of) \in SUBSET Forwards!Forwards
    BY <1>1 DEF Forwards!Of
  <2>2. [q EXCEPT !.found = Forwards!Of(q.of)] \in Lists
    BY <1>1, <2>1 DEF Lists
  <2>3. v11' \subseteq Lists /\ UNCHANGED <<v1, v2, v3, v4, v5, v6, v7, v8, v9, v10>>
    BY <1>1, <1>10, <2>2 DEF Forwards!list
  <2> QED BY <1>1, <2>3, <1>0
<1>11. ASSUME NEW q \in v11, NEW ok \in BOOLEAN, Forwards!Listed(q, ok) PROVE ForwardsSound'
  <2>1. v9' \subseteq Forwards!Forwards
    BY <1>1, <1>11 DEF Forwards!Listed, Lists
  <2>2. v11' \subseteq v11 /\ UNCHANGED <<v1, v2, v3, v4, v5, v6, v7, v8, v10>>
    BY <1>11 DEF Forwards!Listed
  <2> QED BY <1>1, <2>1, <2>2, <1>0
<1>12. CASE Forwards!Switch \/ Forwards!Toggle \/ UNCHANGED Forwards!vars
  <2>1. v7' \in Conns /\ v8' \in BOOLEAN /\ UNCHANGED <<v1, v2, v3, v4, v5, v6, v9, v10, v11>>
    BY <1>1, <1>12 DEF Forwards!Switch, Forwards!Toggle, Forwards!vars
  <2> QED BY <1>1, <2>1, <1>0
<1>13. ASSUME NEW a \in BOOLEAN, Forwards!Save(a) PROVE ForwardsSound'
  <2>1. v10' = None /\ UNCHANGED <<v1, v2, v3, v4, v5, v7, v8, v9, v11>>
    BY <1>13 DEF Forwards!Save, Forwards!Keeps
  <2>2. ASSUME NEW b \in v6 PROVE [b EXCEPT !.auto = a] \in Stored
    BY <1>1
  <2>3. ASSUME NEW m \in Marks PROVE [id |-> m, of |-> v7, auto |-> a] \in Stored
    BY <1>1
  <2>4. v6' \subseteq Stored
    BY <1>1, <1>13, <2>2, <2>3 DEF Forwards!Save
  <2> QED BY <1>1, <2>1, <2>4, <1>0
<1>14. ASSUME NEW b \in v6, Forwards!Edit(b) \/ Forwards!Delete(b) PROVE ForwardsSound'
  <2>1. b.id \in Marks
    BY <1>1
  <2>2. v6' \subseteq v6 /\ v10' \in Marks \cup {None} /\ UNCHANGED <<v1, v2, v3, v4, v5, v7, v8, v9, v11>>
    BY <1>1, <1>14, <2>1 DEF Forwards!Edit, Forwards!Delete, Forwards!Keeps
  <2> QED BY <1>1, <2>2, <1>0
<1> QED BY <1>4, <1>5, <1>6, <1>7, <1>8, <1>9, <1>10, <1>11, <1>12, <1>13, <1>14 DEF Forwards!Next

(***************************************************************************)
(* File editor                                                             *)
(***************************************************************************)
Typed == (0 .. v14) \cup {Empty}
EditorTexts ==
  /\ v14 \in 0 .. MaxEdits /\ v15 \in 0 .. MaxSaves /\ v16 \in 1 .. MaxLoads
  /\ {v2, v3, v4} \subseteq Typed
  /\ \A l \in v8 : l.text \in Typed \cup {None}
  /\ \A s \in v9 : s.text \in Typed
(* Without an overlap there is one save and then no load; it carries the text shown, and *)
(* what a load has read is still what the server has.                                    *)
EditorOverlaps ==
  ~v10 =>
    /\ \A s, t \in v9 : s = t
    /\ v9 # {} => v8 = {}
    /\ \A l \in v8 : l.text # None => l.text = v4
    /\ \A s \in v9 : s.text = v2 /\ (s.stored => v4 = v2)
    /\ v2 = v3 /\ v2 # Empty => v4 = v2
EditorSound == Editor!Inv /\ EditorTexts /\ EditorOverlaps

LEMMA EditorInit == Editor!Init => EditorSound
<1> SUFFICES ASSUME Editor!Init PROVE EditorSound
  OBVIOUS
<1>1. {MaxEdits, MaxSaves, MaxLoads} \subseteq Nat /\ MaxLoads > 0
  BY PanelsConstants
<1>2. v8 \subseteq [n : 1 .. MaxLoads, text : Editor!Texts \cup {None}]
  BY <1>1 DEF Editor!Init
<1>3. v2 = Empty /\ v3 = Empty /\ v4 = 0 /\ v9 = {} /\ 0 \in Editor!Texts /\ Empty \in Editor!Texts
  BY <1>1 DEF Editor!Init, Editor!Texts
<1>4. {v1, v5, v6, v7, v10, v12, v13} \subseteq BOOLEAN /\ v11 = "idle"
  BY DEF Editor!Init
<1>5. Editor!Inv
  BY <1>2, <1>3, <1>4 DEF Editor!Inv, Editor!TypeOK, Editor!CleanIsStored
<1>6. EditorTexts
  BY <1>1, <1>3 DEF EditorTexts, Typed, Editor!Init
<1>7. EditorOverlaps
  BY <1>3 DEF EditorOverlaps, Editor!Init
<1> QED BY <1>5, <1>6, <1>7 DEF EditorSound

(* What the texts are follows from the three invariants that speak of them. *)
LEMMA EditorShape ==
  ASSUME {v1', v5', v6', v7', v10', v12', v13'} \subseteq BOOLEAN, EditorTexts', EditorOverlaps',
         v8' \subseteq [n : 1 .. MaxLoads, text : Typed' \cup {None}],
         v9' \subseteq [n : 1 .. MaxSaves, text : Typed', stored : BOOLEAN],
         v11' \in {"idle", "home", "transfer", "opening"}
  PROVE  EditorSound'
<1>1. Typed' \subseteq Editor!Texts'
  BY PanelsConstants DEF EditorTexts, Typed, Editor!Texts
<1>2. Editor!TypeOK'
  BY <1>1 DEF EditorTexts, Editor!TypeOK, Editor!Texts
<1>3. Editor!CleanIsStored'
  BY DEF EditorOverlaps, Editor!CleanIsStored, Editor!dirty
<1> QED BY <1>2, <1>3 DEF EditorSound, Editor!Inv

LEMMA EditorStep == EditorSound /\ [Editor!Next]_(Editor!vars) => EditorSound'
<1> SUFFICES ASSUME EditorSound, [Editor!Next]_(Editor!vars) PROVE EditorSound'
  OBVIOUS
<1> USE DEF Editor!opener, Editor!editor
<1> DEFINE Loads == [n : 1 .. MaxLoads, text : Typed \cup {None}]
           Saves == [n : 1 .. MaxSaves, text : Typed, stored : BOOLEAN]
           Flags == {v1, v5, v6, v7, v10, v12, v13} \subseteq BOOLEAN
<1>1. /\ Flags /\ v11 \in {"idle", "home", "transfer", "opening"}
      /\ v14 \in 0 .. MaxEdits /\ v15 \in 0 .. MaxSaves /\ v16 \in 1 .. MaxLoads
      /\ v2 \in Typed /\ v3 \in Typed /\ v4 \in Typed
      /\ {MaxEdits, MaxSaves, MaxLoads} \subseteq Nat
  BY PanelsConstants DEF EditorSound, Editor!Inv, Editor!TypeOK, EditorTexts
<1>2. v8 \subseteq Loads /\ v9 \subseteq Saves
  <2>1. v8 \subseteq [n : 1 .. MaxLoads, text : Editor!Texts \cup {None}] /\ \A l \in v8 : l.text \in Typed \cup {None}
    BY DEF EditorSound, Editor!Inv, Editor!TypeOK, EditorTexts
  <2>2. v9 \subseteq [n : 1 .. MaxSaves, text : Editor!Texts, stored : BOOLEAN] /\ \A s \in v9 : s.text \in Typed
    BY DEF EditorSound, Editor!Inv, Editor!TypeOK, EditorTexts
  <2> QED BY <2>1, <2>2
<1>3. EditorOverlaps
  BY DEF EditorSound
(* A step that types nothing and whose texts are of those typed. *)
<1>4. ASSUME v14' = v14, {v2', v3', v4'} \subseteq Typed, v15' \in 0 .. MaxSaves, v16' \in 1 .. MaxLoads,
             v8' \subseteq Loads, v9' \subseteq Saves, Flags', v11' \in {"idle", "home", "transfer", "opening"},
             EditorOverlaps'
      PROVE  EditorSound'
  <2>1. Typed' = Typed
    BY <1>4 DEF Typed
  <2>2. EditorTexts'
    BY <1>1, <1>4, <2>1 DEF EditorTexts
  <2> QED BY <1>4, <2>1, <2>2, EditorShape
<1>5. CASE Editor!Reload \/ Editor!Reconnect
  <2>1. /\ UNCHANGED <<v2, v3, v4, v6, v9, v11, v12, v13, v14, v15>> /\ v16' = v16 + 1 /\ v16 < MaxLoads
        /\ v8' = v8 \cup {[n |-> v16', text |-> None]} /\ v10' = (v10 \/ v9 # {})
        /\ v5' = TRUE /\ v7' = FALSE /\ v1' \in {v1, TRUE}
    BY <1>5 DEF Editor!Reload, Editor!Reconnect, Editor!loadFile
  <2>2. v16' \in 1 .. MaxLoads
    BY <1>1, <2>1
  <2>3. v8' \subseteq Loads
    BY <1>2, <2>1, <2>2
  <2>4. EditorOverlaps'
    <3>1. ~v10' => ~v10 /\ v9' = {}
      BY <2>1
    <3>2. \A l \in v8' : l \in v8 \/ l.text = None
      BY <2>1
    <3> QED BY <1>3, <2>1, <3>1, <3>2 DEF EditorOverlaps
  <2> QED BY <1>1, <1>2, <1>4, <2>1, <2>2, <2>3, <2>4
<1>6. CASE Editor!Disconnect \/ Editor!handleDownloadAndOpen \/ Editor!Leave
  <2>1. UNCHANGED <<v2, v3, v4, v5, v6, v7, v8, v9, v10, v14, v15, v16>>
    BY <1>6 DEF Editor!Disconnect, Editor!handleDownloadAndOpen, Editor!Leave
  <2>2. v1' \in {v1, FALSE} /\ v12' \in {v12, TRUE} /\ v13' \in {v13, FALSE} /\ v11' \in {v11, "home"}
    BY <1>6 DEF Editor!Disconnect, Editor!handleDownloadAndOpen, Editor!Leave
  <2>3. EditorOverlaps'
    BY <1>3, <2>1 DEF EditorOverlaps
  <2> QED BY <1>1, <1>2, <1>4, <2>1, <2>2, <2>3
<1>7. ASSUME NEW l \in v8, Editor!Reads(l) PROVE EditorSound'
  <2>1. /\ UNCHANGED <<v1, v2, v3, v4, v5, v6, v7, v9, v10, v11, v12, v13, v14, v15, v16>>
        /\ v8' = (v8 \ {l}) \cup {[l EXCEPT !.text = v4]}
    BY <1>7 DEF Editor!Reads
  <2>2. [l EXCEPT !.text = v4] \in Loads /\ [l EXCEPT !.text = v4].text = v4
    BY <1>1, <1>2
  <2>3. EditorOverlaps'
    BY <1>3, <2>1, <2>2 DEF EditorOverlaps
  <2> QED BY <1>1, <1>2, <1>4, <2>1, <2>2, <2>3
<1>8. ASSUME NEW l \in v8, NEW ok \in BOOLEAN, Editor!Loaded(l, ok) PROVE EditorSound'
  <2>1. /\ UNCHANGED <<v1, v4, v6, v9, v11, v12, v13, v14, v15, v16>> /\ v8' = v8 \ {l}
        /\ v5' = FALSE /\ v7' \in {v7, TRUE}
        /\ v10' = (v9 # {} \/ (v10 /\ ~(ok /\ v8' = {} /\ l.text = v4)))
    BY <1>8 DEF Editor!Loaded
  <2>2. \/ ok /\ l.text # None /\ v2' = l.text /\ v3' = l.text
        \/ ~ok /\ UNCHANGED <<v2, v3>>
    BY <1>8 DEF Editor!Loaded
  <2>3. {v2', v3'} \subseteq Typed
    BY <1>1, <1>2, <2>2
  <2>4. v10' \in BOOLEAN
    BY <2>1
  <2>5. EditorOverlaps'
    BY <1>1, <1>3, <2>1, <2>2 DEF EditorOverlaps
  <2> QED BY <1>1, <1>2, <1>4, <2>1, <2>3, <2>4, <2>5
<1>9. CASE Editor!Type
  <2>1. /\ UNCHANGED <<v1, v3, v4, v5, v6, v7, v8, v9, v11, v12, v13, v15, v16>>
        /\ v14 < MaxEdits /\ v14' = v14 + 1 /\ v2' = v14' /\ v10' = (v10 \/ v9 # {})
    BY <1>9 DEF Editor!Type
  <2>2. Typed \subseteq Typed' /\ v2' \in Typed' /\ v2' # v3 /\ v14' \in 0 .. MaxEdits
    BY <1>1, <2>1, PanelsConstants DEF Typed
  <2>3. v8' \subseteq Loads' /\ v9' \subseteq Saves'
    BY <1>2, <2>1, <2>2
  <2>4. EditorTexts'
    BY <1>1, <2>1, <2>2, <2>3 DEF EditorTexts
  <2>5. EditorOverlaps'
    BY <1>3, <2>1, <2>2 DEF EditorOverlaps
  <2>6. v10' \in BOOLEAN
    BY <2>1
  <2> QED BY <1>1, <2>1, <2>3, <2>4, <2>5, <2>6, EditorShape
<1>10. ASSUME NEW b \in BOOLEAN, Editor!handleSave(b) PROVE EditorSound'
  <2> DEFINE s == [n |-> v15', text |-> v2, stored |-> FALSE]
  <2>1. /\ UNCHANGED <<v1, v2, v3, v4, v5, v7, v8, v11, v12, v13, v14, v16>> /\ v15 < MaxSaves /\ v15' = v15 + 1
        /\ v6' = TRUE /\ v9' = v9 \cup {s} /\ v10' = (v10 \/ v9 # {} \/ v8 # {})
    BY <1>10 DEF Editor!handleSave
  <2>2. v15' \in 0 .. MaxSaves /\ s \in Saves /\ s.text = v2 /\ ~s.stored
    BY <1>1, <2>1
  <2> HIDE DEF s
  <2>3. EditorOverlaps'
    BY <1>3, <2>1, <2>2 DEF EditorOverlaps
  <2>4. v10' \in BOOLEAN
    BY <2>1
  <2> QED BY <1>1, <1>2, <1>4, <2>1, <2>2, <2>3, <2>4
<1>11. ASSUME NEW s \in v9, Editor!Stores(s) PROVE EditorSound'
  <2> DEFINE t == [s EXCEPT !.stored = TRUE]
  <2>1. /\ UNCHANGED <<v1, v2, v3, v5, v6, v7, v8, v10, v11, v12, v13, v14, v15, v16>>
        /\ v4' = s.text /\ v9' = (v9 \ {s}) \cup {t}
    BY <1>11 DEF Editor!Stores
  <2>2. t \in Saves /\ t.text = s.text /\ s.text \in Typed
    BY <1>2
  <2> HIDE DEF t
  <2>3. EditorOverlaps'
    BY <1>3, <2>1, <2>2 DEF EditorOverlaps
  <2> QED BY <1>1, <1>2, <1>4, <2>1, <2>2, <2>3
<1>12. ASSUME NEW s \in v9, Editor!Saved(s) PROVE EditorSound'
  <2>1. /\ UNCHANGED <<v1, v2, v4, v5, v7, v8, v10, v11, v12, v13, v14, v15, v16>>
        /\ v6' = FALSE /\ v9' = v9 \ {s} /\ v3' = IF s.stored THEN v2 ELSE v3
    BY <1>12 DEF Editor!Saved
  <2>2. v3' \in Typed
    BY <1>1, <2>1
  <2>3. EditorOverlaps'
    BY <1>3, <2>1 DEF EditorOverlaps
  <2> QED BY <1>1, <1>2, <1>4, <2>1, <2>2, <2>3
<1>13. ASSUME NEW ok \in BOOLEAN, Editor!Downloads(ok) PROVE EditorSound'
  <2>1. UNCHANGED <<v1, v2, v3, v4, v5, v6, v7, v8, v9, v10, v13, v14, v15, v16>>
    BY <1>13 DEF Editor!Downloads
  <2>2. v11' \in {"idle", "home", "transfer", "opening"}
    BY <1>13 DEF Editor!Downloads
  <2>3. v12' \in BOOLEAN
    BY <1>13 DEF Editor!Downloads
  <2>4. EditorOverlaps'
    BY <1>3, <2>1 DEF EditorOverlaps
  <2> QED BY <1>1, <1>2, <1>4, <2>1, <2>2, <2>3, <2>4
<1>14. CASE UNCHANGED Editor!vars
  <2>1. UNCHANGED <<v1, v2, v3, v4, v5, v6, v7, v8, v9, v10, v11, v12, v13, v14, v15, v16>>
    BY <1>14 DEF Editor!vars
  <2>2. EditorOverlaps'
    BY <1>3, <2>1 DEF EditorOverlaps
  <2> QED BY <1>1, <1>2, <1>4, <2>1, <2>2
<1> QED BY <1>5, <1>6, <1>7, <1>8, <1>9, <1>10, <1>11, <1>12, <1>13, <1>14 DEF Editor!Next

(***************************************************************************)
(* Directory synchronization                                               *)
(***************************************************************************)
Sides == {"local", "remote"}
Actions == {"upload", "download", "skip", "conflict", "create-dir", "delete-remote"}

(* What an action of the comparison was to bring about for its item. *)
Achieved(i, action) ==
  \/ action \in {"upload", "download"} /\ Sync!SameSize(i)
  \/ action = "create-dir" /\ v2["local"][i] = Dir /\ v2["remote"][i] = Dir
  \/ action = "delete-remote" /\ v2["local"][i] = None /\ v2["remote"][i] = None

(* A loop compares or lists, or does operations of its dialog. *)
SyncLoops ==
  \A r \in v9 :
    \/ v1 = "sync" /\ r.todo = Sync!Compare0
    \/ v1 = "directory" /\ r.todo = Sync!List0
    \/ \A n \in DOMAIN r.todo : r.todo[n].action \notin {"compare", "list"}

(* The listing a dialog works from, and who else was at work then and so is now. *)
SyncBasis ==
  v12 # None => /\ v12 \in [config : Configs, alone : BOOLEAN, all : BOOLEAN]
                /\ v12.alone => \A r \in v9 : r.scope = v4

(* The comparison, as far as the trees have not become what it asked for, still holds. *)
SyncEntries ==
  /\ v1 = "directory" => v7 = None
  /\ v7 # None =>
       /\ v12 # None
       /\ DOMAIN v7 \subseteq Sync!Listed(v12.config)
       /\ v7 \in [DOMAIN v7 -> [action : Actions, checked : BOOLEAN]]
       /\ \A i \in DOMAIN v7 : v7[i].action = "skip" => ~v7[i].checked
       /\ v12.alone => \A i \in Sync!Listed(v12.config) :
            LET action == Sync!Action(v12.config, v2["local"][i], v2["remote"][i])
            IN  IF i \notin DOMAIN v7 THEN action = None
                ELSE action = v7[i].action \/ Achieved(i, v7[i].action)

Outstanding(i, todo) == \E n \in DOMAIN todo : todo[n].item = i

(* What a loop of the sync dialog with this left to do has done, and is to do. *)
SyncLeft(todo, bad) ==
  /\ v7 # None
  /\ \A n \in DOMAIN todo :
       /\ todo[n].item \in DOMAIN v7 /\ todo[n].action = v7[todo[n].item].action
       /\ todo[n].to = IF todo[n].action = "download" THEN "local" ELSE "remote"
  /\ v12.alone /\ v12.all /\ ~bad =>
       \A i \in DOMAIN v7 :
         /\ v7[i].action # "conflict"
         /\ v7[i].action = "skip" \/ Achieved(i, v7[i].action) \/ Outstanding(i, todo)

(* The same for a loop of the directory dialog and the files of its source. *)
WalkLeft(todo, bad) ==
  /\ v12 # None
  /\ \A n \in DOMAIN todo :
       /\ todo[n].action \in {"root", "mkdir", Sync!Copy(v12.config)}
       /\ todo[n].to = Sync!To(v12.config)
       /\ todo[n].action # "root" => todo[n].item \in Sync!Items
  /\ v12.alone /\ ~bad =>
       \A i \in Sync!Items : Sync!IsFile(v2[Sync!From(v12.config)][i]) =>
         Sync!SameSize(i) \/ \E n \in DOMAIN todo : todo[n].item = i /\ todo[n].action = Sync!Copy(v12.config)

Left(todo, bad) ==
  IF v1 = "sync" THEN SyncLeft(todo, bad) ELSE WalkLeft(todo, bad)

(* The loop of the present scope, and the report of one that has gone through. *)
SyncWork ==
  /\ \A r \in v9 : r.scope = v4 /\ r.todo \notin {Sync!Compare0, Sync!List0} => Left(r.todo, r.bad)
  /\ v11 = "clean" => ~Sync!Busy /\ Left(<<>>, FALSE)

SyncSound == Sync!TypeOK /\ SyncLoops /\ SyncBasis /\ SyncEntries /\ SyncWork /\ Sync!BusyIsOneLoop

ElemsOf(t) == {t[n] : n \in DOMAIN t}

LEMMA JoinElems ==
  ASSUME NEW S, NEW a \in Seq(S), NEW b \in Seq(S)
  PROVE  a \o b \in Seq(S) /\ ElemsOf(a \o b) = ElemsOf(a) \cup ElemsOf(b)
<1>1. /\ a \o b \in Seq(S) /\ Len(a \o b) = Len(a) + Len(b) /\ Len(a) \in Nat /\ Len(b) \in Nat
      /\ DOMAIN a = 1 .. Len(a) /\ DOMAIN b = 1 .. Len(b) /\ DOMAIN (a \o b) = 1 .. (Len(a) + Len(b))
      /\ \A m \in 1 .. Len(a) : (a \o b)[m] = a[m]
      /\ \A m \in 1 .. Len(b) : (a \o b)[Len(a) + m] = b[m]
  OBVIOUS
<1>2. \A m \in DOMAIN a : m \in DOMAIN (a \o b)
  BY <1>1
<1>3. \A m \in DOMAIN b : Len(a) + m \in DOMAIN (a \o b)
  BY <1>1
<1>4. ASSUME NEW n \in DOMAIN (a \o b)
      PROVE  n \in DOMAIN a \/ (n - Len(a) \in DOMAIN b /\ Len(a) + (n - Len(a)) = n)
  BY <1>1
<1> QED BY <1>1, <1>2, <1>3, <1>4 DEF ElemsOf

(* The order of the items loses none and adds none. *)
LEMMA ThoseThree ==
  ASSUME NEW s, NEW a, NEW b, NEW c
  PROVE  LET t == Sync!Those(a, s) \o Sync!Those(b, s) \o Sync!Those(c, s)
         IN  t \in Seq(s) /\ ElemsOf(t) = {a, b, c} \cap s
<1>1. ASSUME NEW i PROVE Sync!Those(i, s) \in Seq(s) /\ ElemsOf(Sync!Those(i, s)) = {i} \cap s
  <2>1. CASE i \in s
    <3>1. Sync!Those(i, s) = <<i>>
      BY <2>1 DEF Sync!Those
    <3>2. <<i>> \in Seq(s) /\ DOMAIN <<i>> = {1} /\ <<i>>[1] = i
      BY <2>1
    <3> QED BY <2>1, <3>1, <3>2 DEF ElemsOf
  <2>2. CASE i \notin s
    <3>1. Sync!Those(i, s) = <<>>
      BY <2>2 DEF Sync!Those
    <3> QED BY <2>2, <3>1 DEF ElemsOf
  <2> QED BY <2>1, <2>2
<1> DEFINE x == Sync!Those(a, s)  y == Sync!Those(b, s)  z == Sync!Those(c, s)
<1>2. x \in Seq(s) /\ y \in Seq(s) /\ z \in Seq(s)
  BY <1>1
<1>3. ElemsOf(x) = {a} \cap s /\ ElemsOf(y) = {b} \cap s /\ ElemsOf(z) = {c} \cap s
  BY <1>1
<1> HIDE DEF x, y, z
<1>4. PICK u : u = x \o y
  OBVIOUS
<1>5. u \in Seq(s) /\ ElemsOf(u) = ElemsOf(x) \cup ElemsOf(y)
  BY <1>2, <1>4, JoinElems
<1>6. PICK t : t = u \o z
  OBVIOUS
<1>7. t \in Seq(s) /\ ElemsOf(t) = ElemsOf(u) \cup ElemsOf(z)
  BY <1>2, <1>5, <1>6, JoinElems
<1>8. ElemsOf(t) = {a, b, c} \cap s
  BY <1>3, <1>5, <1>7
<1>9. t = Sync!Those(a, s) \o Sync!Those(b, s) \o Sync!Those(c, s)
  BY <1>4, <1>6 DEF x, y, z
<1> QED BY ONLY <1>7, <1>8, <1>9, Zenon

LEMMA OrderOf ==
  ASSUME NEW s \in SUBSET Sync!Items
  PROVE  /\ Sync!InOrder(s) \in Seq(s) /\ ElemsOf(Sync!InOrder(s)) = s
         /\ Sync!Sorted(s) \in Seq(s) /\ ElemsOf(Sync!Sorted(s)) = s
<1>1. {"d", "d/f", "g"} \cap s = s /\ {"d/f", "d", "g"} \cap s = s
  BY DEF Sync!Items
<1> DEFINE t == Sync!Those("d", s) \o Sync!Those("d/f", s) \o Sync!Those("g", s)
           u == Sync!Those("d/f", s) \o Sync!Those("d", s) \o Sync!Those("g", s)
<1>2. t \in Seq(s) /\ ElemsOf(t) = {"d", "d/f", "g"} \cap s
  BY ThoseThree
<1>3. u \in Seq(s) /\ ElemsOf(u) = {"d/f", "d", "g"} \cap s
  BY ThoseThree
<1>4. Sync!InOrder(s) = t /\ Sync!Sorted(s) \in {t, u}
  BY DEF Sync!InOrder, Sync!Sorted
<1> HIDE DEF t, u
<1> QED BY <1>1, <1>2, <1>3, <1>4

Checked == {i \in DOMAIN v7 : v7[i].checked /\ v7[i].action \notin {"skip", "conflict"}}

(* The plan of a synchronization has an operation for each entry that is checked. *)
LEMMA SyncPlanDoes ==
  ASSUME Sync!TypeOK, SyncEntries, v7 # None
  PROVE  /\ Sync!SyncPlan \in Seq(Sync!Ops)
         /\ \A n \in DOMAIN Sync!SyncPlan :
              LET o == Sync!SyncPlan[n]
              IN  /\ o.item \in Checked /\ o.action = v7[o.item].action
                  /\ o.to = IF o.action = "download" THEN "local" ELSE "remote"
         /\ \A i \in Checked : Outstanding(i, Sync!SyncPlan)
<1> DEFINE order == Sync!Sorted(Checked)
           op(i) == Sync!Op(i, v7[i].action, [dir |-> IF v7[i].action = "download" THEN "down" ELSE "up"])
<1>1. Checked \in SUBSET Sync!Items
  BY DEF Sync!TypeOK, Checked
<1>0. order \in Seq(Checked) /\ ElemsOf(order) = Checked
  BY <1>1, OrderOf
<1>2. order \in Seq(Checked) /\ \A i \in Checked : \E n \in DOMAIN order : order[n] = i
  BY <1>0 DEF ElemsOf
<1>3. Sync!SyncPlan = [n \in DOMAIN order |-> op(order[n])]
  BY DEF Sync!SyncPlan, Checked
<1> HIDE DEF order
<1>4. ASSUME NEW i \in Checked
      PROVE  /\ op(i) \in Sync!Ops /\ op(i).item = i /\ op(i).action = v7[i].action
             /\ op(i).to = IF v7[i].action = "download" THEN "local" ELSE "remote"
  <2>1. v7[i].action \in {"upload", "download", "create-dir", "delete-remote"}
    BY DEF SyncEntries, Actions, Checked
  <2>2. i \in Sync!Items
    BY <1>1
  <2> QED BY <2>1, <2>2 DEF Sync!Op, Sync!Ops, Sync!To
<1> HIDE DEF op
<1>5. /\ Len(order) \in Nat /\ DOMAIN order = 1 .. Len(order)
      /\ \A n \in DOMAIN order : order[n] \in Checked
  BY <1>2
<1>6. Sync!SyncPlan \in Seq(Sync!Ops) /\ DOMAIN Sync!SyncPlan = DOMAIN order
  BY <1>3, <1>4, <1>5
<1>7. \A n \in DOMAIN order : Sync!SyncPlan[n] = op(order[n])
  BY <1>3
<1>8. ASSUME NEW n \in DOMAIN Sync!SyncPlan
      PROVE LET o == Sync!SyncPlan[n]
            IN  /\ o.item \in Checked /\ o.action = v7[o.item].action
                /\ o.to = IF o.action = "download" THEN "local" ELSE "remote"
  BY <1>4, <1>5, <1>6, <1>7
<1>9. \A i \in Checked : Outstanding(i, Sync!SyncPlan)
  BY <1>2, <1>4, <1>6, <1>7 DEF Outstanding
<1> QED BY <1>6, <1>8, <1>9

(* The plan of a directory transfer has every file of the source. *)
LEMMA WalkPlanDoes ==
  ASSUME NEW c \in Configs
  PROVE  /\ Sync!WalkPlan(c) \in Seq(Sync!Ops) \ {<<>>}
         /\ \A n \in DOMAIN Sync!WalkPlan(c) :
              /\ Sync!WalkPlan(c)[n].action \in {"root", "mkdir", Sync!Copy(c)}
              /\ Sync!WalkPlan(c)[n].to = Sync!To(c)
              /\ Sync!WalkPlan(c)[n].action # "root" => Sync!WalkPlan(c)[n].item \in Sync!Items
         /\ \A i \in Sync!Items : Sync!IsFile(v2[Sync!From(c)][i]) =>
              \E n \in DOMAIN Sync!WalkPlan(c) :
                Sync!WalkPlan(c)[n].item = i /\ Sync!WalkPlan(c)[n].action = Sync!Copy(c)
<1> DEFINE D == {i \in Sync!Items : v2[Sync!From(c)][i] = Dir}
           F == {i \in Sync!Items : Sync!IsFile(v2[Sync!From(c)][i])}
           dirs == Sync!InOrder(D)
           files == Sync!InOrder(F)
           r == <<Sync!Op(None, "root", c)>>
           x == [n \in DOMAIN dirs |-> Sync!Op(dirs[n], "mkdir", c)]
           y == [n \in DOMAIN files |-> Sync!Op(files[n], Sync!Copy(c), c)]
           Good == {o \in Sync!Ops : /\ o.action \in {"root", "mkdir", Sync!Copy(c)} /\ o.to = Sync!To(c)
                                     /\ o.action # "root" => o.item \in Sync!Items}
<1>0. dirs \in Seq(D) /\ files \in Seq(F) /\ ElemsOf(files) = F
  BY OrderOf
<1>1. dirs \in Seq(D) /\ files \in Seq(F) /\ \A i \in F : \E n \in DOMAIN files : files[n] = i
  BY <1>0 DEF ElemsOf
<1>2. Sync!WalkPlan(c) = r \o x \o y
  BY DEF Sync!WalkPlan
<1>3. ASSUME NEW i \in Sync!Items \cup {None}, NEW action \in {"root", "mkdir", Sync!Copy(c)},
             action # "root" => i \in Sync!Items
      PROVE  /\ Sync!Op(i, action, c) \in Good
             /\ Sync!Op(i, action, c).item = i /\ Sync!Op(i, action, c).action = action
  BY <1>3 DEF Sync!Op, Sync!Ops, Sync!To, Sync!Copy
<1> HIDE DEF Good
<1>4. r \in Seq(Good) /\ r # <<>> /\ 1 \in DOMAIN r
  BY <1>3
<1> HIDE DEF r, dirs, files
<1>5. x \in Seq(Good)
  <2>1. Len(dirs) \in Nat /\ DOMAIN dirs = 1 .. Len(dirs) /\ \A n \in DOMAIN dirs : dirs[n] \in Sync!Items
    BY <1>1
  <2> QED BY <1>3, <2>1
<1>6. y \in Seq(Good) /\ \A i \in F : \E n \in DOMAIN y : y[n].item = i /\ y[n].action = Sync!Copy(c)
  <2>1. Len(files) \in Nat /\ DOMAIN files = 1 .. Len(files) /\ \A n \in DOMAIN files : files[n] \in Sync!Items
    BY <1>1
  <2>2. y \in Seq(Good)
    BY <1>3, <2>1
  <2>3. \A n \in DOMAIN files : y[n].item = files[n] /\ y[n].action = Sync!Copy(c)
    BY <1>3, <2>1
  <2> QED BY <1>1, <2>2, <2>3
<1> HIDE DEF x, y, F
<1> DEFINE w == Sync!WalkPlan(c)
<1>7. PICK u : u = r \o x
  OBVIOUS
<1>8. u \in Seq(Good) /\ ElemsOf(u) = ElemsOf(r) \cup ElemsOf(x)
  BY <1>4, <1>5, <1>7, JoinElems
<1>9. w = u \o y
  BY <1>2, <1>7
<1> HIDE DEF w
<1>10. w \in Seq(Good) /\ ElemsOf(r) \subseteq ElemsOf(w) /\ ElemsOf(y) \subseteq ElemsOf(w)
  <2>1. u \o y \in Seq(Good) /\ ElemsOf(u \o y) = ElemsOf(u) \cup ElemsOf(y)
    BY <1>6, <1>8, JoinElems
  <2> QED BY <1>8, <1>9, <2>1
<1>11. DOMAIN w # {}
  <2>1. r[1] \in ElemsOf(w)
    BY <1>4, <1>10 DEF ElemsOf
  <2> QED BY <2>1 DEF ElemsOf
<1>12. ASSUME NEW i \in F PROVE \E n \in DOMAIN w : w[n].item = i /\ w[n].action = Sync!Copy(c)
  <2>1. PICK m \in DOMAIN y : y[m].item = i /\ y[m].action = Sync!Copy(c)
    BY <1>6
  <2>2. y[m] \in ElemsOf(w)
    BY <1>10 DEF ElemsOf
  <2> QED BY <2>1, <2>2 DEF ElemsOf
<1>13. \A n \in DOMAIN w : w[n] \in Good
  BY <1>10
<1>14. w \in Seq(Sync!Ops) \ {<<>>}
  BY <1>10, <1>11 DEF Good
<1> QED BY <1>12, <1>13, <1>14 DEF w, F, Good

LEMMA Written ==
  ASSUME NEW f \in [Sides -> [Sync!Items -> Sync!Contents]], NEW s \in Sides, NEW i, NEW x,
         i \in Sync!Items => x \in Sync!Contents
  PROVE  [f EXCEPT ![s][i] = x] \in [Sides -> [Sync!Items -> Sync!Contents]]
<1>1. f[s] \in [Sync!Items -> Sync!Contents]
  OBVIOUS
<1>2. [f[s] EXCEPT ![i] = x] \in [Sync!Items -> Sync!Contents]
  BY <1>1
<1>3. PICK g : g = [f[s] EXCEPT ![i] = x]
  OBVIOUS
<1>4. [f EXCEPT ![s] = g] \in [Sides -> [Sync!Items -> Sync!Contents]]
  BY <1>2, <1>3
<1>5. [f EXCEPT ![s][i] = x] = [f EXCEPT ![s] = g]
  BY <1>3
<1> QED BY <1>4, <1>5, Zenon

(* An operation changes its own item, on the side it is for. *)
LEMMA LandsTyped ==
  ASSUME Sync!TypeOK, NEW o \in Sync!Ops, o.action \notin {"compare", "list"}, Sync!Possible(o), v2' = Sync!Done(o)
  PROVE  v2' \in [Sides -> [Sync!Items -> Sync!Contents]]
<1> DEFINE T == [Sides -> [Sync!Items -> Sync!Contents]]
<1>1. v2 \in T /\ Dir \in Sync!Contents /\ None \in Sync!Contents /\ "local" \in Sides /\ "remote" \in Sides /\ o.to \in Sides
  BY DEF Sync!TypeOK, Sync!Contents, Sync!Ops, Sides
<1>2. CASE o.action = "root"
  BY <1>1, <1>2 DEF Sync!Done
<1>3. CASE o.action \in {"create-dir", "mkdir"}
  <2>1. v2' = [v2 EXCEPT ![o.to][o.item] = Dir]
    BY <1>3 DEF Sync!Done
  <2>2. [v2 EXCEPT ![o.to][o.item] = Dir] \in T
    BY Written, <1>1
  <2> QED BY <2>1, <2>2
<1>4. CASE o.action = "upload"
  <2>1. v2' = [v2 EXCEPT !["remote"][o.item] = [v2["local"][o.item] EXCEPT !.time = "up"]] /\ Sync!IsFile(v2["local"][o.item])
    BY <1>4 DEF Sync!Done, Sync!Possible
  <2>2. PICK x : x = [v2["local"][o.item] EXCEPT !.time = "up"]
    OBVIOUS
  <2>3. ASSUME o.item \in Sync!Items PROVE x \in Sync!Contents
    <3>1. v2["local"][o.item] \in [size : Nat, time : {"first", "up", "down"}]
      BY <1>1, <2>1, <2>3 DEF Sync!IsFile, Sync!Contents
    <3> QED BY <2>2, <3>1 DEF Sync!Contents
  <2>4. [v2 EXCEPT !["remote"][o.item] = x] \in T
    BY Written, <1>1, <2>3
  <2> QED BY <2>1, <2>2, <2>4
<1>5. CASE o.action = "download"
  <2>1. v2' = [v2 EXCEPT !["local"][o.item] = [v2["remote"][o.item] EXCEPT !.time = "down"]] /\ Sync!IsFile(v2["remote"][o.item])
    BY <1>5 DEF Sync!Done, Sync!Possible
  <2>2. PICK x : x = [v2["remote"][o.item] EXCEPT !.time = "down"]
    OBVIOUS
  <2>3. ASSUME o.item \in Sync!Items PROVE x \in Sync!Contents
    <3>1. v2["remote"][o.item] \in [size : Nat, time : {"first", "up", "down"}]
      BY <1>1, <2>1, <2>3 DEF Sync!IsFile, Sync!Contents
    <3> QED BY <2>2, <3>1 DEF Sync!Contents
  <2>4. [v2 EXCEPT !["local"][o.item] = x] \in T
    BY Written, <1>1, <2>3
  <2> QED BY <2>1, <2>2, <2>4
<1>6. CASE o.action = "delete-remote"
  <2>1. v2' = [v2 EXCEPT !["remote"][o.item] = None]
    BY <1>6 DEF Sync!Done
  <2>2. [v2 EXCEPT !["remote"][o.item] = None] \in T
    BY Written, <1>1
  <2> QED BY <2>1, <2>2
<1> QED BY <1>2, <1>3, <1>4, <1>5, <1>6 DEF Sync!Ops

LEMMA LandsDoes ==
  ASSUME Sync!TypeOK, NEW o \in Sync!Ops, o.action \notin {"compare", "list", "root"}, o.item \in Sync!Items,
         o.action \in {"upload", "delete-remote"} => o.to = "remote", o.action = "download" => o.to = "local",
         Sync!Possible(o), v2' = Sync!Done(o)
  PROVE  /\ \A s \in Sides, i \in Sync!Items : s # o.to \/ i # o.item => v2'[s][i] = v2[s][i]
         /\ o.action \in {"upload", "download"} => Sync!SameSize(o.item)'
         /\ o.action \in {"create-dir", "mkdir"} => v2[o.to][o.item] = None /\ v2'[o.to][o.item] = Dir
         /\ o.action = "delete-remote" => v2'["remote"][o.item] = None
<1> DEFINE T == [Sides -> [Sync!Items -> Sync!Contents]]
           i == o.item
<1>1. v2 \in T /\ "local" \in Sides /\ "remote" \in Sides /\ o.to \in Sides
  BY DEF Sync!TypeOK, Sync!Ops, Sides
<1>2. CASE o.action \in {"create-dir", "mkdir"}
  <2>1. v2' = [v2 EXCEPT ![o.to][i] = Dir] /\ v2[o.to][i] = None
    BY <1>2 DEF Sync!Done, Sync!Possible
  <2> QED BY <1>1, <1>2, <2>1
<1>3. CASE o.action = "upload"
  <2>1. v2' = [v2 EXCEPT !["remote"][i] = [v2["local"][i] EXCEPT !.time = "up"]] /\ Sync!IsFile(v2["local"][i])
    BY <1>3 DEF Sync!Done, Sync!Possible
  <2>2. /\ \A s \in Sides, j \in Sync!Items : s # "remote" \/ j # i => v2'[s][j] = v2[s][j]
        /\ v2'["remote"][i] = [v2["local"][i] EXCEPT !.time = "up"]
    BY <1>1, <2>1
  <2>3. v2["local"][i] \in [size : Nat, time : {"first", "up", "down"}]
    BY <1>1, <2>1 DEF Sync!IsFile, Sync!Contents
  <2>4. [v2["local"][i] EXCEPT !.time = "up"] \in [size : Nat, time : {"first", "up", "down"}]
        /\ [v2["local"][i] EXCEPT !.time = "up"].size = v2["local"][i].size
    BY <2>3
  <2>5. Sync!SameSize(i)'
    BY <1>1, <2>1, <2>2, <2>4, PanelsConstants DEF Sync!SameSize, Sync!IsFile
  <2> QED BY <1>3, <2>2, <2>5
<1>4. CASE o.action = "download"
  <2>1. v2' = [v2 EXCEPT !["local"][i] = [v2["remote"][i] EXCEPT !.time = "down"]] /\ Sync!IsFile(v2["remote"][i])
    BY <1>4 DEF Sync!Done, Sync!Possible
  <2>2. /\ \A s \in Sides, j \in Sync!Items : s # "local" \/ j # i => v2'[s][j] = v2[s][j]
        /\ v2'["local"][i] = [v2["remote"][i] EXCEPT !.time = "down"]
    BY <1>1, <2>1
  <2>3. v2["remote"][i] \in [size : Nat, time : {"first", "up", "down"}]
    BY <1>1, <2>1 DEF Sync!IsFile, Sync!Contents
  <2>4. [v2["remote"][i] EXCEPT !.time = "down"] \in [size : Nat, time : {"first", "up", "down"}]
        /\ [v2["remote"][i] EXCEPT !.time = "down"].size = v2["remote"][i].size
    BY <2>3
  <2>5. Sync!SameSize(i)'
    BY <1>1, <2>1, <2>2, <2>4, PanelsConstants DEF Sync!SameSize, Sync!IsFile
  <2> QED BY <1>4, <2>2, <2>5
<1>5. CASE o.action = "delete-remote"
  <2>1. v2' = [v2 EXCEPT !["remote"][i] = None]
    BY <1>5 DEF Sync!Done
  <2> QED BY <1>1, <1>5, <2>1
<1> QED BY <1>2, <1>3, <1>4, <1>5 DEF Sync!Ops

(* What the comparison asked for comes about, and stays. *)
LEMMA AchievedByLanding ==
  ASSUME Sync!TypeOK, SyncEntries, v7 # None, v12.alone,
         NEW o \in Sync!Ops, o.item \in DOMAIN v7, o.action = v7[o.item].action,
         o.action \in {"upload", "download", "create-dir", "delete-remote"},
         o.to = IF o.action = "download" THEN "local" ELSE "remote",
         Sync!Possible(o), v2' = Sync!Done(o), UNCHANGED <<v7, v12>>
  PROVE  /\ Achieved(o.item, o.action)'
         /\ \A i \in DOMAIN v7 : Achieved(i, v7[i].action) => Achieved(i, v7[i].action)'
         /\ \A i \in Sync!Items : i # o.item => v2'["local"][i] = v2["local"][i] /\ v2'["remote"][i] = v2["remote"][i]
<1>1. DOMAIN v7 \subseteq Sync!Items /\ o.item \in Sync!Items /\ o.item \in Sync!Listed(v12.config)
      /\ "local" \in Sides /\ "remote" \in Sides
  BY DEF Sync!TypeOK, SyncEntries, Sides
<1>2. /\ \A s \in Sides, i \in Sync!Items : s # o.to \/ i # o.item => v2'[s][i] = v2[s][i]
      /\ o.action \in {"upload", "download"} => Sync!SameSize(o.item)'
      /\ o.action = "create-dir" => v2[o.to][o.item] = None /\ v2'[o.to][o.item] = Dir
      /\ o.action = "delete-remote" => v2'["remote"][o.item] = None
  BY <1>1, LandsDoes
<1>3. Sync!Action(v12.config, v2["local"][o.item], v2["remote"][o.item]) = o.action \/ Achieved(o.item, o.action)
  BY <1>1 DEF SyncEntries
<1>4. Achieved(o.item, o.action)'
  <2>1. CASE o.action \in {"upload", "download"}
    BY <1>2, <2>1 DEF Achieved
  <2>2. CASE o.action = "create-dir"
    <3>1. v2'["remote"][o.item] = Dir /\ v2["remote"][o.item] = None /\ v2'["local"][o.item] = v2["local"][o.item]
      BY <1>1, <1>2, <2>2
    <3>2. v2["local"][o.item] = Dir
      BY <1>3, <2>2, <3>1, PanelsConstants DEF Achieved, Sync!Action, Sync!Copy, Sync!IsFile
    <3> QED BY <2>2, <3>1, <3>2 DEF Achieved
  <2>3. CASE o.action = "delete-remote"
    <3>1. v2'["remote"][o.item] = None /\ v2'["local"][o.item] = v2["local"][o.item]
      BY <1>1, <1>2, <2>3
    <3>2. v2["local"][o.item] = None
      BY <1>3, <2>3, PanelsConstants DEF Achieved, Sync!Action, Sync!Copy
    <3> QED BY <2>3, <3>1, <3>2 DEF Achieved
  <2> QED BY <2>1, <2>2, <2>3
<1>5. \A i \in Sync!Items : i # o.item => v2'["local"][i] = v2["local"][i] /\ v2'["remote"][i] = v2["remote"][i]
  BY <1>1, <1>2
<1>6. ASSUME NEW i \in DOMAIN v7, Achieved(i, v7[i].action) PROVE Achieved(i, v7[i].action)'
  <2>1. CASE i = o.item
    BY <1>4, <2>1
  <2>2. CASE i # o.item
    BY <1>1, <1>5, <1>6, <2>2 DEF Achieved, Sync!SameSize
  <2> QED BY <2>1, <2>2
<1> QED BY <1>4, <1>5, <1>6

(* The comparison stands after an operation of its loop. *)
LEMMA EntriesAfterLanding ==
  ASSUME Sync!TypeOK, SyncEntries, NEW o \in Sync!Ops, Sync!Possible(o), v2' = Sync!Done(o), UNCHANGED <<v1, v7, v12>>,
         v7 # None /\ v12.alone =>
           /\ o.item \in DOMAIN v7 /\ o.action = v7[o.item].action
           /\ o.action \in {"upload", "download", "create-dir", "delete-remote"}
           /\ o.to = IF o.action = "download" THEN "local" ELSE "remote"
  PROVE  SyncEntries'
<1>1. ASSUME v7 # None, v12.alone, NEW i \in Sync!Listed(v12.config)
      PROVE  LET action == Sync!Action(v12.config, v2'["local"][i], v2'["remote"][i])
             IN  IF i \notin DOMAIN v7 THEN action = None
                 ELSE action = v7[i].action \/ Achieved(i, v7[i].action)'
  <2>1. /\ Achieved(o.item, o.action)'
        /\ \A j \in DOMAIN v7 : Achieved(j, v7[j].action) => Achieved(j, v7[j].action)'
        /\ \A j \in Sync!Items : j # o.item => v2'["local"][j] = v2["local"][j] /\ v2'["remote"][j] = v2["remote"][j]
    BY <1>1, AchievedByLanding
  <2>2. i \in Sync!Items
    BY DEF Sync!Listed
  <2>3. LET action == Sync!Action(v12.config, v2["local"][i], v2["remote"][i])
        IN  IF i \notin DOMAIN v7 THEN action = None
            ELSE action = v7[i].action \/ Achieved(i, v7[i].action)
    BY <1>1 DEF SyncEntries
  <2>4. CASE i = o.item
    BY <1>1, <2>1, <2>4
  <2>5. CASE i # o.item
    BY <2>1, <2>2, <2>3, <2>5
  <2> QED BY <2>4, <2>5
<1> QED BY <1>1 DEF SyncEntries

Loops == [scope : 0 .. v4, todo : Seq(Sync!Ops) \ {<<>>}, bad : BOOLEAN]
Phases == {"idle", "comparing", "syncing", "completed", "cancelled", "error"}

LEMMA SyncShape ==
  ASSUME SyncSound
  PROVE  /\ v1 \in {"sync", "directory"} /\ v2 \in [Sides -> [Sync!Items -> Sync!Contents]]
         /\ v3 \in BOOLEAN /\ v4 \in 0 .. MaxScopes /\ MaxScopes \in Nat /\ v5 \in Configs
         /\ v6 \in Phases /\ v8 \in BOOLEAN /\ v9 \subseteq Loops /\ v11 \in {None, "clean", "errors"}
         /\ \A r \in v9 : r.scope = v4 => Sync!Busy /\ v11 # "clean" /\ \A q \in v9 : q.scope = v4 => q = r
         /\ ~Sync!Busy => \A q \in v9 : q.scope # v4
<1>1. Sync!TypeOK /\ Sync!BusyIsOneLoop /\ SyncWork
  BY DEF SyncSound
<1>2. \A r \in v9 : r.scope = v4 => Sync!Busy /\ \A q \in v9 : q.scope = v4 => q = r
  BY <1>1 DEF Sync!BusyIsOneLoop
<1>3. ~Sync!Busy => \A q \in v9 : q.scope # v4
  BY <1>2
<1>4. v11 = "clean" => ~Sync!Busy
  BY <1>1 DEF SyncWork
<1>5. /\ v1 \in Dialogs /\ v2 \in [Sides -> [Sync!Items -> Sync!Contents]]
      /\ v3 \in BOOLEAN /\ v4 \in 0 .. MaxScopes /\ v5 \in Configs
      /\ v6 \in Phases /\ v8 \in BOOLEAN /\ v9 \subseteq Loops /\ v11 \in {None, "clean", "errors"}
  BY <1>1 DEF Sync!TypeOK, Sides, Phases, Loops
<1>6. v1 \in {"sync", "directory"} /\ MaxScopes \in Nat
  BY <1>5, PanelsConstants
<1> QED BY <1>2, <1>3, <1>4, <1>5, <1>6

(* What of the state has to be shown again after a step. *)
LEMMA SyncNext ==
  ASSUME v1' \in Dialogs, v2' \in [Sides -> [Sync!Items -> Sync!Contents]], v3' \in BOOLEAN,
         v4' \in 0 .. MaxScopes, v5' \in Configs, v6' \in Phases, v8' \in BOOLEAN,
         v9' \subseteq Loops', v11' \in {None, "clean", "errors"},
         SyncLoops', SyncBasis', SyncEntries', SyncWork', Sync!BusyIsOneLoop'
  PROVE  SyncSound'
<1>1. v7' # None => DOMAIN v7' \subseteq Sync!Items
  BY DEF SyncEntries, Sync!Listed
<1>2. Sync!TypeOK'
  BY <1>1 DEF Sync!TypeOK, Sync!Contents, Sync!Ops, Sides, Phases, Loops
<1> QED BY <1>2 DEF SyncSound

(* A loop ends. *)
LEMMA LoopEnds ==
  ASSUME SyncSound, NEW r \in v9, v9' = v9 \ {r}, UNCHANGED <<v1, v3, v4, v5>>,
         v2' \in [Sides -> [Sync!Items -> Sync!Contents]], SyncEntries',
         v6' \in Phases, v8' \in BOOLEAN, v11' \in {None, "clean", "errors"},
         IF r.scope = v4 THEN v6' \notin {"comparing", "syncing"} ELSE v6' = v6,
         v12' # v12 => v12' \in [config : Configs, alone : BOOLEAN, all : BOOLEAN] /\ (v12'.alone => v9' = {}),
         v11' = "clean" => v6' \notin {"comparing", "syncing"} /\ Left(<<>>, FALSE)',
         \A t, b : r.scope # v4 /\ Left(t, b) => Left(t, b)'
  PROVE  SyncSound'
<1>1. /\ v1 \in {"sync", "directory"} /\ v9 \subseteq Loops /\ v3 \in BOOLEAN /\ v4 \in 0 .. MaxScopes /\ v5 \in Configs
      /\ r.scope = v4 => Sync!Busy /\ \A q \in v9 : q.scope = v4 => q = r
      /\ ~Sync!Busy => \A q \in v9 : q.scope # v4
  BY SyncShape
<1>2. SyncLoops'
  BY DEF SyncSound, SyncLoops, Sync!Compare0, Sync!List0
<1>3. SyncBasis'
  BY DEF SyncSound, SyncBasis
<1>4. ASSUME NEW q \in v9', q.scope = v4 PROVE q \in v9 /\ r.scope # v4
  BY <1>1, <1>4
<1>5. SyncWork'
  <2>1. ASSUME NEW q \in v9', q.scope = v4, q.todo \notin {Sync!Compare0, Sync!List0} PROVE Left(q.todo, q.bad)'
    <3>1. Left(q.todo, q.bad)
      BY <1>4, <2>1 DEF SyncSound, SyncWork
    <3> QED BY <1>4, <2>1, <3>1
  <2> QED BY <2>1 DEF SyncWork, Sync!Busy, Sync!Compare0, Sync!List0
<1>6. Sync!BusyIsOneLoop'
  <2>1. CASE r.scope = v4
    <3>1. {q \in v9' : q.scope = v4'} = {}
      BY <1>1, <2>1
    <3> QED BY <2>1, <3>1 DEF Sync!BusyIsOneLoop, Sync!Busy
  <2>2. CASE r.scope # v4
    <3>1. {q \in v9' : q.scope = v4'} = {q \in v9 : q.scope = v4}
      BY <2>2
    <3>2. Sync!BusyIsOneLoop
      BY DEF SyncSound
    <3>3. CASE Sync!Busy
      <4>1. PICK p \in v9 : {q \in v9 : q.scope = v4} = {p}
        BY <3>2, <3>3 DEF Sync!BusyIsOneLoop
      <4>2. p \in v9'
        BY <3>1, <4>1
      <4>3. Sync!Busy'
        BY <2>2, <3>3 DEF Sync!Busy
      <4> QED BY <3>1, <4>1, <4>2, <4>3 DEF Sync!BusyIsOneLoop
    <3>4. CASE ~Sync!Busy
      BY <2>2, <3>1, <3>2, <3>4 DEF Sync!BusyIsOneLoop, Sync!Busy
    <3> QED BY <3>3, <3>4
  <2> QED BY <2>1, <2>2
<1>7. v9' \subseteq Loops' /\ v1' \in Dialogs
  BY <1>1 DEF Loops, Sync!Ops, SyncSound, Sync!TypeOK
<1> QED BY <1>1, <1>2, <1>3, <1>5, <1>6, <1>7, SyncNext

(* What Turn does with a loop. *)
Turned(r, todo, bad) ==
  \E q \in [scope : 0 .. v4, todo : Seq(Sync!Ops), bad : BOOLEAN] :
    /\ q.scope = r.scope /\ q.todo = todo /\ q.bad = bad
    /\ \/ /\ r.scope # v4 /\ v9' = v9 \ {r} /\ UNCHANGED <<v6, v8, v11>>
       \/ /\ r.scope = v4 /\ v9' = v9 \ {r} /\ v6' = "cancelled" /\ v8' = TRUE /\ v11' = v11
       \/ /\ r.scope = v4 /\ todo = <<>> /\ v9' = v9 \ {r} /\ v6' = "completed" /\ v8' = v8
          /\ v11' = IF bad THEN "errors" ELSE "clean"
       \/ /\ r.scope = v4 /\ todo # <<>> /\ v9' = (v9 \ {r}) \cup {q} /\ v6' = "syncing" /\ UNCHANGED <<v8, v11>>

LEMMA TurnRuns ==
  ASSUME SyncSound, NEW r \in v9, NEW todo \in Seq(Sync!Ops), NEW bad \in BOOLEAN, NEW c, Sync!Turn(r, todo, bad, c)
  PROVE  Turned(r, todo, bad)
<1>1. r \in Loops
  BY SyncShape
<1> DEFINE q == [r EXCEPT !.todo = todo, !.bad = bad]
<1>2. q.scope = r.scope /\ q.todo = todo /\ q.bad = bad /\ q \in [scope : 0 .. v4, todo : Seq(Sync!Ops), bad : BOOLEAN]
  BY <1>1 DEF Loops
<1>3. \/ /\ r.scope # v4 /\ v9' = v9 \ {r} /\ UNCHANGED <<v6, v8, v11>>
      \/ /\ r.scope = v4 /\ v9' = v9 \ {r} /\ v6' = "cancelled" /\ v8' = TRUE /\ v11' = v11
      \/ /\ r.scope = v4 /\ todo = <<>> /\ v9' = v9 \ {r} /\ v6' = "completed" /\ v8' = v8
         /\ v11' = IF bad THEN "errors" ELSE "clean"
      \/ /\ r.scope = v4 /\ todo # <<>> /\ v9' = (v9 \ {r}) \cup {q} /\ v6' = "syncing" /\ UNCHANGED <<v8, v11>>
  BY DEF Sync!Turn, Sync!Proceed
<1> HIDE DEF q
<1> QED BY <1>2, <1>3 DEF Turned

LEMMA TurnKeeps ==
  ASSUME SyncSound, NEW r \in v9, NEW todo \in Seq(Sync!Ops), NEW bad \in BOOLEAN, NEW c, Sync!Turn(r, todo, bad, c),
         UNCHANGED <<v1, v3, v4, v5>>, v2' \in [Sides -> [Sync!Items -> Sync!Contents]], SyncEntries',
         \A n \in DOMAIN todo : todo[n].action \notin {"compare", "list"},
         v12' # v12 => r.scope = v4 /\ v12' \in [config : Configs, alone : BOOLEAN, all : BOOLEAN]
                       /\ (v12'.alone => v9 = {r}),
         r.scope = v4 => Left(todo, bad)',
         \A t, b : r.scope # v4 /\ Left(t, b) => Left(t, b)'
  PROVE  SyncSound'
<1>1. /\ v1 \in {"sync", "directory"} /\ v9 \subseteq Loops /\ v3 \in BOOLEAN /\ v4 \in 0 .. MaxScopes /\ v5 \in Configs
      /\ v6 \in Phases /\ v8 \in BOOLEAN /\ v11 \in {None, "clean", "errors"}
      /\ r.scope = v4 => v11 # "clean" /\ \A q \in v9 : q.scope = v4 => q = r
  BY SyncShape
<1>2. Turned(r, todo, bad)
  BY TurnRuns
<1>3. PICK q \in [scope : 0 .. v4, todo : Seq(Sync!Ops), bad : BOOLEAN] :
         /\ q.scope = r.scope /\ q.todo = todo /\ q.bad = bad
         /\ \/ /\ r.scope # v4 /\ v9' = v9 \ {r} /\ UNCHANGED <<v6, v8, v11>>
            \/ /\ r.scope = v4 /\ v9' = v9 \ {r} /\ v6' = "cancelled" /\ v8' = TRUE /\ v11' = v11
            \/ /\ r.scope = v4 /\ todo = <<>> /\ v9' = v9 \ {r} /\ v6' = "completed" /\ v8' = v8
               /\ v11' = IF bad THEN "errors" ELSE "clean"
            \/ /\ r.scope = v4 /\ todo # <<>> /\ v9' = (v9 \ {r}) \cup {q} /\ v6' = "syncing" /\ UNCHANGED <<v8, v11>>
  BY <1>2 DEF Turned
<1>4. CASE v9' = v9 \ {r} /\ (r.scope = v4 => v6' \in {"cancelled", "completed"})
  <2>1. v6' \in Phases /\ v8' \in BOOLEAN /\ v11' \in {None, "clean", "errors"}
    BY <1>1, <1>3 DEF Phases
  <2>2. IF r.scope = v4 THEN v6' \notin {"comparing", "syncing"} ELSE v6' = v6
    BY <1>3, <1>4
  <2>3. v11' = "clean" => v6' \notin {"comparing", "syncing"} /\ Left(<<>>, FALSE)'
    <3>1. CASE r.scope = v4
      <4>1. v11' = "clean" => todo = <<>> /\ bad = FALSE
        BY <1>1, <1>3, <1>4, <3>1
      <4> QED BY <1>4, <3>1, <4>1
    <3>2. CASE r.scope # v4
      <4>1. v11 = "clean" => v6 \notin {"comparing", "syncing"} /\ Left(<<>>, FALSE)
        BY DEF SyncSound, SyncWork, Sync!Busy
      <4> QED BY <1>3, <3>2, <4>1
    <3> QED BY <3>1, <3>2
  <2>4. v12' # v12 => v12' \in [config : Configs, alone : BOOLEAN, all : BOOLEAN] /\ (v12'.alone => v9' = {})
    BY <1>4
  <2> QED BY <1>4, <2>1, <2>2, <2>3, <2>4, LoopEnds
<1>5. CASE r.scope = v4 /\ todo # <<>> /\ v9' = (v9 \ {r}) \cup {q} /\ v6' = "syncing" /\ UNCHANGED <<v8, v11>>
  <2>1. v9' \subseteq Loops' /\ v1' \in Dialogs
    BY <1>1, <1>3, <1>5 DEF Loops, Sync!Ops, SyncSound, Sync!TypeOK
  <2>2. SyncLoops'
    BY <1>3, <1>5 DEF SyncSound, SyncLoops, Sync!Compare0, Sync!List0
  <2>3. SyncBasis'
    BY <1>3, <1>5 DEF SyncSound, SyncBasis
  <2>4. \A p \in v9' : p.scope = v4 => p = q
    BY <1>1, <1>5
  <2>5. SyncWork'
    BY <1>1, <1>3, <1>5, <2>4 DEF SyncWork
  <2>6. Sync!BusyIsOneLoop'
    <3>1. {p \in v9' : p.scope = v4'} = {q} /\ q \in v9'
      BY <1>3, <1>5, <2>4
    <3> QED BY <1>5, <3>1 DEF Sync!BusyIsOneLoop, Sync!Busy
  <2>7. v3' \in BOOLEAN /\ v4' \in 0 .. MaxScopes /\ v5' \in Configs /\ v6' \in Phases /\ v8' \in BOOLEAN /\ v11' \in {None, "clean", "errors"}
    BY <1>1, <1>5 DEF Phases
  <2> QED BY <2>1, <2>2, <2>3, <2>5, <2>6, <2>7, SyncNext
<1> QED BY <1>3, <1>4, <1>5

LEMMA SyncInit == ASSUME Sync!Init PROVE SyncSound
<1>1. v1 \in Dialogs /\ v2 \in Trees /\ v3 = FALSE /\ v4 = 0 /\ v5 \in Configs /\ v6 = "idle" /\ v7 = None /\ v8 = FALSE
      /\ v9 = {} /\ v11 = None /\ v12 = None
  BY DEF Sync!Init
<1>2. v2 \in [Sides -> [Sync!Items -> Sync!Contents]]
  BY <1>1, PanelsConstants DEF Sides, Sync!Items, Sync!Contents
<1>3. Sync!TypeOK
  <2>1. 0 \in 0 .. MaxScopes
    BY PanelsConstants
  <2> QED BY <1>1, <1>2, <2>1 DEF Sync!TypeOK, Sides
<1>4. SyncLoops /\ SyncBasis /\ SyncEntries
  BY <1>1 DEF SyncLoops, SyncBasis, SyncEntries
<1>5. SyncWork /\ Sync!BusyIsOneLoop
  BY <1>1, PanelsConstants DEF SyncWork, Sync!BusyIsOneLoop, Sync!Busy
<1> QED BY <1>3, <1>4, <1>5 DEF SyncSound

LEMMA Starts ==
  /\ Sync!Compare0 \in Seq(Sync!Ops) \ {<<>>} /\ Sync!List0 \in Seq(Sync!Ops) \ {<<>>}
  /\ Head(Sync!Compare0).action = "compare" /\ Head(Sync!List0).action = "list"
<1> DEFINE c == [item |-> None, action |-> "compare", to |-> "local"]
           l == [item |-> None, action |-> "list", to |-> "local"]
<1>1. c \in Sync!Ops /\ l \in Sync!Ops /\ c.action = "compare" /\ l.action = "list"
  BY DEF Sync!Ops
<1>2. Sync!Compare0 = <<c>> /\ Sync!List0 = <<l>>
  BY DEF Sync!Compare0, Sync!List0
<1> HIDE DEF c, l
<1> QED BY <1>1, <1>2

(* What is left is read off the trees, the comparison and the listing. *)
LEMMA LeftSame ==
  ASSUME UNCHANGED <<v1, v2, v12>>, v7 = None <=> v7' = None, DOMAIN v7' = DOMAIN v7,
         \A i \in DOMAIN v7 : v7'[i].action = v7[i].action, NEW t, NEW b, Left(t, b)
  PROVE  Left(t, b)'
<1>1. ASSUME SyncLeft(t, b) PROVE SyncLeft(t, b)'
  BY <1>1 DEF SyncLeft, Achieved, Outstanding, Sync!SameSize
<1>2. ASSUME WalkLeft(t, b) PROVE WalkLeft(t, b)'
  BY <1>2 DEF WalkLeft, Sync!SameSize
<1> QED BY <1>1, <1>2 DEF Left

(* A loop starts where none of the scope is at work. *)
LEMMA LoopStarts ==
  ASSUME SyncSound, NEW at \in 0 .. MaxScopes, NEW todo \in Seq(Sync!Ops) \ {<<>>},
         v4' = at, v4 <= at, \A r \in v9 : r.scope # at, v9' = v9 \cup {Sync!Loop(at, todo)},
         UNCHANGED <<v1, v2, v5>>, v3' \in BOOLEAN, v6' \in {"comparing", "syncing"}, v8' \in BOOLEAN, v11' = None,
         SyncBasis', SyncEntries',
         \/ v1 = "sync" /\ todo = Sync!Compare0
         \/ v1 = "directory" /\ todo = Sync!List0
         \/ Left(todo, FALSE)' /\ \A n \in DOMAIN todo : todo[n].action \notin {"compare", "list"}
  PROVE  SyncSound'
<1> DEFINE l == Sync!Loop(at, todo)
<1>1. l.scope = at /\ l.todo = todo /\ l.bad = FALSE /\ l \in [scope : 0 .. at, todo : Seq(Sync!Ops) \ {<<>>}, bad : BOOLEAN]
  BY DEF Sync!Loop
<1> HIDE DEF l
<1>2. v9' = v9 \cup {l}
  BY DEF l
<1>3. /\ v1 \in Dialogs /\ v2 \in [Sides -> [Sync!Items -> Sync!Contents]] /\ v4 \in 0 .. MaxScopes
      /\ MaxScopes \in Nat /\ v5 \in Configs /\ v9 \subseteq Loops
  BY SyncShape DEF SyncSound, Sync!TypeOK
<1>4. v9' \subseteq Loops'
  <2>1. v9 \subseteq Loops'
    BY <1>3 DEF Loops, Sync!Ops
  <2>2. l \in Loops'
    BY <1>1 DEF Loops, Sync!Ops
  <2> QED BY <1>2, <2>1, <2>2
<1>5. SyncLoops'
  BY <1>1, <1>2 DEF SyncSound, SyncLoops, Sync!Compare0, Sync!List0
<1>6. \A q \in v9' : q.scope = v4' => q = l
  BY <1>2
<1>7. SyncWork'
  <2>1. v11' # "clean"
    BY PanelsConstants
  <2>2. l.todo \notin {Sync!Compare0, Sync!List0}' => Left(l.todo, l.bad)'
    BY <1>1 DEF Sync!Compare0, Sync!List0
  <2> QED BY <1>6, <2>1, <2>2 DEF SyncWork
<1>8. Sync!BusyIsOneLoop'
  <2>1. {q \in v9' : q.scope = v4'} = {l} /\ l \in v9'
    BY <1>1, <1>2
  <2> QED BY <2>1 DEF Sync!BusyIsOneLoop, Sync!Busy
<1>9. v6' \in Phases /\ v11' \in {None, "clean", "errors"}
  BY DEF Phases
<1> QED BY <1>3, <1>4, <1>5, <1>7, <1>8, <1>9, SyncNext

(* The user's steps. *)
LEMMA RescopeKeeps ==
  ASSUME SyncSound, NEW shown \in BOOLEAN, Sync!Rescope(shown)
  PROVE  SyncSound'
<1>1. /\ v4 < MaxScopes /\ v4' = v4 + 1 /\ v3' = shown /\ v7' = None /\ v11' = None /\ v12' = None
      /\ UNCHANGED <<v1, v2, v5>>
  BY DEF Sync!Rescope
<1>2. /\ v1 \in {"sync", "directory"} /\ v1 \in Dialogs /\ v2 \in [Sides -> [Sync!Items -> Sync!Contents]]
      /\ v4 \in 0 .. MaxScopes /\ MaxScopes \in Nat /\ v5 \in Configs /\ v8 \in BOOLEAN /\ v9 \subseteq Loops
  BY SyncShape DEF SyncSound, Sync!TypeOK
<1>3. v4' \in 0 .. MaxScopes /\ v4 <= v4' /\ \A r \in v9 : r.scope # v4'
  BY <1>1, <1>2 DEF Loops
<1>4. SyncBasis' /\ SyncEntries'
  BY <1>1 DEF SyncBasis, SyncEntries
<1>5. CASE v1 = "directory" /\ shown
  <2>1. v9' = v9 \cup {Sync!Loop(v4', Sync!List0)} /\ v6' = "comparing" /\ v8' = FALSE
    BY <1>1, <1>5 DEF Sync!Rescope
  <2>2. PICK at \in 0 .. MaxScopes : at = v4'
    BY <1>3
  <2>3. PICK todo \in Seq(Sync!Ops) \ {<<>>} : todo = Sync!List0
    BY Starts
  <2>4. v9' = v9 \cup {Sync!Loop(at, todo)}
    BY <2>1, <2>2, <2>3
  <2>5. v4' = at /\ v4 <= at /\ \A r \in v9 : r.scope # at
    BY <1>3, <2>2
  <2> QED BY <1>1, <1>4, <1>5, <2>1, <2>3, <2>4, <2>5, LoopStarts
<1>6. CASE ~(v1 = "directory" /\ shown)
  <2>1. v9' = v9 /\ v6' = "idle" /\ v8' = v8
    BY <1>1, <1>6 DEF Sync!Rescope
  <2>0. 0 .. v4 \subseteq 0 .. v4'
    BY <1>1, <1>2
  <2>2. v9' \subseteq Loops'
    BY <1>2, <2>0, <2>1 DEF Loops, Sync!Ops
  <2>3. SyncLoops'
    BY <1>1, <2>1 DEF SyncSound, SyncLoops, Sync!Compare0, Sync!List0
  <2>4. v11' # "clean"
    BY <1>1, PanelsConstants
  <2>5. SyncWork'
    BY <1>3, <2>1, <2>4 DEF SyncWork
  <2>6. {q \in v9' : q.scope = v4'} = {}
    BY <1>3, <2>1
  <2>7. Sync!BusyIsOneLoop'
    BY <2>1, <2>6 DEF Sync!BusyIsOneLoop, Sync!Busy
  <2>8. v6' \in Phases
    BY <2>1 DEF Phases
  <2> QED BY <1>1, <1>2, <1>3, <1>4, <2>1, <2>2, <2>3, <2>5, <2>7, <2>8, SyncNext
<1> QED BY <1>5, <1>6

LEMMA ConfigureKeeps == ASSUME SyncSound, Sync!Configure \/ Sync!Cancel PROVE SyncSound'
<1>1. v5' \in Configs /\ v8' \in BOOLEAN /\ UNCHANGED <<v1, v2, v3, v4, v6, v7, v9, v11, v12>>
  BY DEF Sync!Configure, Sync!Cancel, SyncSound, Sync!TypeOK
<1>2. Sync!TypeOK'
  BY <1>1 DEF SyncSound, Sync!TypeOK, Sync!Contents, Sync!Ops
<1>3. SyncLoops'
  BY <1>1 DEF SyncSound, SyncLoops, Sync!Compare0, Sync!List0
<1>4. SyncBasis'
  BY <1>1 DEF SyncSound, SyncBasis
<1>5. SyncEntries'
  BY <1>1 DEF SyncSound, SyncEntries, Achieved, Sync!SameSize
<1>6. Sync!BusyIsOneLoop'
  BY <1>1 DEF SyncSound, Sync!BusyIsOneLoop, Sync!Busy
<1>7. SyncWork'
  <2>1. \A t, b : Left(t, b) => Left(t, b)'
    BY <1>1, LeftSame
  <2> QED BY <1>1, <2>1 DEF SyncSound, SyncWork, Sync!Busy, Sync!Compare0, Sync!List0
<1> QED BY <1>2, <1>3, <1>4, <1>5, <1>6, <1>7 DEF SyncSound

LEMMA CompareKeeps == ASSUME SyncSound, Sync!Compare PROVE SyncSound'
<1>1. /\ v1 = "sync" /\ ~Sync!Busy /\ v6' = "comparing" /\ v7' = None /\ v8' = FALSE /\ v11' = None /\ v12' = None
      /\ v9' = v9 \cup {Sync!Loop(v4, Sync!Compare0)} /\ UNCHANGED <<v1, v2, v3, v4, v5>>
  BY DEF Sync!Compare
<1>2. v3 \in BOOLEAN /\ v4 \in 0 .. MaxScopes /\ MaxScopes \in Nat /\ \A r \in v9 : r.scope # v4
  BY <1>1, SyncShape
<1>3. SyncBasis' /\ SyncEntries'
  BY <1>1 DEF SyncBasis, SyncEntries
<1>4. PICK at \in 0 .. MaxScopes : at = v4
  BY <1>2
<1>5. PICK todo \in Seq(Sync!Ops) \ {<<>>} : todo = Sync!Compare0
  BY Starts
<1>6. v9' = v9 \cup {Sync!Loop(at, todo)} /\ v4' = at /\ v4 <= at /\ \A r \in v9 : r.scope # at
  BY <1>1, <1>2, <1>4, <1>5
<1> QED BY <1>1, <1>2, <1>3, <1>5, <1>6, LoopStarts

LEMMA CheckKeeps == ASSUME SyncSound, Sync!Check PROVE SyncSound'
<1>1. ~Sync!Busy /\ v7 # None /\ UNCHANGED <<v1, v2, v3, v4, v5, v6, v8, v9, v11, v12>>
  BY DEF Sync!Check
<1>2. PICK s \in SUBSET {i \in DOMAIN v7 : v7[i].action # "skip"} :
        v7' = [i \in DOMAIN v7 |-> [v7[i] EXCEPT !.checked = i \in s]]
  BY DEF Sync!Check
<1>3. SyncEntries
  BY DEF SyncSound
<1>4. ASSUME NEW i \in DOMAIN v7
      PROVE v7'[i] \in [action : Actions, checked : BOOLEAN] /\ v7'[i].action = v7[i].action /\ v7'[i].checked = (i \in s)
  <2>1. v7[i] \in [action : Actions, checked : BOOLEAN]
    BY <1>1, <1>3 DEF SyncEntries
  <2>2. v7'[i] = [v7[i] EXCEPT !.checked = i \in s]
    BY <1>2
  <2>3. PICK b \in BOOLEAN : b = (i \in s)
    <3>1. CASE i \in s
      <4>1. (i \in s) = TRUE
        BY <3>1
      <4> QED BY <4>1
    <3>2. CASE i \notin s
      <4>1. (i \in s) = FALSE
        BY <3>2
      <4> QED BY <4>1
    <3> QED BY <3>1, <3>2
  <2>4. v7'[i] = [v7[i] EXCEPT !.checked = b]
    BY <2>2, <2>3
  <2>5. v7'[i] \in [action : Actions, checked : BOOLEAN] /\ v7'[i].action = v7[i].action /\ v7'[i].checked = b
    BY <2>1, <2>4
  <2> QED BY <2>3, <2>5
<1>5. DOMAIN v7' = DOMAIN v7 /\ v7' \in [DOMAIN v7 -> [action : Actions, checked : BOOLEAN]]
  BY <1>2, <1>4
<1>6. SyncEntries'
  <2>1. \A i \in DOMAIN v7' : v7'[i].action = "skip" => ~v7'[i].checked
    BY <1>4, <1>5
  <2>2. v1' = "directory" => v7' = None
    BY <1>1, <1>3 DEF SyncEntries
  <2>3. v12' # None /\ DOMAIN v7' \subseteq Sync!Listed(v12.config)
    BY <1>1, <1>3, <1>5 DEF SyncEntries
  <2>4. ASSUME v12.alone, NEW i \in Sync!Listed(v12.config)
        PROVE  LET action == Sync!Action(v12.config, v2["local"][i], v2["remote"][i])
               IN  IF i \notin DOMAIN v7 THEN action = None ELSE action = v7[i].action \/ Achieved(i, v7[i].action)
    BY <1>1, <1>3, <2>4 DEF SyncEntries
  <2>5. ASSUME v12.alone, NEW i \in Sync!Listed(v12.config)
        PROVE  LET action == Sync!Action(v12.config, v2'["local"][i], v2'["remote"][i])
               IN  IF i \notin DOMAIN v7' THEN action = None ELSE action = v7'[i].action \/ Achieved(i, v7[i].action)'
    <3>1. CASE i \notin DOMAIN v7
      BY <1>1, <1>5, <2>4, <2>5, <3>1
    <3>2. CASE i \in DOMAIN v7
      <4>1. v7'[i].action = v7[i].action
        BY <1>4, <3>2
      <4>2. Achieved(i, v7[i].action) => Achieved(i, v7[i].action)'
        BY <1>1, <4>1 DEF Achieved, Sync!SameSize
      <4> QED BY <1>1, <1>5, <2>4, <2>5, <3>2, <4>1, <4>2
    <3> QED BY <3>1, <3>2
  <2> QED BY <1>1, <1>5, <2>1, <2>2, <2>3, <2>5 DEF SyncEntries
<1>7. \A r \in v9 : r.scope # v4
  BY <1>1, SyncShape
<1>8. v11 = "clean" => Left(<<>>, FALSE)'
  <2>1. v7' # None
    <3>1. DOMAIN v7 \in SUBSET {"d", "d/f", "g"}
      BY <1>1, <1>3 DEF SyncEntries, Sync!Listed, Sync!Items
    <3> QED BY <1>5, <3>1, PanelsConstants DEF Actions
  <2> QED BY <1>1, <1>4, <1>5, <2>1, LeftSame DEF SyncSound, SyncWork
<1>9. SyncWork'
  BY <1>1, <1>7, <1>8 DEF SyncWork, Sync!Busy
<1>10. SyncLoops' /\ SyncBasis' /\ Sync!BusyIsOneLoop'
  BY <1>1 DEF SyncSound, SyncLoops, SyncBasis, Sync!BusyIsOneLoop, Sync!Compare0, Sync!List0, Sync!Busy
<1>11. /\ v1' \in Dialogs /\ v2' \in [Sides -> [Sync!Items -> Sync!Contents]] /\ v3' \in BOOLEAN
       /\ v4' \in 0 .. MaxScopes /\ v5' \in Configs /\ v6' \in Phases /\ v8' \in BOOLEAN
       /\ v9' \subseteq Loops' /\ v11' \in {None, "clean", "errors"}
  BY <1>1, SyncShape DEF Loops, Sync!Ops, SyncSound, Sync!TypeOK
<1> QED BY <1>6, <1>9, <1>10, <1>11, SyncNext

LEMMA SyncKeeps == ASSUME SyncSound, Sync!Sync PROVE SyncSound'
<1>1. /\ ~Sync!Busy /\ v7 # None /\ v8' = FALSE /\ v12' = [v12 EXCEPT !.all = Sync!AllChecked]
      /\ UNCHANGED <<v1, v2, v3, v4, v5, v7>>
      /\ IF Sync!SyncPlan = <<>>
         THEN v6' = "completed" /\ v11' = "clean" /\ v9' = v9
         ELSE v6' = "syncing" /\ v11' = None /\ v9' = v9 \cup {Sync!Loop(v4, Sync!SyncPlan)}
  BY DEF Sync!Sync
<1>2. Sync!TypeOK /\ SyncEntries /\ SyncBasis
  BY DEF SyncSound
<1>3. v12 \in [config : Configs, alone : BOOLEAN, all : BOOLEAN] /\ v1 = "sync"
      /\ DOMAIN v7 \subseteq Sync!Items /\ (v12.alone => \A r \in v9 : r.scope = v4)
  BY <1>1, <1>2, SyncShape DEF SyncEntries, SyncBasis, Sync!TypeOK
<1>4. \A r \in v9 : r.scope # v4
  BY <1>1, SyncShape
<1>5. PICK all \in BOOLEAN : all = Sync!AllChecked
  <2>1. CASE Sync!AllChecked
    <3>1. Sync!AllChecked = TRUE
      BY <2>1
    <3> QED BY <3>1
  <2>2. CASE ~Sync!AllChecked
    <3>1. Sync!AllChecked = FALSE
      BY <2>2
    <3> QED BY <3>1
  <2> QED BY <2>1, <2>2
<1>6. /\ v12' \in [config : Configs, alone : BOOLEAN, all : BOOLEAN]
      /\ v12'.config = v12.config /\ v12'.alone = v12.alone /\ v12'.all = all
  BY <1>1, <1>3, <1>5
<1>7. PICK plan : plan = Sync!SyncPlan
  OBVIOUS
<1>8. /\ plan \in Seq(Sync!Ops)
      /\ \A n \in DOMAIN plan :
           /\ plan[n].item \in Checked /\ plan[n].action = v7[plan[n].item].action
           /\ plan[n].to = IF plan[n].action = "download" THEN "local" ELSE "remote"
      /\ \A i \in Checked : Outstanding(i, plan)
  BY <1>1, <1>2, <1>7, SyncPlanDoes
<1>9. \A i \in DOMAIN v7 : v7[i].action \in Actions
  BY <1>1, <1>2 DEF SyncEntries
<1>10. SyncLeft(plan, FALSE)'
  <2>1. ASSUME Sync!AllChecked, NEW i \in DOMAIN v7
        PROVE  v7[i].action # "conflict" /\ (v7[i].action = "skip" \/ Outstanding(i, plan))
    BY <1>8, <2>1 DEF Sync!AllChecked, Checked
  <2>2. \A i \in DOMAIN v7 : all => v7[i].action # "conflict" /\ (v7[i].action = "skip" \/ Outstanding(i, plan))
    BY <1>5, <2>1
  <2> QED BY <1>1, <1>6, <1>8, <2>2 DEF SyncLeft, Checked, Outstanding
<1>11. Left(plan, FALSE)'
  BY <1>1, <1>3, <1>10 DEF Left
<1>12. SyncEntries'
  <2>1. v12' # None
    BY <1>6, PanelsConstants
  <2>2. \A i \in DOMAIN v7 : Achieved(i, v7[i].action)' <=> Achieved(i, v7[i].action)
    BY <1>1 DEF Achieved, Sync!SameSize
  <2> QED BY <1>1, <1>2, <1>3, <1>6, <2>1, <2>2 DEF SyncEntries
<1>13. SyncBasis'
  <2>1. v12'.alone => v9 = {}
    BY <1>3, <1>4, <1>6
  <2>2. CASE plan = <<>>
    BY <1>1, <1>6, <1>7, <2>1, <2>2 DEF SyncBasis
  <2>3. CASE plan # <<>>
    <3>1. v9' = v9 \cup {Sync!Loop(v4, plan)}
      BY <1>1, <1>7, <2>3
    <3> QED BY <1>1, <1>6, <2>1, <3>1 DEF SyncBasis, Sync!Loop
  <2> QED BY <2>2, <2>3
<1>14. CASE plan = <<>>
  <2>1. v6' = "completed" /\ v11' = "clean" /\ v9' = v9
    BY <1>1, <1>7, <1>14
  <2>2. SyncLoops'
    BY <1>1, <2>1 DEF SyncSound, SyncLoops, Sync!Compare0, Sync!List0
  <2>3. SyncWork'
    BY <1>1, <1>4, <1>11, <1>14, <2>1 DEF SyncWork, Sync!Busy
  <2>4. Sync!BusyIsOneLoop'
    <3>1. {q \in v9' : q.scope = v4'} = {}
      BY <1>1, <1>4, <2>1
    <3> QED BY <2>1, <3>1 DEF Sync!BusyIsOneLoop, Sync!Busy
  <2>5. /\ v1' \in Dialogs /\ v2' \in [Sides -> [Sync!Items -> Sync!Contents]] /\ v3' \in BOOLEAN
        /\ v4' \in 0 .. MaxScopes /\ v5' \in Configs /\ v8' \in BOOLEAN /\ v9' \subseteq Loops'
    BY <1>1, <2>1, SyncShape DEF Loops, Sync!Ops, SyncSound, Sync!TypeOK
  <2>6. v6' \in Phases /\ v11' \in {None, "clean", "errors"}
    BY <2>1 DEF Phases
  <2> QED BY <1>12, <1>13, <2>2, <2>3, <2>4, <2>5, <2>6, SyncNext
<1>15. CASE plan # <<>>
  <2>1. v6' = "syncing" /\ v11' = None /\ v9' = v9 \cup {Sync!Loop(v4, plan)}
    BY <1>1, <1>7, <1>15
  <2>2. v3 \in BOOLEAN /\ v4 \in 0 .. MaxScopes /\ MaxScopes \in Nat
    BY SyncShape
  <2>3. PICK at \in 0 .. MaxScopes : at = v4
    BY <2>2
  <2>4. v9' = v9 \cup {Sync!Loop(at, plan)} /\ v4' = at /\ v4 <= at /\ \A r \in v9 : r.scope # at
    BY <1>1, <1>4, <2>1, <2>2, <2>3
  <2>5. \A n \in DOMAIN plan : plan[n].action \notin {"compare", "list"}
    BY <1>8, <1>9 DEF Actions, Checked
  <2>6. plan \in Seq(Sync!Ops) \ {<<>>}
    BY <1>8, <1>15
  <2> QED BY <1>1, <1>11, <1>12, <1>13, <2>1, <2>2, <2>4, <2>5, <2>6, LoopStarts
<1> QED BY <1>14, <1>15

(* What a loop awaits tells which it is. *)
LEMMA AwaitsTell ==
  ASSUME SyncSound, NEW r \in v9
  PROVE  /\ r \in Loops /\ r.todo \in Seq(Sync!Ops) /\ r.todo # <<>> /\ Head(r.todo) = r.todo[1] /\ 1 \in DOMAIN r.todo
         /\ Sync!Awaits(r) = "compare" => v1 = "sync"
         /\ Sync!Awaits(r) = "list" => v1 = "directory"
         /\ Sync!Working(r) => /\ \A n \in DOMAIN r.todo : r.todo[n].action \notin {"compare", "list"}
                               /\ r.scope = v4 => Left(r.todo, r.bad)
<1>1. r \in Loops
  BY SyncShape
<1>2. r.todo \in Seq(Sync!Ops) /\ r.todo # <<>>
  BY <1>1 DEF Loops
<1>3. Head(r.todo) = r.todo[1] /\ 1 \in DOMAIN r.todo
  BY <1>2
<1>4. \/ v1 = "sync" /\ r.todo = Sync!Compare0
      \/ v1 = "directory" /\ r.todo = Sync!List0
      \/ \A n \in DOMAIN r.todo : r.todo[n].action \notin {"compare", "list"}
  BY DEF SyncSound, SyncLoops
<1>5. r.scope = v4 /\ r.todo \notin {Sync!Compare0, Sync!List0} => Left(r.todo, r.bad)
  BY DEF SyncSound, SyncWork
<1> QED BY <1>1, <1>2, <1>3, <1>4, <1>5, Starts DEF Sync!Awaits, Sync!Working

LEMMA ComparesKeeps == ASSUME SyncSound, NEW r \in v9, Sync!Compares(r) PROVE SyncSound'
<1>1. v9' = v9 \ {r} /\ v8' = v8 /\ UNCHANGED <<v1, v2, v3, v4, v5, v11>> /\ v1 = "sync"
  BY AwaitsTell DEF Sync!Compares
<1>2. v2' \in [Sides -> [Sync!Items -> Sync!Contents]] /\ v8' \in BOOLEAN /\ v11' \in {None, "clean", "errors"}
      /\ v5 \in Configs /\ v6 \in Phases /\ (r.scope = v4 => v11 # "clean")
  BY <1>1, SyncShape
<1>3. CASE r.scope = v4 /\ ~v8
  <2>1. v7' = Sync!Compared(v5) /\ v6' = "completed" /\ v12' = [config |-> v5, alone |-> v9 = {r}, all |-> FALSE]
    BY <1>3 DEF Sync!Compares, Sync!Basis
  <2>2. PICK alone \in BOOLEAN : alone = (v9 = {r})
    <3>1. CASE v9 = {r}
      <4>1. (v9 = {r}) = TRUE
        BY <3>1
      <4> QED BY <4>1
    <3>2. CASE v9 # {r}
      <4>1. (v9 = {r}) = FALSE
        BY <3>2
      <4> QED BY <4>1
    <3> QED BY <3>1, <3>2
  <2>3. v12' = [config |-> v5, alone |-> alone, all |-> FALSE]
    BY <2>1, <2>2
  <2>4. v12' \in [config : Configs, alone : BOOLEAN, all : BOOLEAN] /\ v12'.config = v5 /\ (v12'.alone => v9' = {})
    BY <1>1, <1>2, <2>2, <2>3
  <2>5. v12' # None
    BY <2>4, PanelsConstants
  <2> DEFINE act(i) == Sync!Action(v5, v2["local"][i], v2["remote"][i])
  <2>6. /\ DOMAIN v7' = {i \in Sync!Listed(v5) : act(i) # None}
        /\ \A i \in DOMAIN v7' : v7'[i] = [action |-> act(i), checked |-> act(i) \notin {"skip", "conflict", "delete-remote"}]
    BY <2>1 DEF Sync!Compared
  <2>7. ASSUME NEW i \in DOMAIN v7'
        PROVE  /\ v7'[i] \in [action : Actions, checked : BOOLEAN] /\ v7'[i].action = act(i)
               /\ act(i) = "skip" => ~v7'[i].checked
    <3>1. act(i) # None
      BY <2>6
    <3>2. act(i) \in Actions
      BY <3>1 DEF Sync!Action, Sync!Copy, Actions
    <3> HIDE DEF act
    <3>3. CASE act(i) \in {"skip", "conflict", "delete-remote"}
      <4>1. (act(i) \notin {"skip", "conflict", "delete-remote"}) = FALSE
        BY <3>3
      <4>2. v7'[i] = [action |-> act(i), checked |-> FALSE]
        BY <2>6, <4>1
      <4> QED BY <3>2, <4>2
    <3>4. CASE act(i) \notin {"skip", "conflict", "delete-remote"}
      <4>1. (act(i) \notin {"skip", "conflict", "delete-remote"}) = TRUE
        BY <3>4
      <4>2. v7'[i] = [action |-> act(i), checked |-> TRUE]
        BY <2>6, <4>1
      <4> QED BY <3>2, <3>4, <4>2
    <3> QED BY <3>3, <3>4
  <2>8. v7' \in [DOMAIN v7' -> [action : Actions, checked : BOOLEAN]]
    <3>1. v7' = [i \in DOMAIN v7' |-> v7'[i]]
      BY <2>1 DEF Sync!Compared
    <3> QED BY <2>7, <3>1
  <2>9. \A i \in Sync!Listed(v5) : i \notin DOMAIN v7' => act(i) = None
    BY <2>6
  <2>10. SyncEntries'
    BY <1>1, <2>4, <2>5, <2>6, <2>7, <2>8, <2>9 DEF SyncEntries
  <2>11. v6' \in Phases /\ v6' \notin {"comparing", "syncing"}
    BY <2>1 DEF Phases
  <2> QED BY <1>1, <1>2, <1>3, <2>4, <2>10, <2>11, LoopEnds
<1>4. CASE ~(r.scope = v4 /\ ~v8)
  <2>1. v6' = (IF r.scope = v4 THEN "cancelled" ELSE v6) /\ v7' = v7 /\ v12' = v12
    BY <1>4 DEF Sync!Compares
  <2>2. SyncEntries'
    BY <1>1, <2>1 DEF SyncSound, SyncEntries, Achieved, Sync!SameSize
  <2>3. \A t, b : Left(t, b) => Left(t, b)'
    BY <1>1, <2>1, LeftSame
  <2>4. v11' = "clean" => v6' \notin {"comparing", "syncing"} /\ Left(<<>>, FALSE)'
    BY <1>1, <1>2, <2>1, <2>3 DEF SyncSound, SyncWork, Sync!Busy
  <2>5. v6' \in Phases /\ IF r.scope = v4 THEN v6' \notin {"comparing", "syncing"} ELSE v6' = v6
    BY <1>2, <2>1 DEF Phases
  <2> QED BY <1>1, <1>2, <2>1, <2>2, <2>3, <2>4, <2>5, LoopEnds
<1> QED BY <1>3, <1>4

LEMMA TailOf ==
  ASSUME NEW t \in Seq(Sync!Ops), t # <<>>
  PROVE  /\ Tail(t) \in Seq(Sync!Ops) /\ t[1] \in Sync!Ops
         /\ \A n \in DOMAIN Tail(t) : n + 1 \in DOMAIN t /\ Tail(t)[n] = t[n + 1]
         /\ \A n \in DOMAIN t : n = 1 \/ (n - 1 \in DOMAIN Tail(t) /\ Tail(t)[n - 1] = t[n])
<1>1. /\ Len(t) \in Nat /\ Len(t) > 0 /\ DOMAIN t = 1 .. Len(t) /\ Tail(t) \in Seq(Sync!Ops) /\ t[1] \in Sync!Ops
      /\ Len(Tail(t)) = Len(t) - 1 /\ DOMAIN Tail(t) = 1 .. (Len(t) - 1)
      /\ \A n \in 1 .. (Len(t) - 1) : Tail(t)[n] = t[n + 1]
  OBVIOUS
<1>2. ASSUME NEW n \in DOMAIN t, n # 1 PROVE n - 1 \in 1 .. (Len(t) - 1) /\ (n - 1) + 1 = n
  BY <1>1, <1>2
<1>3. \A n \in DOMAIN t : n = 1 \/ (n - 1 \in DOMAIN Tail(t) /\ Tail(t)[n - 1] = t[n])
  BY <1>1, <1>2
<1>4. \A n \in DOMAIN Tail(t) : n + 1 \in DOMAIN t /\ Tail(t)[n] = t[n + 1]
  BY <1>1
<1> QED BY <1>1, <1>3, <1>4

LEMMA ListsKeeps == ASSUME SyncSound, NEW r \in v9, Sync!Lists(r) PROVE SyncSound'
<1>1. /\ UNCHANGED <<v1, v2, v3, v4, v5, v7>> /\ v1 = "directory" /\ v7 = None
      /\ Sync!Turn(r, Sync!WalkPlan(v5), FALSE, FALSE)
      /\ IF r.scope = v4 THEN v12' = [config |-> v5, alone |-> v9 = {r}, all |-> FALSE] ELSE v12' = v12
  BY AwaitsTell DEF Sync!Lists, Sync!Basis, SyncSound, SyncEntries
<1>2. v2 \in [Sides -> [Sync!Items -> Sync!Contents]] /\ v5 \in Configs
  BY SyncShape
<1>3. PICK alone \in BOOLEAN : alone = (v9 = {r})
  <2>1. CASE v9 = {r}
    <3>1. (v9 = {r}) = TRUE
      BY <2>1
    <3> QED BY <3>1
  <2>2. CASE v9 # {r}
    <3>1. (v9 = {r}) = FALSE
      BY <2>2
    <3> QED BY <3>1
  <2> QED BY <2>1, <2>2
<1>4. ASSUME r.scope = v4
      PROVE  v12' \in [config : Configs, alone : BOOLEAN, all : BOOLEAN] /\ v12'.config = v5 /\ (v12'.alone => v9 = {r})
  <2>1. v12' = [config |-> v5, alone |-> alone, all |-> FALSE]
    BY <1>1, <1>3, <1>4
  <2>2. alone => v9 = {r}
    BY <1>3
  <2> QED BY <1>2, <2>1, <2>2
<1>5. PICK c \in Configs : c = v5
  BY <1>2
<1>6. PICK plan : plan = Sync!WalkPlan(c)
  OBVIOUS
<1>7. /\ plan \in Seq(Sync!Ops) \ {<<>>}
      /\ \A n \in DOMAIN plan : /\ plan[n].action \in {"root", "mkdir", Sync!Copy(c)} /\ plan[n].to = Sync!To(c)
                                /\ plan[n].action # "root" => plan[n].item \in Sync!Items
      /\ \A i \in Sync!Items : Sync!IsFile(v2[Sync!From(c)][i]) =>
           \E n \in DOMAIN plan : plan[n].item = i /\ plan[n].action = Sync!Copy(c)
  BY <1>6, WalkPlanDoes
<1>8. Sync!Turn(r, plan, FALSE, FALSE)
  BY <1>1, <1>5, <1>6
<1>9. r.scope = v4 => Left(plan, FALSE)'
  <2>1. ASSUME r.scope = v4 PROVE WalkLeft(plan, FALSE)'
    <3>1. v12' # None /\ v12'.config = c
      BY <1>4, <1>5, <2>1, PanelsConstants
    <3> QED BY <1>1, <1>7, <3>1 DEF WalkLeft
  <2> QED BY <1>1, <2>1 DEF Left
<1>10. SyncEntries'
  BY <1>1 DEF SyncEntries
<1>11. \A n \in DOMAIN plan : plan[n].action \notin {"compare", "list"}
  BY <1>7 DEF Sync!Copy
<1>12. \A t, b : r.scope # v4 /\ Left(t, b) => Left(t, b)'
  BY <1>1, LeftSame
<1>13. v12' # v12 => r.scope = v4 /\ v12' \in [config : Configs, alone : BOOLEAN, all : BOOLEAN] /\ (v12'.alone => v9 = {r})
  BY <1>1, <1>4
<1> QED BY <1>1, <1>2, <1>7, <1>8, <1>9, <1>10, <1>11, <1>12, <1>13, TurnKeeps

LEMMA ListingFailsKeeps ==
  ASSUME SyncSound, NEW r \in v9, v9' = v9 \ {r}, v6' \in Phases, v8' \in BOOLEAN,
         IF r.scope = v4 THEN v6' \notin {"comparing", "syncing"} ELSE v6' = v6,
         UNCHANGED <<v1, v2, v3, v4, v5, v7, v11, v12>>
  PROVE  SyncSound'
<1>1. v2' \in [Sides -> [Sync!Items -> Sync!Contents]] /\ v11' \in {None, "clean", "errors"}
      /\ (r.scope = v4 => v11 # "clean")
  BY SyncShape
<1>2. SyncEntries'
  BY DEF SyncSound, SyncEntries, Achieved, Sync!SameSize
<1>3. \A t, b : Left(t, b) => Left(t, b)'
  BY LeftSame
<1>4. v11' = "clean" => v6' \notin {"comparing", "syncing"} /\ Left(<<>>, FALSE)'
  BY <1>1, <1>3 DEF SyncSound, SyncWork, Sync!Busy
<1> QED BY <1>1, <1>2, <1>3, <1>4, LoopEnds

LEMMA LandsKeeps == ASSUME SyncSound, NEW r \in v9, Sync!Lands(r) PROVE SyncSound'
<1>1. PICK o : o = Head(r.todo)
  OBVIOUS
<1>2. PICK t : t = r.todo
  OBVIOUS
<1>3. PICK rest : rest = Tail(t)
  OBVIOUS
<1>4. /\ Sync!Possible(o) /\ v2' = Sync!Done(o) /\ Sync!Turn(r, rest, r.bad, FALSE)
      /\ UNCHANGED <<v1, v3, v4, v5, v7, v12>> /\ Sync!Working(r)
  BY <1>1, <1>2, <1>3 DEF Sync!Lands
<1>5. /\ t \in Seq(Sync!Ops) /\ t # <<>> /\ o = t[1] /\ 1 \in DOMAIN t /\ r.bad \in BOOLEAN
      /\ \A n \in DOMAIN t : t[n].action \notin {"compare", "list"}
      /\ r.scope = v4 => Left(t, r.bad)
  BY <1>1, <1>2, <1>4, AwaitsTell DEF Loops
<1>6. /\ rest \in Seq(Sync!Ops) /\ o \in Sync!Ops /\ o.action \notin {"compare", "list"}
      /\ \A n \in DOMAIN rest : n + 1 \in DOMAIN t /\ rest[n] = t[n + 1]
      /\ \A n \in DOMAIN t : n = 1 \/ (n - 1 \in DOMAIN rest /\ rest[n - 1] = t[n])
  BY <1>3, <1>5, TailOf
<1>7. Sync!TypeOK /\ SyncEntries /\ SyncBasis /\ v1 \in {"sync", "directory"}
  BY SyncShape DEF SyncSound
<1>8. v2' \in [Sides -> [Sync!Items -> Sync!Contents]]
  BY <1>4, <1>6, <1>7, LandsTyped
<1>9. r.scope # v4 /\ v12 # None => ~v12.alone
  BY <1>7 DEF SyncBasis
<1>10. r.scope = v4 /\ v1 = "sync" =>
         /\ v7 # None /\ o.item \in DOMAIN v7 /\ o.action = v7[o.item].action
         /\ o.action \in {"upload", "download", "create-dir", "delete-remote"}
         /\ o.to = IF o.action = "download" THEN "local" ELSE "remote"
  <2>1. ASSUME r.scope = v4, v1 = "sync" PROVE SyncLeft(t, r.bad)
    BY <1>5, <2>1 DEF Left
  <2>2. ASSUME r.scope = v4, v1 = "sync" PROVE v7 # None /\ v7[o.item].action \in Actions /\ o.item \in DOMAIN v7
    BY <1>5, <1>7, <2>1, <2>2 DEF SyncLeft, SyncEntries
  <2> QED BY <1>5, <1>6, <2>1, <2>2 DEF SyncLeft, Sync!Ops, Actions
<1>11. v7 # None => v1 = "sync" /\ v12 # None
  BY <1>7 DEF SyncEntries
<1>12. SyncEntries'
  BY <1>4, <1>6, <1>7, <1>9, <1>10, <1>11, EntriesAfterLanding
<1>13. ASSUME r.scope = v4, v1 = "sync" PROVE SyncLeft(rest, r.bad)'
  <2>1. SyncLeft(t, r.bad)
    BY <1>5, <1>13 DEF Left
  <2>2. v7 # None /\ \A n \in DOMAIN rest :
          /\ rest[n].item \in DOMAIN v7 /\ rest[n].action = v7[rest[n].item].action
          /\ rest[n].to = IF rest[n].action = "download" THEN "local" ELSE "remote"
    BY <1>6, <2>1 DEF SyncLeft
  <2>3. ASSUME v12.alone, v12.all, ~r.bad, NEW i \in DOMAIN v7
        PROVE  v7[i].action # "conflict" /\ (v7[i].action = "skip" \/ Achieved(i, v7[i].action)' \/ Outstanding(i, rest))
    <3>1. /\ Achieved(o.item, o.action)'
          /\ Achieved(i, v7[i].action) => Achieved(i, v7[i].action)'
      BY <1>4, <1>6, <1>7, <1>10, <1>13, <2>3, AchievedByLanding
    <3>2. v7[i].action # "conflict" /\ (v7[i].action = "skip" \/ Achieved(i, v7[i].action) \/ Outstanding(i, t))
      BY <2>1, <2>3 DEF SyncLeft
    <3>3. ASSUME Outstanding(i, t) PROVE i = o.item \/ Outstanding(i, rest)
      BY <1>5, <1>6, <3>3 DEF Outstanding
    <3>4. i = o.item => Achieved(i, v7[i].action)'
      BY <1>4, <1>10, <1>13, <3>1 DEF Achieved
    <3> QED BY <3>1, <3>2, <3>3, <3>4
  <2> QED BY <1>4, <2>2, <2>3 DEF SyncLeft, Outstanding
<1>14. ASSUME r.scope = v4, v1 = "directory" PROVE WalkLeft(rest, r.bad)'
  <2>1. WalkLeft(t, r.bad)
    BY <1>5, <1>14 DEF Left
  <2>2. v12 # None /\ \A n \in DOMAIN rest :
          /\ rest[n].action \in {"root", "mkdir", Sync!Copy(v12.config)} /\ rest[n].to = Sync!To(v12.config)
          /\ rest[n].action # "root" => rest[n].item \in Sync!Items
    BY <1>6, <2>1 DEF WalkLeft
  <2>3. /\ o.action \in {"root", "mkdir", Sync!Copy(v12.config)} /\ o.to = Sync!To(v12.config)
        /\ o.action # "root" => o.item \in Sync!Items
    BY <1>5, <2>1 DEF WalkLeft
  <2>4. v12.config \in Configs /\ v12.config.dir \in {"up", "down"}
    BY <1>7, <2>2, PanelsConstants DEF SyncBasis
  <2> DEFINE from == Sync!From(v12.config)  copy == Sync!Copy(v12.config)
  <2>5. from \in Sides /\ from # o.to /\ copy \in {"upload", "download"}
        /\ (o.action = "upload" => o.to = "remote") /\ (o.action = "download" => o.to = "local")
    BY <2>3, <2>4 DEF Sync!From, Sync!To, Sync!Copy, Sides
  <2>6. ASSUME v12.alone, ~r.bad, NEW i \in Sync!Items, Sync!IsFile(v2'[from][i])
        PROVE  Sync!SameSize(i)' \/ \E n \in DOMAIN rest : rest[n].item = i /\ rest[n].action = copy
    <3>1. CASE o.action = "root"
      <4>1. v2' = v2
        BY <1>4, <3>1 DEF Sync!Done
      <4>2. Sync!SameSize(i) \/ \E n \in DOMAIN t : t[n].item = i /\ t[n].action = copy
        BY <2>1, <2>6, <4>1 DEF WalkLeft
      <4>3. Sync!SameSize(i) => Sync!SameSize(i)'
        BY <4>1 DEF Sync!SameSize
      <4>4. o.action # copy
        BY <2>5, <3>1
      <4> QED BY <1>5, <1>6, <4>2, <4>3, <4>4
    <3>2. CASE o.action # "root"
      <4>1. /\ \A s \in Sides, j \in Sync!Items : s # o.to \/ j # o.item => v2'[s][j] = v2[s][j]
            /\ o.action \in {"upload", "download"} => Sync!SameSize(o.item)'
            /\ o.action \in {"create-dir", "mkdir"} => v2[o.to][o.item] = None /\ v2'[o.to][o.item] = Dir
        <5>1. o.action \in {"mkdir", "upload", "download"} /\ o.item \in Sync!Items
          BY <2>3, <2>5, <3>2
        <5> QED BY <1>4, <1>6, <1>7, <2>5, <3>2, <5>1, LandsDoes
      <4>2. v2'[from][i] = v2[from][i]
        BY <2>5, <4>1
      <4>3. Sync!SameSize(i) \/ \E n \in DOMAIN t : t[n].item = i /\ t[n].action = copy
        BY <2>1, <2>6, <4>2 DEF WalkLeft
      <4>4. CASE i = o.item /\ o.action = copy
        BY <2>5, <4>1, <4>4
      <4>5. CASE i = o.item /\ o.action # copy
        <5>1. o.action = "mkdir"
          BY <2>3, <3>2, <4>5
        <5>2. ~Sync!IsFile(v2[o.to][i]) /\ o.to \in Sides
          BY <1>6, <4>1, <4>5, <5>1 DEF Sync!IsFile, Sync!Ops, Sides
        <5>3. ~Sync!SameSize(i)
          BY <5>2 DEF Sync!SameSize, Sides
        <5> QED BY <1>5, <1>6, <4>3, <4>5, <5>3
      <4>6. CASE i # o.item
        <5>1. v2'["local"][i] = v2["local"][i] /\ v2'["remote"][i] = v2["remote"][i]
          BY <4>1, <4>6 DEF Sides
        <5>2. Sync!SameSize(i) => Sync!SameSize(i)'
          BY <5>1 DEF Sync!SameSize
        <5> QED BY <1>5, <1>6, <4>3, <4>6, <5>2
      <4> QED BY <4>4, <4>5, <4>6
    <3> QED BY <3>1, <3>2
  <2> QED BY <1>4, <2>2, <2>6 DEF WalkLeft
<1>15. r.scope = v4 => Left(rest, r.bad)'
  BY <1>4, <1>7, <1>13, <1>14 DEF Left
<1>16. \A u, b : r.scope # v4 /\ Left(u, b) => Left(u, b)'
  BY <1>4, <1>9, <1>11 DEF Left, SyncLeft, WalkLeft, Outstanding
<1>17. \A n \in DOMAIN rest : rest[n].action \notin {"compare", "list"}
  BY <1>5, <1>6
<1>18. PICK bad \in BOOLEAN : bad = r.bad
  BY <1>5
<1>19. Sync!Turn(r, rest, bad, FALSE) /\ (r.scope = v4 => Left(rest, bad)')
  BY <1>4, <1>15, <1>18
<1> QED BY <1>4, <1>6, <1>8, <1>12, <1>16, <1>17, <1>19, TurnKeeps

LEMMA FailsKeeps == ASSUME SyncSound, NEW r \in v9, Sync!Fails(r) PROVE SyncSound'
<1>1. PICK o : o = Head(r.todo)
  OBVIOUS
<1>2. PICK t : t = r.todo
  OBVIOUS
<1>3. PICK rest : rest = Tail(t)
  OBVIOUS
<1>4. UNCHANGED <<v1, v2, v3, v4, v5, v7, v12>> /\ Sync!Working(r)
  BY DEF Sync!Fails
<1>5. /\ t \in Seq(Sync!Ops) /\ t # <<>> /\ o = t[1] /\ 1 \in DOMAIN t /\ r.bad \in BOOLEAN
      /\ \A n \in DOMAIN t : t[n].action \notin {"compare", "list"}
      /\ r.scope = v4 => Left(t, r.bad)
  BY <1>1, <1>2, <1>4, AwaitsTell DEF Loops
<1>6. PICK seen \in BOOLEAN : (~seen => Sync!Unseen(o)) /\ Sync!Turn(r, rest, r.bad \/ seen, FALSE)
  BY <1>1, <1>2, <1>3 DEF Sync!Fails
<1>7. PICK bad \in BOOLEAN : bad = (r.bad \/ seen)
  BY <1>5
<1>8. Sync!Turn(r, rest, bad, FALSE)
  BY <1>6, <1>7
<1>9. ~bad => ~r.bad /\ Sync!Unseen(o)
  BY <1>6, <1>7
<1>10. /\ rest \in Seq(Sync!Ops) /\ o \in Sync!Ops /\ o.action \notin {"compare", "list"}
       /\ \A n \in DOMAIN rest : n + 1 \in DOMAIN t /\ rest[n] = t[n + 1]
       /\ \A n \in DOMAIN t : n = 1 \/ (n - 1 \in DOMAIN rest /\ rest[n - 1] = t[n])
  BY <1>3, <1>5, TailOf
<1>11. SyncEntries /\ SyncBasis /\ v1 \in {"sync", "directory"}
       /\ v2 \in [Sides -> [Sync!Items -> Sync!Contents]]
  BY SyncShape DEF SyncSound
<1>12. ~bad => o.action \in {"root", "mkdir"}
  BY <1>9 DEF Sync!Unseen
<1>13. ASSUME r.scope = v4, v1 = "sync" PROVE SyncLeft(rest, bad)
  <2>1. SyncLeft(t, r.bad)
    BY <1>5, <1>13 DEF Left
  <2>2. v7 # None /\ \A n \in DOMAIN rest :
          /\ rest[n].item \in DOMAIN v7 /\ rest[n].action = v7[rest[n].item].action
          /\ rest[n].to = IF rest[n].action = "download" THEN "local" ELSE "remote"
    BY <1>10, <2>1 DEF SyncLeft
  <2>3. o.action \in Actions
    BY <1>5, <1>11, <2>1 DEF SyncLeft, SyncEntries
  <2>4. bad
    BY <1>12, <2>3 DEF Actions
  <2> QED BY <2>2, <2>4 DEF SyncLeft
<1>14. ASSUME r.scope = v4, v1 = "directory" PROVE WalkLeft(rest, bad)
  <2>1. WalkLeft(t, r.bad)
    BY <1>5, <1>14 DEF Left
  <2>2. v12 # None /\ \A n \in DOMAIN rest :
          /\ rest[n].action \in {"root", "mkdir", Sync!Copy(v12.config)} /\ rest[n].to = Sync!To(v12.config)
          /\ rest[n].action # "root" => rest[n].item \in Sync!Items
    BY <1>10, <2>1 DEF WalkLeft
  <2>3. ~bad => o.action # Sync!Copy(v12.config)
    BY <1>12 DEF Sync!Copy
  <2>4. ASSUME v12.alone, ~bad, NEW i \in Sync!Items, Sync!IsFile(v2[Sync!From(v12.config)][i])
        PROVE  Sync!SameSize(i) \/ \E n \in DOMAIN rest : rest[n].item = i /\ rest[n].action = Sync!Copy(v12.config)
    <3>1. Sync!SameSize(i) \/ \E n \in DOMAIN t : t[n].item = i /\ t[n].action = Sync!Copy(v12.config)
      BY <1>9, <2>1, <2>4 DEF WalkLeft
    <3>2. ASSUME NEW n \in DOMAIN t, t[n].item = i, t[n].action = Sync!Copy(v12.config)
          PROVE  n - 1 \in DOMAIN rest /\ rest[n - 1] = t[n]
      <4>1. n # 1
        BY <1>5, <2>3, <2>4, <3>2
      <4> QED BY <1>10, <4>1
    <3> QED BY <3>1, <3>2
  <2> QED BY <2>2, <2>4 DEF WalkLeft
<1>15. r.scope = v4 => Left(rest, bad)
  BY <1>11, <1>13, <1>14 DEF Left
<1>16. r.scope = v4 => Left(rest, bad)'
  BY <1>4, <1>15, LeftSame
<1>17. \A u, b : r.scope # v4 /\ Left(u, b) => Left(u, b)'
  BY <1>4, LeftSame
<1>18. SyncEntries'
  BY <1>4, <1>11 DEF SyncEntries, Achieved, Sync!SameSize
<1>19. \A n \in DOMAIN rest : rest[n].action \notin {"compare", "list"}
  BY <1>5, <1>10
<1> QED BY <1>4, <1>8, <1>10, <1>11, <1>16, <1>17, <1>18, <1>19, TurnKeeps

LEMMA SyncStep == ASSUME SyncSound, Sync!Next PROVE SyncSound'
<1>1. CASE Sync!Open \/ Sync!Close \/ Sync!Retarget \/ Sync!ViewGoes
  BY <1>1, RescopeKeeps DEF Sync!Open, Sync!Close, Sync!Retarget, Sync!ViewGoes
<1>2. CASE Sync!Configure \/ Sync!Cancel
  BY <1>2, ConfigureKeeps
<1>3. CASE Sync!Compare
  BY <1>3, CompareKeeps
<1>4. CASE Sync!Check
  BY <1>4, CheckKeeps
<1>5. CASE Sync!Sync
  BY <1>5, SyncKeeps
<1>6. ASSUME NEW r \in v9, Sync!Answer(r) PROVE SyncSound'
  <2>0. v6 \in Phases /\ v8 \in BOOLEAN
    BY SyncShape
  <2>1. CASE Sync!Compares(r)
    BY <2>1, ComparesKeeps
  <2>2. CASE Sync!Lists(r)
    BY <2>2, ListsKeeps
  <2>3. CASE Sync!ListingFails(r)
    <3>1. v9' = v9 \ {r} /\ UNCHANGED <<v1, v2, v3, v4, v5, v7, v8, v11, v12>>
          /\ v6' = IF r.scope # v4 THEN v6 ELSE IF v8 THEN "cancelled" ELSE "error"
      BY <2>3 DEF Sync!ListingFails
    <3>2. v6' \in Phases /\ v8' \in BOOLEAN /\ IF r.scope = v4 THEN v6' \notin {"comparing", "syncing"} ELSE v6' = v6
      BY <2>0, <3>1 DEF Phases
    <3> QED BY <3>1, <3>2, ListingFailsKeeps
  <2>4. CASE Sync!Lands(r)
    BY <2>4, LandsKeeps
  <2>5. CASE Sync!Fails(r)
    BY <2>5, FailsKeeps
  <2>6. CASE Sync!TransferCancelled(r)
    <3>1. v9' = v9 \ {r} /\ UNCHANGED <<v1, v2, v3, v4, v5, v7, v11, v12>> /\ v8' \in {v8, TRUE}
          /\ v6' = IF r.scope # v4 THEN v6 ELSE "cancelled"
      BY <2>6 DEF Sync!TransferCancelled, Sync!Turn
    <3>2. v6' \in Phases /\ v8' \in BOOLEAN /\ IF r.scope = v4 THEN v6' \notin {"comparing", "syncing"} ELSE v6' = v6
      BY <2>0, <3>1 DEF Phases
    <3> QED BY <3>1, <3>2, ListingFailsKeeps
  <2> QED BY <1>6, <2>1, <2>2, <2>3, <2>4, <2>5, <2>6 DEF Sync!Answer
<1> QED BY <1>1, <1>2, <1>3, <1>4, <1>5, <1>6 DEF Sync!Next

(* What was cancelled or left begins no further operation. *)
LEMMA SyncGoesOn == ASSUME SyncSound, Sync!Next PROVE Sync!GoesOnUncancelled
<1>1. CASE Sync!Open \/ Sync!Close \/ Sync!Retarget \/ Sync!ViewGoes
  BY <1>1 DEF Sync!Open, Sync!Close, Sync!Retarget, Sync!ViewGoes, Sync!Rescope, Sync!Loop, Sync!GoesOnUncancelled
<1>2. CASE Sync!Configure \/ Sync!Cancel \/ Sync!Check
  BY <1>2 DEF Sync!Configure, Sync!Cancel, Sync!Check, Sync!GoesOnUncancelled
<1>3. CASE Sync!Compare \/ Sync!Sync
  BY <1>3 DEF Sync!Compare, Sync!Sync, Sync!Loop, Sync!GoesOnUncancelled
<1>4. ASSUME NEW r \in v9, Sync!Answer(r) PROVE Sync!GoesOnUncancelled
  <2>1. r \in Loops
    BY SyncShape
  <2>2. ASSUME NEW todo, NEW bad, NEW c, Sync!Turn(r, todo, bad, c), v4' = v4 PROVE Sync!GoesOnUncancelled
    <3>1. [r EXCEPT !.todo = todo, !.bad = bad].scope = r.scope
      BY <2>1 DEF Loops
    <3> QED BY <2>2, <3>1 DEF Sync!Turn, Sync!Proceed, Sync!GoesOnUncancelled
  <2>3. CASE Sync!Compares(r) \/ Sync!ListingFails(r)
    BY <2>3 DEF Sync!Compares, Sync!ListingFails, Sync!GoesOnUncancelled
  <2>4. CASE Sync!Lists(r) \/ Sync!Lands(r) \/ Sync!Fails(r) \/ Sync!TransferCancelled(r)
    <3>1. PICK todo, bad, c : Sync!Turn(r, todo, bad, c) /\ v4' = v4
      BY <2>4 DEF Sync!Lists, Sync!Lands, Sync!Fails, Sync!TransferCancelled
    <3> QED BY <2>2, <3>1
  <2> QED BY <1>4, <2>3, <2>4 DEF Sync!Answer
<1> QED BY <1>1, <1>2, <1>3, <1>4 DEF Sync!Next

(***************************************************************************)
(* What a synchronization that says it is complete has done                *)
(***************************************************************************)
LEMMA Filed ==
  ASSUME NEW x, NEW y, Sync!IsFile(x), Sync!IsFile(y), x \in Sync!Contents, y \in Sync!Contents,
         NEW c \in Configs, c.criteria # "modified", ~Sync!Differ(c, x, y)
  PROVE  x.size = y.size
BY PanelsConstants DEF Sync!Differ

LEMMA CompleteMatches == ASSUME SyncSound PROVE Sync!SyncedMatches
<1> SUFFICES ASSUME v1 = "sync", Sync!Complete, v12.all, v12.config.criteria # "modified",
                    NEW i \in Sync!Listed(v12.config)
             PROVE  LET l == v2["local"][i]
                        r == v2["remote"][i]
                    IN  /\ Sync!IsFile(l) /\ Sync!IsFile(r) => Sync!SameSize(i)
                        /\ v12.config.dir = "up" => /\ Sync!IsFile(l) => Sync!SameSize(i)
                                                    /\ l = Dir => r = Dir
                                                    /\ v12.config.orphans /\ l = None => r = None
  BY DEF Sync!SyncedMatches
<1>1. PICK l : l = v2["local"][i]
  OBVIOUS
<1>2. PICK r : r = v2["remote"][i]
  OBVIOUS
<1>3. v11 = "clean" /\ v12 # None /\ v12.alone
  BY DEF Sync!Complete
<1>4. PICK c \in Configs : c = v12.config
  BY <1>3 DEF SyncSound, SyncBasis
<1>5. SyncLeft(<<>>, FALSE)
  BY <1>3 DEF SyncSound, SyncWork, Left
<1>6. v7 # None /\ \A j \in DOMAIN v7 : v7[j].action # "conflict" /\ (v7[j].action = "skip" \/ Achieved(j, v7[j].action))
  <2>1. \A j : ~Outstanding(j, <<>>)
    BY DEF Outstanding
  <2> QED BY <1>3, <1>5, <2>1 DEF SyncLeft
<1>7. i \in Sync!Items /\ l \in Sync!Contents /\ r \in Sync!Contents
  BY <1>1, <1>2, SyncShape DEF Sync!Listed, Sides
<1>8. IF i \notin DOMAIN v7 THEN Sync!Action(c, l, r) = None
      ELSE Sync!Action(c, l, r) = v7[i].action \/ Achieved(i, v7[i].action)
  BY <1>1, <1>2, <1>3, <1>4, <1>6 DEF SyncSound, SyncEntries
<1>9. Sync!SameSize(i) = (Sync!IsFile(l) /\ Sync!IsFile(r) /\ l.size = r.size)
  BY <1>1, <1>2 DEF Sync!SameSize
<1>10. c.dir \in {"up", "down"} /\ c.orphans \in BOOLEAN /\ c.criteria # "modified" /\ None # Dir
       /\ None \notin {"upload", "download", "skip", "conflict", "create-dir", "delete-remote"}
  BY <1>4, PanelsConstants
<1> DEFINE Goal == /\ Sync!IsFile(l) /\ Sync!IsFile(r) => Sync!SameSize(i)
                   /\ c.dir = "up" => /\ Sync!IsFile(l) => Sync!SameSize(i)
                                      /\ l = Dir => r = Dir
                                      /\ c.orphans /\ l = None => r = None
<1>11. ASSUME Sync!Action(c, l, r) = None PROVE Goal
  BY <1>9, <1>10, <1>11 DEF Sync!Action, Sync!Copy, Sync!IsFile
<1>12. ASSUME Sync!Action(c, l, r) = "skip" PROVE Goal
  <2>1. Sync!IsFile(l) /\ Sync!IsFile(r) /\ ~Sync!Differ(c, l, r)
    BY <1>10, <1>12 DEF Sync!Action, Sync!Copy
  <2>2. l.size = r.size
    BY <1>7, <1>10, <2>1, Filed
  <2> QED BY <1>9, <2>1, <2>2 DEF Sync!IsFile
<1>13. ASSUME i \in DOMAIN v7, Achieved(i, v7[i].action) PROVE Goal
  BY <1>1, <1>2, <1>9, <1>10, <1>13 DEF Achieved, Sync!IsFile
<1>14. Sync!Action(c, l, r) = None \/ Sync!Action(c, l, r) = "skip" \/ (i \in DOMAIN v7 /\ Achieved(i, v7[i].action))
  BY <1>6, <1>8
<1>15. Goal
  <2> HIDE DEF Goal
  <2> QED BY <1>11, <1>12, <1>13, <1>14
<1> QED BY <1>1, <1>2, <1>4, <1>15

LEMMA CompleteArrives == ASSUME SyncSound PROVE Sync!FilesArrive
<1> SUFFICES ASSUME v1 = "directory", Sync!Complete, NEW i \in Sync!Items,
                    Sync!IsFile(v2[Sync!From(v12.config)][i])
             PROVE  Sync!SameSize(i)
  BY DEF Sync!FilesArrive
<1>1. v11 = "clean" /\ v12.alone
  BY DEF Sync!Complete
<1>2. WalkLeft(<<>>, FALSE)
  BY <1>1 DEF SyncSound, SyncWork, Left
<1> QED BY <1>1, <1>2 DEF WalkLeft

LEMMA SyncHolds == ASSUME SyncSound PROVE Sync!Inv
BY CompleteMatches, CompleteArrives DEF Sync!Inv, SyncSound

(***************************************************************************)
(* The parts together                                                      *)
(***************************************************************************)
(* A download that its view left does not come to open its file. *)
LEMMA EditorLeaves == ASSUME Editor!Next PROVE Editor!LeftIsNotOpened
<1>1. CASE \E ok \in BOOLEAN : Editor!Downloads(ok)
  BY <1>1 DEF Editor!Downloads, Editor!LeftIsNotOpened
<1>2. CASE Editor!handleDownloadAndOpen
  BY <1>2 DEF Editor!handleDownloadAndOpen, Editor!LeftIsNotOpened
<1>3. CASE v11' = v11
  BY <1>3 DEF Editor!LeftIsNotOpened
<1>4. \/ \E ok \in BOOLEAN : Editor!Downloads(ok)
      \/ Editor!handleDownloadAndOpen
      \/ v11' = v11
  BY DEF Editor!Next, Editor!Reload, Editor!Disconnect, Editor!Reconnect, Editor!loadFile, Editor!Type, Editor!Leave,
         Editor!handleSave, Editor!Reads, Editor!Loaded, Editor!Stores, Editor!Saved, Editor!opener
<1> QED BY <1>1, <1>2, <1>3, <1>4

LEMMA SyncStutters == SyncSound /\ [Sync!Next]_(Sync!vars) => SyncSound'
<1> SUFFICES ASSUME SyncSound, [Sync!Next]_(Sync!vars) PROVE SyncSound'
  OBVIOUS
<1>1. CASE Sync!Next
  BY <1>1, SyncStep
<1>2. CASE UNCHANGED Sync!vars
  <2>1. UNCHANGED <<v1, v2, v3, v4, v5, v6, v7, v8, v9, v10, v11, v12>>
    BY <1>2 DEF Sync!vars
  <2>2. Sync!TypeOK' /\ SyncLoops' /\ SyncBasis' /\ Sync!BusyIsOneLoop'
    BY <2>1 DEF SyncSound, Sync!TypeOK, Sync!Contents, Sync!Ops, SyncLoops, SyncBasis, Sync!Compare0, Sync!List0,
                Sync!BusyIsOneLoop, Sync!Busy
  <2>3. SyncEntries'
    BY <2>1 DEF SyncSound, SyncEntries, Achieved, Sync!SameSize
  <2>4. \A t, b : Left(t, b) => Left(t, b)'
    BY <2>1, LeftSame
  <2>5. SyncWork'
    BY <2>1, <2>4 DEF SyncSound, SyncWork, Sync!Busy, Sync!Compare0, Sync!List0
  <2> QED BY <2>2, <2>3, <2>5 DEF SyncSound
<1> QED BY <1>1, <1>2

LEMMA PartsStep ==
  [Next]_vars => /\ part' = part
                 /\ part = "monitor" => [Monitor!Next]_(Monitor!vars)
                 /\ part = "log" => [Log!Next]_(Log!vars)
                 /\ part = "forwards" => [Forwards!Next]_(Forwards!vars)
                 /\ part = "editor" => [Editor!Next]_(Editor!vars)
                 /\ part = "sync" => [Sync!Next]_(Sync!vars)
<1> SUFFICES ASSUME [Next]_vars
             PROVE  /\ part' = part
                    /\ part = "monitor" => [Monitor!Next]_(Monitor!vars)
                    /\ part = "log" => [Log!Next]_(Log!vars)
                    /\ part = "forwards" => [Forwards!Next]_(Forwards!vars)
                    /\ part = "editor" => [Editor!Next]_(Editor!vars)
                    /\ part = "sync" => [Sync!Next]_(Sync!vars)
  OBVIOUS
<1>1. part' = part
  BY DEF Next, vars
<1>2. ASSUME part = "monitor" PROVE [Monitor!Next]_(Monitor!vars)
  BY <1>2 DEF Next, vars, Monitor!vars
<1>3. ASSUME part = "log" PROVE [Log!Next]_(Log!vars)
  BY <1>3 DEF Next, vars, Log!vars
<1>4. ASSUME part = "forwards" PROVE [Forwards!Next]_(Forwards!vars)
  BY <1>4 DEF Next, vars, Forwards!vars
<1>5. ASSUME part = "editor" PROVE [Editor!Next]_(Editor!vars)
  BY <1>5 DEF Next, vars, Editor!vars
<1>6. ASSUME part = "sync" PROVE [Sync!Next]_(Sync!vars)
  BY <1>6 DEF Next, vars, Sync!vars
<1> QED BY <1>1, <1>2, <1>3, <1>4, <1>5, <1>6

(* What holds of the part that runs. *)
Sound ==
  /\ part = "monitor" => MonitorSound
  /\ part = "log" => LogSound
  /\ part = "forwards" => ForwardsSound
  /\ part = "editor" => EditorSound
  /\ part = "sync" => SyncSound

LEMMA SoundInit == Init => Sound
<1> SUFFICES ASSUME Init PROVE Sound
  OBVIOUS
<1>1. /\ part = "monitor" => Monitor!Init
      /\ part = "log" => Log!Init
      /\ part = "forwards" => Forwards!Init
      /\ part = "editor" => Editor!Init
      /\ part = "sync" => Sync!Init
  BY DEF Init
<1> QED BY <1>1, MonitorInit, LogInit, ForwardsInit, EditorInit, SyncInit DEF Sound

LEMMA SoundStep == Sound /\ [Next]_vars => Sound'
<1> SUFFICES ASSUME Sound, [Next]_vars PROVE Sound'
  OBVIOUS
<1>1. part = "monitor" => MonitorSound'
  BY PartsStep, MonitorStep DEF Sound
<1>2. part = "log" => LogSound'
  BY PartsStep, LogStep DEF Sound
<1>3. part = "forwards" => ForwardsSound'
  BY PartsStep, ForwardsStep DEF Sound
<1>4. part = "editor" => EditorSound'
  BY PartsStep, EditorStep DEF Sound
<1>5. part = "sync" => SyncSound'
  BY PartsStep, SyncStutters DEF Sound
<1> QED BY <1>1, <1>2, <1>3, <1>4, <1>5, PartsStep DEF Sound

LEMMA PartsAreSound == Spec => []Sound
<1> QED BY SoundInit, SoundStep, PTL DEF Spec

(* A GPU panel shows the GPUs of the connection it is for, a log viewer that says it is   *)
(* loading has a read of its own log and connection under way, and an editor's text that  *)
(* no longer shows as modified is the text on the server, unless a typing, a second save  *)
(* or a load met a save under way: whatever connections, ticks, late answers and retries  *)
(* interleave.                                                                            *)
THEOREM PanelsShowTruth == Spec => []ShownIsTrue
<1>1. Sound => ShownIsTrue
  BY DEF Sound, MonitorSound, LogSound, ForwardsSound, EditorSound, ShownIsTrue
<1> QED BY <1>1, PartsAreSound, PTL

(* A dialog is busy exactly while one loop of its present scope is at work; and when no   *)
(* older loop was still at work, "complete" without an error means that every file that   *)
(* was to be moved is there in its size, every directory created, and every leftover      *)
(* gone: sync-dialog.tsx and directory-transfer-dialog.tsx, for any trees and             *)
(* configurations, whatever fails, is cancelled, closed or pointed elsewhere on the way.  *)
THEOREM SyncsKeepWord == Spec => []SyncKeepsItsWord
<1>1. Sound => SyncKeepsItsWord
  BY SyncHolds DEF Sound, SyncKeepsItsWord
<1> QED BY <1>1, PartsAreSound, PTL

(* After a cancel, or once its paths, connection or view are gone, a loop of the dialogs  *)
(* begins no further operation on either tree; and a file whose view was left while it    *)
(* was downloading is not opened.                                                         *)
THEOREM CancelledStops == Spec => CancelStops
<1>1. Sound /\ [Next]_vars => [/\ part = "sync" => Sync!GoesOnUncancelled
                               /\ part = "editor" => Editor!LeftIsNotOpened]_vars
  <2> SUFFICES ASSUME Sound, Next
               PROVE  /\ part = "sync" => Sync!GoesOnUncancelled
                      /\ part = "editor" => Editor!LeftIsNotOpened
    OBVIOUS
  <2>1. ASSUME part = "sync" PROVE Sync!GoesOnUncancelled
    <3>1. Sync!Next /\ SyncSound
      BY <2>1 DEF Next, Sound
    <3> QED BY <3>1, SyncGoesOn
  <2>2. ASSUME part = "editor" PROVE Editor!LeftIsNotOpened
    <3>1. Editor!Next
      BY <2>2 DEF Next
    <3> QED BY <3>1, EditorLeaves
  <2> QED BY <2>1, <2>2
<1> QED BY <1>1, PartsAreSound, PTL DEF Spec, CancelStops
=============================================================================
