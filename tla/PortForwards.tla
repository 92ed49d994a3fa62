---------------------------- MODULE PortForwards ----------------------------
(***************************************************************************)
(* Local port forwards: the manager of port_forward.rs, the forwards an    *)
(* SSH connection starts by itself when it is up (App.tsx), and the dialog *)
(* of port-forward-dialog.tsx with its bookmarks.                          *)
(* A forward belongs to the SSH session it was started on, and closing the *)
(* connection ends its forwards. Starting one takes the session and checks *)
(* the bookmark first, then binds the port and enters the forward into the *)
(* map; a close may fall between. The dialog reads the list of the active  *)
(* connection every two seconds and after each of its commands.            *)
(* A forward is known by its connection, its bookmark and its session.     *)
(***************************************************************************)
EXTENDS Naturals

CONSTANTS
  Conns,        \* SSH connections, primary tabs: also the profiles of bookmarks
  Marks,        \* ids a bookmark may get
  MaxSessions,  \* bound: sessions opened
  MaxMoves,     \* bound: commands and changes of the active connection
  MaxFailures,  \* bound: lists that cannot be read, ports that cannot be bound
  None

VARIABLES
  live,         \* the session of each connection, 0 without one
  sessions,     \* sessions opened
  forwards,     \* the manager's map: [of, mark, session]
  starts,       \* starts between the check and the map: [of, mark, session, shows]
  auto,         \* autoStartedForwardConnectionsRef
  marks,        \* the stored bookmarks: [id, of, auto]
  conn, open,   \* the active connection, and the dialog
  shown,        \* the forwards listed in the dialog
  editing,      \* editingId
  listings,     \* lists being read: [of, found], found None before the manager is read
  moves, failures
vars == <<live, sessions, forwards, starts, auto, marks, conn, open, shown, editing, listings, moves, failures>>
backend == <<live, sessions, forwards, starts>>
dialog == <<conn, open, shown, editing, listings>>

Of(c) == {f \in forwards : f.of = c}
Active(c, m) == m # None /\ \E f \in Of(c) : f.mark = m
canManage == live[conn] # 0
Ask(c) == listings' = listings \cup {[of |-> c, found |-> {None}]}
Moves == moves < MaxMoves /\ moves' = moves + 1
Fails(ok) == failures' = failures + (IF ok THEN 0 ELSE 1) /\ failures' <= MaxFailures

Init ==
  /\ live = [c \in Conns |-> 0] /\ sessions = 0 /\ forwards = {} /\ starts = {} /\ auto = {}
  /\ marks = {} /\ conn = (CHOOSE c \in Conns : TRUE) /\ open = FALSE /\ shown = {} /\ editing = None
  /\ listings = {} /\ moves = 0 /\ failures = 0

(***************************************************************************)
(* Connections                                                             *)
(***************************************************************************)
(* connections.insert: the forwards of a session it displaces stay. *)
Connects(c) ==
  /\ sessions < MaxSessions /\ sessions' = sessions + 1
  /\ live' = [live EXCEPT ![c] = sessions']
  /\ UNCHANGED <<forwards, starts, auto, marks, dialog, moves, failures>>
close_connection(c) ==
  /\ live[c] # 0 /\ live' = [live EXCEPT ![c] = 0] /\ forwards' = forwards \ Of(c)
  /\ UNCHANGED <<sessions, starts, auto, marks, dialog, moves, failures>>

(***************************************************************************)
(* The manager                                                             *)
(***************************************************************************)
Begin(c, ms, shows) ==
  starts' = starts \cup {[of |-> c, mark |-> m, session |-> live[c], shows |-> shows] : m \in {n \in ms : ~Active(c, n)}}
(* The port may be taken. The dialog's own starts read the list of their connection. *)
start_local(s, ok) ==
  /\ starts' = starts \ {s} /\ Fails(ok)
  /\ forwards' = IF ok THEN forwards \cup {[of |-> s.of, mark |-> s.mark, session |-> s.session]} ELSE forwards
  /\ IF ok /\ s.shows THEN Ask(s.of) ELSE UNCHANGED listings
  /\ UNCHANGED <<live, sessions, auto, marks, conn, open, shown, editing, moves>>

(* A connection that came up starts its bookmarks once; one that went is forgotten. *)
AutoStart(c) ==
  /\ live[c] # 0 /\ c \notin auto /\ auto' = auto \cup {c}
  /\ Begin(c, {b.id : b \in {x \in marks : x.of = c /\ x.auto}}, FALSE)
  /\ UNCHANGED <<live, sessions, forwards, marks, dialog, moves, failures>>
AutoForget(c) ==
  /\ live[c] = 0 /\ c \in auto /\ auto' = auto \ {c}
  /\ UNCHANGED <<backend, marks, dialog, moves, failures>>

(***************************************************************************)
(* The dialog's commands                                                   *)
(***************************************************************************)
Starts(m) ==
  /\ open /\ canManage /\ Moves
  /\ m # None => \E b \in marks : b.id = m /\ b.of = conn
  /\ \A f \in shown : f.mark # m \/ m = None
  /\ Begin(conn, {m}, TRUE)
  /\ UNCHANGED <<live, sessions, forwards, auto, marks, dialog, failures>>
(* A forward that has gone is an error, which reads no list. *)
Stops(f) ==
  /\ open /\ canManage /\ Moves /\ f \in shown
  /\ IF f \in Of(conn) THEN forwards' = forwards \ {f} /\ Ask(conn) ELSE UNCHANGED <<forwards, listings>>
  /\ UNCHANGED <<live, sessions, starts, auto, marks, conn, open, shown, editing, failures>>

(***************************************************************************)
(* The list                                                                *)
(***************************************************************************)
Refresh_WhenEmpty ==
  /\ open /\ IF canManage THEN shown = {} /\ Ask(conn) /\ UNCHANGED shown ELSE shown' = {} /\ UNCHANGED listings
  /\ UNCHANGED <<backend, auto, marks, conn, open, editing, moves, failures>>
Refresh ==
  /\ open /\ IF canManage THEN Ask(conn) /\ UNCHANGED shown ELSE shown' = {} /\ UNCHANGED listings
  /\ UNCHANGED <<backend, auto, marks, conn, open, editing, moves, failures>>
list(q) ==
  /\ q.found = {None} /\ listings' = (listings \ {q}) \cup {[q EXCEPT !.found = Of(q.of)]}
  /\ UNCHANGED <<backend, auto, marks, conn, open, shown, editing, moves, failures>>
(* Whichever connection it was asked for. *)
Listed(q, ok) ==
  /\ q.found # {None} /\ Fails(ok) /\ listings' = listings \ {q}
  /\ shown' = IF ok THEN q.found ELSE shown
  /\ UNCHANGED <<backend, auto, marks, conn, open, editing, moves>>

Switch == Moves /\ conn' \in Conns \ {conn} /\ UNCHANGED <<backend, auto, marks, open, shown, editing, listings, failures>>
Toggle == Moves /\ open' = ~open /\ UNCHANGED <<backend, auto, marks, conn, shown, editing, listings, failures>>

(***************************************************************************)
(* Bookmarks                                                               *)
(***************************************************************************)
Keeps == UNCHANGED <<backend, auto, conn, open, shown, listings, failures>>
(* An id that has gone is updated nowhere, and the form says it was. *)
Save(a) ==
  /\ open /\ canManage /\ Moves /\ editing' = None /\ Keeps
  /\ marks' \in IF editing # None
                THEN {{IF b.id = editing THEN [b EXCEPT !.auto = a] ELSE b : b \in marks}}
                ELSE {marks \cup {[id |-> m, of |-> conn, auto |-> a]} : m \in Marks \ {b.id : b \in marks}}
Edit(b) == open /\ canManage /\ Moves /\ b.of = conn /\ editing' = b.id /\ Keeps /\ UNCHANGED marks
Delete(b) ==
  /\ open /\ canManage /\ Moves /\ b.of = conn /\ marks' = marks \ {b}
  /\ editing' = (IF editing = b.id THEN None ELSE editing) /\ Keeps
(* The connection was deleted from the saved ones. *)
DropProfile(c) == Moves /\ marks' = {b \in marks : b.of # c} /\ Keeps /\ UNCHANGED editing

Next ==
  \/ Refresh \/ Switch \/ Toggle
  \/ \E c \in Conns : Connects(c) \/ close_connection(c) \/ AutoStart(c) \/ AutoForget(c) \/ DropProfile(c)
  \/ \E s \in starts, ok \in BOOLEAN : start_local(s, ok)
  \/ \E m \in Marks \cup {None} : Starts(m)
  \/ \E f \in shown : Stops(f)
  \/ \E a \in BOOLEAN : Save(a)
  \/ \E b \in marks : Edit(b) \/ Delete(b)
  \/ \E q \in listings : list(q) \/ \E ok \in BOOLEAN : Listed(q, ok)
Spec == Init /\ [][Next]_vars
Lists == \E q \in listings : list(q)
Answers == \E q \in listings, ok \in BOOLEAN : Listed(q, ok)
Binds == \E s \in starts, ok \in BOOLEAN : start_local(s, ok)
(* The timer of an open dialog fires, and the manager answers. *)
Fairness ==
  /\ WF_vars(Refresh) /\ WF_vars(Lists) /\ WF_vars(Answers) /\ WF_vars(Binds)
FairSpec == Spec /\ Fairness

Forwards == [of : Conns, mark : Marks \cup {None}, session : 1 .. MaxSessions]
TypeOK ==
  /\ live \in [Conns -> 0 .. MaxSessions] /\ forwards \subseteq Forwards /\ shown \subseteq Forwards
  /\ starts \subseteq [of : Conns, mark : Marks \cup {None}, session : 1 .. MaxSessions, shows : BOOLEAN]
  /\ auto \subseteq Conns /\ marks \subseteq [id : Marks, of : Conns, auto : BOOLEAN]
  /\ conn \in Conns /\ open \in BOOLEAN /\ editing \in Marks \cup {None}
(* A dialog that stays open on a connection ends up listing exactly the forwards that *)
(* connection has, whatever lists of others or of earlier states are still answered.  *)
CaughtUp == open /\ canManage => shown = Of(conn)
=============================================================================
