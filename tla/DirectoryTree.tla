--------------------------- MODULE DirectoryTree ---------------------------
(***************************************************************************)
(* The directory tree beside the file list (directory-tree.tsx): the       *)
(* subdirectories of a path are listed once and kept, listings under way   *)
(* are not repeated, and the tree of each connection is saved while        *)
(* another is shown. Listings are not cancelled when the connection        *)
(* changes, so the guards that keep a path from being listed twice must    *)
(* not keep the new connection's paths from being listed at all.           *)
(* Only one line of descent matters to the properties: a path is its depth *)
(* below "/", its listing is the connection it was asked of, and which of  *)
(* the listed rows are expanded is left out.                               *)
(***************************************************************************)
EXTENDS Naturals

CONSTANTS
  Conns,        \* the connections whose files are browsed
  Depth,        \* the paths are 0 .. Depth, 0 is "/"
  MaxMoves,     \* bound: changes of the connection, of its availability and of files
  MaxFailures,  \* bound: listings that fail
  None
Paths == 0 .. Depth
NoNodes == [p \in Paths |-> None]
ancestorPaths(p) == IF p = 0 THEN {0} ELSE 0 .. p - 1

VARIABLES
  conn, currentPath, disabled,
  nodes,        \* per path, None or the connection that listed it
  loading,
  requests,     \* listings under way: [path, of]
  initial,      \* the tree this connection was opened with
  cache,        \* the saved trees, per connection
  failed,       \* the paths whose listing failed since the tree was set up
  moves, failures
vars == <<conn, currentPath, disabled, nodes, loading, requests, initial, cache, failed, moves, failures>>

(***************************************************************************)
(* loadChildren for the paths ps, from nodes n and with the paths busy     *)
(* loading                                                                 *)
(***************************************************************************)
Missing(ps, n, busy) == {p \in ps : n[p] = None /\ p \notin busy}
Load(ps, n, busy) ==
  IF disabled' THEN loading' = busy /\ UNCHANGED requests
  ELSE /\ loading' = busy \cup Missing(ps, n, busy)
       /\ requests' = requests \cup [path : Missing(ps, n, busy), of : {conn'}]
Moves == moves < MaxMoves /\ moves' = moves + 1 /\ UNCHANGED failures
Browses == UNCHANGED <<conn, disabled, initial, cache, failed>>

Init ==
  /\ conn = CHOOSE c \in Conns : TRUE
  /\ currentPath = 0 /\ disabled = FALSE
  /\ nodes = NoNodes /\ loading = {0} /\ requests = {[path |-> 0, of |-> conn]}
  /\ initial = NoNodes /\ cache = [c \in Conns |-> NoNodes]
  /\ failed = {} /\ moves = 0 /\ failures = 0

(* The data source changed: the tree becomes the initial one, and the effects load what *)
(* the current path needs, guarded by the tree just set up and not by the one shown.    *)
SetUp_StaleGuard ==
  /\ nodes' = initial' /\ failed' = {}
  /\ Load(ancestorPaths(currentPath') \cup {0}, nodes, {})
SetUp ==
  /\ nodes' = initial' /\ failed' = {}
  /\ Load(ancestorPaths(currentPath') \cup {0}, nodes', {})
(* The tree left was saved, unless its last changes are younger than the 300 ms. *)
Switch(c, p) ==
  /\ Moves /\ c # conn /\ conn' = c /\ currentPath' = p /\ disabled' \in BOOLEAN
  /\ cache' \in {cache, [cache EXCEPT ![conn] = nodes]}
  /\ initial' = cache'[c] /\ SetUp
(* The connection drops or is back: the loader is another one, and the tree starts over. *)
Available ==
  /\ Moves /\ disabled' = ~disabled /\ UNCHANGED <<conn, currentPath, initial, cache>>
  /\ SetUp

Navigate(p) ==
  /\ p # currentPath /\ currentPath' = p /\ Browses
  /\ Load(ancestorPaths(p), nodes, loading) /\ UNCHANGED <<nodes, moves, failures>>
(* A click, an arrow key, or a drag that rests on a row. *)
Expand(p) ==
  /\ \A q \in 0 .. p - 1 : nodes[q] # None
  /\ Browses /\ Load({p}, nodes, loading) /\ UNCHANGED <<currentPath, nodes, moves, failures>>
(* Files of the path were moved; a listing already under way is not asked again. *)
Invalidate(p) ==
  /\ Moves /\ ~disabled /\ Browses /\ nodes' = [nodes EXCEPT ![p] = None]
  /\ Load({p}, nodes', loading) /\ UNCHANGED currentPath

Answer(q, ok) ==
  /\ requests' = requests \ {q} /\ loading' = loading \ {q.path}
  /\ failures' = failures + (IF ok THEN 0 ELSE 1) /\ failures' <= MaxFailures
  /\ nodes' = IF ok THEN [nodes EXCEPT ![q.path] = q.of] ELSE nodes
  /\ failed' = IF ok \/ q.of # conn THEN failed ELSE failed \cup {q.path}
  /\ UNCHANGED <<conn, currentPath, disabled, initial, cache, moves>>

Next ==
  \/ Available
  \/ \E p \in Paths : Navigate(p) \/ Expand(p) \/ Invalidate(p) \/ \E c \in Conns : Switch(c, p)
  \/ \E q \in requests, ok \in BOOLEAN : Answer(q, ok)
Spec == Init /\ [][Next]_vars

Trees == [Paths -> Conns \cup {None}]
TypeOK ==
  /\ conn \in Conns /\ currentPath \in Paths /\ disabled \in BOOLEAN
  /\ nodes \in Trees /\ initial \in Trees /\ cache \in [Conns -> Trees]
  /\ loading \subseteq Paths /\ failed \subseteq Paths
  /\ requests \subseteq [path : Paths, of : Conns]
(* Whatever was asked of other connections before, a usable tree has the listing of   *)
(* every ancestor of the current path, or it is being asked of this connection, or it *)
(* failed: the guards against listing twice leave no row empty for good.              *)
AncestorsCome ==
  ~disabled => \A p \in ancestorPaths(currentPath) :
                 nodes[p] # None \/ p \in failed \/ [path |-> p, of |-> conn] \in requests
(* Why it holds: a path that counts as being listed is asked of this connection. *)
LoadingIsAsked == \A p \in loading : [path |-> p, of |-> conn] \in requests

(* Types and invariants together. *)
Inv == TypeOK /\ AncestorsCome /\ LoadingIsAsked
=============================================================================
