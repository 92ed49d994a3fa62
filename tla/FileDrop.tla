------------------------------ MODULE FileDrop ------------------------------
(***************************************************************************)
(* Files dragged from the desktop onto the window (use-webview-file-drop). *)
(* The webview has one stream of drag events; the drop zones that are      *)
(* mounted share one handler of it, which gives each event to the zone     *)
(* under the pointer. The handler is installed with the first zone and     *)
(* removed with the last; both take a round trip, so a handler that is     *)
(* being removed may still run beside the one installed after it.          *)
(***************************************************************************)
EXTENDS Naturals, FiniteSets

CONSTANTS
  Zones,      \* the drop zones, numbered by rank: the higher wins where they overlap
  MaxHandlers, \* bound: handlers installed
  None

VARIABLES
  mounted,    \* the subscribers
  enabled,
  unlistenPromise, \* the current handler, or None
  handlers,   \* per handler: "none", "asked", "live", "failed" or "gone"
  closing,    \* handlers whose removal waits for their installation
  isDragOver, \* the zones that show their overlay
  received    \* the last drop: [zone, times]
vars == <<mounted, enabled, unlistenPromise, handlers, closing, isDragOver, received>>

Ids == 1 .. MaxHandlers
Live == {h \in Ids : handlers[h] = "live"}
Fresh == {h \in Ids : handlers[h] = "none"}
Init ==
  /\ mounted = {} /\ enabled = Zones /\ unlistenPromise = None
  /\ handlers = [h \in Ids |-> "none"] /\ closing = {} /\ isDragOver = {}
  /\ received = [zone |-> None, times |-> 0]

(***************************************************************************)
(* The shared handler                                                      *)
(***************************************************************************)
ensureSubscribed(promise, h) ==
  IF promise # None THEN unlistenPromise' = promise /\ UNCHANGED handlers
  ELSE unlistenPromise' = h /\ handlers' = [handlers EXCEPT ![h] = "asked"]
(* The promise is forgotten at once, so that a zone mounted now installs its own. *)
ensureUnsubscribed_Late ==
  closing' = closing \cup ({unlistenPromise} \ {None}) /\ UNCHANGED <<unlistenPromise, handlers>>
ensureUnsubscribed ==
  closing' = closing \cup ({unlistenPromise} \ {None}) /\ unlistenPromise' = None /\ UNCHANGED handlers
Installed(h) ==
  /\ handlers[h] = "asked" /\ \E r \in {"live", "failed"} : handlers' = [handlers EXCEPT ![h] = r]
  /\ UNCHANGED <<mounted, enabled, unlistenPromise, closing, isDragOver, received>>
Removed(h) ==
  /\ h \in closing /\ handlers[h] # "asked" /\ closing' = closing \ {h}
  /\ handlers' = [handlers EXCEPT ![h] = "gone"]
  /\ UNCHANGED <<mounted, enabled, unlistenPromise, isDragOver, received>>

(***************************************************************************)
(* Zones come, go, and are switched on and off, which subscribes them anew *)
(***************************************************************************)
Mount(z, h) ==
  /\ z \notin mounted /\ mounted' = mounted \cup {z}
  /\ ensureSubscribed(unlistenPromise, h)
  /\ UNCHANGED <<enabled, closing, isDragOver, received>>
Unmount(z) ==
  /\ z \in mounted /\ mounted' = mounted \ {z} /\ isDragOver' = isDragOver \ {z}
  /\ IF mounted' = {} THEN ensureUnsubscribed ELSE UNCHANGED <<unlistenPromise, handlers, closing>>
  /\ UNCHANGED <<enabled, received>>
Enable(z, h) ==
  /\ z \in mounted
  /\ enabled' = IF z \in enabled THEN enabled \ {z} ELSE enabled \cup {z}
  /\ isDragOver' = isDragOver \ {z}
  /\ IF mounted = {z}
     THEN closing' = closing \cup {unlistenPromise} /\ ensureSubscribed(None, h)
     ELSE UNCHANGED <<unlistenPromise, handlers, closing>>
  /\ UNCHANGED <<mounted, received>>

(***************************************************************************)
(* Events                                                                  *)
(***************************************************************************)
hitTest(under) ==
  LET hit == under \cap mounted \cap enabled IN
  IF hit = {} THEN {} ELSE {CHOOSE z \in hit : \A y \in hit : z >= y}
DragOver(under) ==
  /\ Live # {} /\ isDragOver' = hitTest(under)
  /\ UNCHANGED <<mounted, enabled, unlistenPromise, handlers, closing, received>>
(* leave, the ten seconds after which an overlay goes by itself, and clearDragOver. *)
DragLeave ==
  /\ isDragOver # {} /\ isDragOver' = {}
  /\ UNCHANGED <<mounted, enabled, unlistenPromise, handlers, closing, received>>
(* Every live handler passes the drop on. *)
Drop(under) ==
  /\ Live # {} /\ isDragOver' = {}
  /\ received' = IF hitTest(under) = {} THEN received
                 ELSE [zone |-> CHOOSE z \in hitTest(under) : TRUE, times |-> Cardinality(Live)]
  /\ UNCHANGED <<mounted, enabled, unlistenPromise, handlers, closing>>

Next ==
  \/ \E h \in Ids : Installed(h) \/ Removed(h)
  \/ \E z \in Zones : Unmount(z) \/ \E h \in Fresh : Mount(z, h) \/ Enable(z, h)
  \/ \E under \in SUBSET Zones : DragOver(under) \/ Drop(under)
  \/ DragLeave
Spec == Init /\ [][Next]_vars

TypeOK ==
  /\ mounted \subseteq Zones /\ enabled \subseteq Zones /\ isDragOver \subseteq Zones
  /\ unlistenPromise \in Ids \cup {None} /\ closing \subseteq Ids
  /\ handlers \in [Ids -> {"none", "asked", "live", "failed", "gone"}]
  /\ received \in [zone : Zones \cup {None}, times : 0 .. MaxHandlers]
(* There is a current handler exactly while a zone is mounted, it is not being removed, *)
(* and every other handler that may run is: no drop falls on deaf ears or is passed on  *)
(* for ever by a handler nobody owns.                                                   *)
HandlersAccounted ==
  /\ mounted # {} <=> unlistenPromise # None
  /\ unlistenPromise \notin closing
  /\ \A h \in Ids : handlers[h] \in {"asked", "live"} => h \in closing \cup {unlistenPromise}

(* Types and invariants together. *)
Inv == TypeOK /\ HandlersAccounted
=============================================================================
