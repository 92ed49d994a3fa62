---------------------------- MODULE PointerDrags ----------------------------
(***************************************************************************)
(* The two pointer drags of the window: a page of the titlebar             *)
(* (use-workspace-tab-drag.ts) and a row of the connection list            *)
(* (use-connection-row-drag.ts).  A press becomes a drag after five         *)
(* pixels; it ends by a release, by Escape, by a cancel or blur, or when    *)
(* its component goes.  They share the body's userSelect, which each saves  *)
(* and restores, and a drag of a page also tab-drag-state.ts.               *)
(*                                                                         *)
(* One pointer is modelled, the mouse.  The click that follows a release    *)
(* is an event of its own.                                                 *)
(***************************************************************************)
EXTENDS Naturals

CONSTANTS
  Pages,      \* pages of the titlebar
  Rows,       \* rows of the connection list
  None,
  MaxPresses  \* bound: presses

Bar == "bar"
List == "list"
Owner(i) == IF i \in Pages THEN Bar ELSE List
NoPress == [item |-> None, dragging |-> FALSE, saved |-> ""]

VARIABLES
  press,      \* the gesture: its item, whether it drags, the userSelect it found
  held,       \* the button is down
  over,       \* what the button went down on, while it exists
  dragged,    \* the press became a drag (ghost)
  select,     \* document.body.style.userSelect
  active,     \* activeDrag, draggingId: the item shown as dragged
  hover,      \* contentDropHover, insertionLeft or the row hint
  suppress,   \* suppressClickRef of each component
  due,        \* the component whose click event is due
  click,      \* the last click: did its press drag, did it act (ghost)
  drop,       \* what the last drop did: the item and where (ghost)
  presses

vars == <<press, held, over, dragged, select, active, hover, suppress, due, click, drop, presses>>
ghosts == <<dragged, click, drop, presses>>

Init ==
  /\ press = NoPress /\ held = FALSE /\ over = None /\ dragged = FALSE
  /\ select = "" /\ active = None /\ hover = None
  /\ suppress = [o \in {Bar, List} |-> FALSE] /\ due = None
  /\ click = [dragged |-> FALSE, acted |-> TRUE] /\ drop = None /\ presses = 0

(* getZoneFromPosition: a point in eighths of the pane's width and height *)
Zone(x, y) ==
  IF y < 2 THEN "up" ELSE IF y > 6 THEN "down"
  ELSE IF x < 2 THEN "left" ELSE IF x > 6 THEN "right" ELSE "center"
Splits == {"up", "down", "left", "right"}
(* Where the pointer can be.  In the bar a page finds its place; over a pane it finds  *)
(* a zone; a row finds a place beside or inside another, if connectionDropZone lets it.*)
Spots(i) ==
  IF i \in Pages THEN {"insertion", "elsewhere"} \cup {Zone(x, y) : x \in {1, 4, 7}, y \in {1, 4, 7}}
  ELSE {"before", "after", "inside", "elsewhere"}
Hint(spot) == IF spot = "elsewhere" THEN None ELSE spot
Drops(spot) == spot \in Splits \cup {"insertion", "before", "after", "inside"}

(* onPointerDownCapture, startRowDrag: a list that is filtered starts no drag. *)
Down_KeepsSuppression(i, disabled) ==
  /\ ~held /\ due = None /\ presses < MaxPresses /\ presses' = presses + 1
  /\ held' = TRUE /\ over' = Owner(i) /\ dragged' = FALSE
  /\ press' = IF disabled /\ i \in Rows THEN NoPress ELSE [item |-> i, dragging |-> FALSE, saved |-> select]
  /\ UNCHANGED <<select, active, hover, suppress, due, click, drop>>
Down(i, disabled) ==
  /\ ~held /\ due = None /\ presses < MaxPresses /\ presses' = presses + 1
  /\ held' = TRUE /\ over' = Owner(i) /\ dragged' = FALSE
  /\ suppress' = [suppress EXCEPT ![List] = FALSE, ![Owner(i)] = FALSE]
  /\ press' = IF disabled /\ i \in Rows THEN NoPress ELSE [item |-> i, dragging |-> FALSE, saved |-> select]
  /\ UNCHANGED <<select, active, hover, due, click, drop>>

(* setActiveDrag and clearTabDrag; draggingId and the hint of a row *)
setActiveDrag(i) == active' = i
clearTabDrag == active' = None /\ hover' = None
Begins ==
  /\ press' = [press EXCEPT !.dragging = TRUE] /\ dragged' = TRUE
  /\ select' = "none" /\ setActiveDrag(press.item)
  /\ suppress' = IF press.item \in Pages THEN [suppress EXCEPT ![Bar] = TRUE] ELSE suppress
(* The pointer moves, or the bar or the list scrolls under it. *)
Move ==
  /\ held /\ press # NoPress
  /\ IF press.dragging THEN UNCHANGED <<press, dragged, select, active, suppress>> ELSE Begins
  /\ \E spot \in Spots(press.item) : hover' = Hint(spot)
  /\ UNCHANGED <<held, over, due, click, drop, presses>>

(* cleanup of a page, stop of a row *)
Ends ==
  /\ press' = NoPress /\ clearTabDrag
  /\ select' = IF press.dragging THEN press.saved ELSE select
  /\ suppress' = IF press.dragging /\ press.item \in Rows THEN [suppress EXCEPT ![List] = TRUE] ELSE suppress

(* The release decides the drop, not the last preview.  A click is due where the      *)
(* button went down, if it comes up there too.                                         *)
Up ==
  /\ held /\ held' = FALSE /\ over' = None
  /\ due' \in {None, over}
  /\ Ends
  /\ drop' \in IF press.dragging THEN {<<press.item, s>> : s \in {t \in Spots(press.item) : Drops(t)}} \cup {drop}
               ELSE {drop}
  /\ UNCHANGED <<dragged, click, presses>>
Click ==
  /\ due # None /\ due' = None
  /\ click' = [dragged |-> dragged, acted |-> ~suppress[due]]
  /\ UNCHANGED <<press, held, over, dragged, select, active, hover, suppress, drop, presses>>

(* Escape and blur: the button is still down.  A cancelled pointer is up. *)
Escape ==
  /\ press # NoPress /\ Ends /\ UNCHANGED <<held, over, due, ghosts>>
PointerCancel ==
  /\ press # NoPress /\ Ends /\ held' = FALSE /\ over' = None /\ UNCHANGED <<due, ghosts>>

(* The focused pane changes and another view draws the titlebar, or the list is       *)
(* filtered, or closes: what the button went down on is gone with its component.       *)
Goes(o) == over' = (IF over = o THEN None ELSE over) /\ due' = (IF due = o THEN None ELSE due)
NewInstance(o) == suppress' = [suppress EXCEPT ![o] = FALSE]
Remount(o) ==
  /\ Goes(o) /\ NewInstance(o)
  /\ IF press # NoPress /\ Owner(press.item) = o
     THEN /\ press' = NoPress /\ clearTabDrag
          /\ select' = IF press.dragging THEN press.saved ELSE select
     ELSE UNCHANGED <<press, select, active, hover>>
  /\ UNCHANGED <<held, ghosts>>
Disable ==
  /\ press.item \in Rows /\ Ends /\ UNCHANGED <<held, over, due, ghosts>>

Next ==
  \/ \E i \in Pages \cup Rows, disabled \in BOOLEAN : Down(i, disabled)
  \/ Move \/ Up \/ Click \/ Escape \/ PointerCancel \/ Disable
  \/ \E o \in {Bar, List} : Remount(o)
Spec == Init /\ [][Next]_vars

TypeOK ==
  /\ press.item \in Pages \cup Rows \cup {None} /\ select \in {"", "none"}
  /\ active \in Pages \cup Rows \cup {None}
(* However a drag ends, text can be selected again and no item, drop zone or marker    *)
(* stays drawn; while one goes on, what is drawn is what it drags.                     *)
NothingLingers ==
  IF press.dragging THEN active = press.item /\ select = "none"
  ELSE active = None /\ hover = None /\ select = ""
(* The click that ends a drag opens, focuses or closes nothing, also when the drag was *)
(* given up before the release; and a plain click does, also the first after a drag.   *)
ClicksMatchPresses == click.acted = ~click.dragged

(* Types and invariants together. *)
Inv == TypeOK /\ NothingLingers /\ ClicksMatchPresses
=============================================================================
