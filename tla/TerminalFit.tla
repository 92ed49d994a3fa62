---------------------------- MODULE TerminalFit ----------------------------
(***************************************************************************)
(* How the size of a terminal's pane reaches its shell (pty-terminal.tsx):  *)
(* the container is observed, fitted at once or a little later, and every   *)
(* change of the terminal's size is sent to the bridge while the socket is  *)
(* open.  A large buffer takes new columns only after a delay.              *)
(*                                                                         *)
(* Sizes are in character cells, <<columns, rows>>.  TerminalLink has the   *)
(* steps of the connection that `sock` leaves out.                          *)
(***************************************************************************)
EXTENDS Integers

CONSTANTS
  Sizes,      \* sizes a container can have
  Tiny,       \* a container of 100 pixels or less, which the observer ignores
  Fresh,      \* the size of a terminal that was never fitted
  Enough,     \* the least size waitForProperSize takes: <<40, 10>>
  MaxChanges  \* bound: changes of the container, the font and the window

Hidden == <<0, 0>>       \* display: none
Nothing == <<0, 0>>      \* no size told to the bridge

VARIABLES
  box,        \* the cells that fit in the container
  term,       \* term.cols, term.rows
  lastSent,   \* lastSentCols, lastSentRows
  pty,        \* the size the bridge was last told on this socket
  sock,       \* the link: waiting for a size, dialing, open, or given up
  observed,   \* a change the ResizeObserver has yet to deliver
  frame,      \* fitFrame is pending
  settling,   \* settlingFitTimer is pending
  columns,    \* columnResizeTimer: the columns it will set, 0 for none
  focusing,   \* the frame requested when the terminal became active
  large,      \* the buffer has RESIZE_DEBOUNCE_BUFFER_LINES
  changes

vars == <<box, term, lastSent, pty, sock, observed, frame, settling, columns, focusing, large, changes>>
pending == <<observed, frame, settling, columns, focusing>>

Init ==
  /\ box \in Sizes \cup {Hidden} /\ pty = Nothing
  /\ term = (IF box = Hidden THEN Fresh ELSE box) /\ lastSent = term
  /\ sock = "sizing" /\ observed = TRUE /\ frame = FALSE /\ settling = FALSE
  /\ columns = 0 /\ focusing = FALSE /\ large \in BOOLEAN /\ changes = 0

(* term.resize, with the onResize handler *)
TermIs(size) ==
  /\ term' = size
  /\ lastSent' = IF size # term /\ size # lastSent THEN size ELSE lastSent
  /\ pty' = IF size # term /\ size # lastSent /\ sock = "open" THEN size ELSE pty
Unchanged == UNCHANGED <<term, lastSent, pty>>

(* fitTerminal.  The columns a pending timer would set are dropped first. *)
FitTerminal_KeepsTimer(immediate) ==
  IF box = Hidden THEN Unchanged /\ UNCHANGED columns
  ELSE IF immediate \/ ~large THEN TermIs(box) /\ UNCHANGED columns
  ELSE /\ TermIs(<<term[1], box[2]>>)
       /\ columns' = IF box[1] = term[1] THEN columns ELSE box[1]
FitTerminal(immediate) ==
  IF box = Hidden THEN Unchanged /\ columns' = 0
  ELSE IF immediate \/ ~large THEN TermIs(box) /\ columns' = 0
  ELSE /\ TermIs(<<term[1], box[2]>>)
       /\ columns' = IF box[1] = term[1] THEN 0 ELSE box[1]

Changes == changes < MaxChanges /\ changes' = changes + 1
(* A divider, the window or a panel moves, or the tab is shown or hidden. *)
Container(size) ==
  /\ Changes /\ size # box /\ box' = size /\ observed' = TRUE
  /\ Unchanged /\ UNCHANGED <<sock, frame, settling, columns, focusing, large>>
(* The theme effect: the cells change with the font, and the terminal with them. *)
Font(size) ==
  /\ Changes /\ Hidden \notin {box, size} /\ box' = size /\ TermIs(size)
  /\ columns' = 0 /\ UNCHANGED <<sock, observed, frame, settling, focusing, large>>
WindowResize ==
  /\ Changes /\ frame' = TRUE /\ settling' = TRUE
  /\ Unchanged /\ UNCHANGED <<box, sock, observed, columns, focusing, large>>

Observe ==
  /\ observed /\ observed' = FALSE
  /\ IF box \in {Hidden, Tiny} THEN Unchanged /\ UNCHANGED <<frame, settling, columns>>
     ELSE frame' = FALSE /\ settling' = TRUE /\ FitTerminal(FALSE)
  /\ UNCHANGED <<box, sock, focusing, large, changes>>
Settle ==
  /\ settling /\ settling' = FALSE /\ frame' = TRUE
  /\ Unchanged /\ UNCHANGED <<box, sock, observed, columns, focusing, large, changes>>
Frame ==
  /\ frame /\ frame' = FALSE /\ FitTerminal(FALSE)
  /\ UNCHANGED <<box, sock, observed, settling, focusing, large, changes>>
ColumnTimer ==
  /\ columns # 0 /\ columns' = 0
  /\ IF box = Hidden THEN Unchanged ELSE TermIs(<<columns, term[2]>>)
  /\ UNCHANGED <<box, sock, observed, frame, settling, focusing, large, changes>>

Activate ==
  /\ Changes /\ focusing' = ~focusing      \* or is left before its frame
  /\ Unchanged /\ UNCHANGED <<box, sock, observed, frame, settling, columns, large>>
Focus ==
  /\ focusing /\ focusing' = FALSE
  /\ IF box = Hidden THEN Unchanged /\ UNCHANGED columns ELSE FitTerminal(TRUE)
  /\ UNCHANGED <<box, sock, observed, frame, settling, large, changes>>
Scroll ==
  /\ large' = ~large
  /\ Unchanged /\ UNCHANGED <<box, sock, pending, changes>>

(* waitForProperSize fits by itself, and gives up after ten seconds. *)
Sized ==
  /\ sock = "sizing"
  /\ IF box = Hidden THEN Unchanged ELSE TermIs(box)
  /\ \/ term'[1] >= Enough[1] /\ term'[2] >= Enough[2] /\ sock' = "dialing"
     \/ sock' \in {"sizing", "dialing"} /\ ~(term'[1] >= Enough[1] /\ term'[2] >= Enough[2])
  /\ UNCHANGED <<box, pending, large, changes>>
(* onopen: StartPty has the terminal's size of that moment. *)
Opens ==
  /\ sock = "dialing" /\ sock' = "open" /\ pty' = term
  /\ UNCHANGED <<box, term, lastSent, pending, large, changes>>
Closes ==
  /\ sock = "open" /\ sock' \in {"sizing", "given up"} /\ pty' = Nothing
  /\ UNCHANGED <<box, term, lastSent, pending, large, changes>>

Next ==
  \/ \E size \in Sizes \cup {Hidden} : Container(size) \/ Font(size)
  \/ WindowResize \/ Observe \/ Settle \/ Frame \/ ColumnTimer
  \/ Activate \/ Focus \/ Scroll \/ Sized \/ Opens \/ Closes
Spec == Init /\ [][Next]_vars

TypeOK == box \in Sizes \cup {Hidden} /\ columns \in {0} \cup {s[1] : s \in Sizes}
(* Once a change of a container that is shown has been observed, the terminal has its *)
(* rows, and its columns or the timer that will set just those; and a shell that runs *)
(* was told the size its terminal has, whether it changed before, while or after the  *)
(* socket opened.                                                                     *)
SizeReachesShell ==
  /\ ~observed /\ box \notin {Hidden, Tiny} =>
       term[2] = box[2] /\ IF term[1] = box[1] THEN columns \in {0, box[1]} ELSE columns = box[1]
  /\ sock = "open" => pty = term

(* Types and invariants together. *)
Inv == TypeOK /\ SizeReachesShell
=============================================================================
