---------------------------- MODULE ComposePane ----------------------------
(***************************************************************************)
(* The compose pane below the terminals: compose-pane.tsx with the drafts  *)
(* of compose-draft-storage.ts and the senders of terminal-input-context.  *)
(* One editor is mounted at a time, for the focused terminal, and made     *)
(* anew for another (key={terminalTab.id}); a draft is saved 300 ms after  *)
(* it last changed and when its editor goes.                               *)
(*                                                                         *)
(* A text is a sequence of characters "x" and line breaks "cr", "lf".      *)
(* The reported status of a connection and its socket change apart.        *)
(***************************************************************************)
EXTENDS Naturals, SequencesExt

CONSTANTS
  Terminals,   \* connection ids of the open terminals
  NoTerminal,  \* no terminal focused, or the pane hidden
  MaxText,     \* bound: characters of a draft
  MaxEdits     \* bound: edits

VARIABLES
  shown,      \* the terminal whose editor is mounted
  draft,      \* its text
  timer,      \* the debounced save is pending
  clear,      \* clearAfterSend, the preference
  stored,     \* terminal -> text in sessionStorage, <<>> for none
  connected,  \* terminals reported as connected
  sender,     \* terminals with a registered sender
  open,       \* terminals whose socket is open
  typed,      \* terminal -> what was typed and neither delivered and cleared nor erased (ghost)
  delivered,  \* the last payload the bridge was sent, and its text (ghost)
  edits

vars == <<shown, draft, timer, clear, stored, connected, sender, open, typed, delivered, edits>>
link == <<connected, sender, open>>

Texts == BoundedSeq({"x", "cr", "lf"}, MaxText)
Blank(text) == ~Contains(text, "x")

Init ==
  /\ shown = NoTerminal /\ draft = <<>> /\ timer = FALSE /\ clear = FALSE
  /\ stored = [t \in Terminals |-> <<>>] /\ typed = [t \in Terminals |-> <<>>]
  /\ connected = {} /\ sender = {} /\ open = {}
  /\ delivered = [text |-> <<>>, payload |-> <<>>] /\ edits = 0

(***************************************************************************)
(* prepareTerminalPayload with COMPOSE_PANE_SEND_OPTIONS: CRLF, CR and LF  *)
(* become CR, and a last CR is added where the text ends without one.      *)
(***************************************************************************)
CrLfIsOne(text) ==
  LET kept == SelectSeq([i \in DOMAIN text |-> i],
                        LAMBDA i : ~(i > 1 /\ text[i] = "lf" /\ text[i - 1] = "cr"))
  IN [j \in DOMAIN kept |-> text[kept[j]]]
Normalized(text) ==
  LET one == CrLfIsOne(text)
  IN [i \in DOMAIN one |-> IF one[i] = "x" THEN "x" ELSE "cr"]
prepareTerminalPayload(text) ==
  LET lines == Normalized(text)
  IN IF lines # <<>> /\ Last(lines) # "cr" THEN Append(lines, "cr") ELSE lines

(* The editor of another terminal, or none: the old one saves its draft and goes. *)
Mounts(t) ==
  /\ shown' = t /\ timer' = (t # NoTerminal)
  /\ draft' = IF t = NoTerminal THEN <<>> ELSE stored'[t]
Show_Unsaved(t) ==
  /\ t # shown /\ UNCHANGED stored /\ Mounts(t)
  /\ UNCHANGED <<clear, link, typed, delivered, edits>>
Show(t) ==
  /\ t # shown
  /\ stored' = IF shown = NoTerminal THEN stored ELSE [stored EXCEPT ![shown] = draft]
  /\ Mounts(t)
  /\ UNCHANGED <<clear, link, typed, delivered, edits>>

Edits(text) == draft' = text /\ timer' = TRUE
Type(text) ==
  /\ shown \in connected /\ edits < MaxEdits /\ edits' = edits + 1
  /\ text # draft /\ Edits(text) /\ typed' = [typed EXCEPT ![shown] = text]
  /\ UNCHANGED <<shown, clear, stored, link, delivered>>
Debounced ==
  /\ timer /\ timer' = FALSE /\ stored' = [stored EXCEPT ![shown] = draft]
  /\ UNCHANGED <<shown, draft, clear, link, typed, delivered, edits>>

Clears == Edits(<<>>) /\ stored' = [stored EXCEPT ![shown] = <<>>]
handleClear ==
  /\ shown # NoTerminal /\ draft # <<>>
  /\ Clears /\ typed' = [typed EXCEPT ![shown] = <<>>]
  /\ UNCHANGED <<shown, clear, link, delivered, edits>>
(* sendToTerminal, and sendInputToPty behind it *)
Sent(t) == t \in sender /\ t \in open
Delivers ==
  /\ delivered' = IF Sent(shown) THEN [text |-> draft, payload |-> prepareTerminalPayload(draft)]
                  ELSE delivered
  /\ typed' = IF Sent(shown) /\ clear THEN [typed EXCEPT ![shown] = <<>>] ELSE typed
handleSend ==
  /\ shown \in connected /\ ~Blank(draft) /\ Delivers
  /\ IF Sent(shown) /\ clear THEN Clears ELSE UNCHANGED <<draft, timer, stored>>
  /\ UNCHANGED <<shown, clear, link, edits>>
ToggleClear ==
  /\ shown # NoTerminal /\ clear' = ~clear
  /\ UNCHANGED <<shown, draft, timer, stored, link, typed, delivered, edits>>

(* The terminal's side: its socket, its sender, its reported status *)
Opens(t) ==
  /\ t \notin open /\ open' = open \cup {t} /\ sender' = sender \cup {t}
  /\ UNCHANGED <<shown, draft, timer, clear, stored, connected, typed, delivered, edits>>
Closes(t) ==
  /\ t \in open /\ open' = open \ {t}
  /\ UNCHANGED <<shown, draft, timer, clear, stored, connected, sender, typed, delivered, edits>>
Unmounts(t) ==
  /\ t \in sender /\ sender' = sender \ {t} /\ open' = open \ {t}
  /\ UNCHANGED <<shown, draft, timer, clear, stored, connected, typed, delivered, edits>>
Reports(t) ==
  /\ connected' = IF t \in connected THEN connected \ {t} ELSE connected \cup {t}
  /\ UNCHANGED <<shown, draft, timer, clear, stored, sender, open, typed, delivered, edits>>

Next ==
  \/ \E t \in Terminals \cup {NoTerminal} : Show(t)
  \/ \E text \in Texts : Type(text)
  \/ Debounced \/ handleClear \/ handleSend \/ ToggleClear
  \/ \E t \in Terminals : Opens(t) \/ Closes(t) \/ Unmounts(t) \/ Reports(t)
Spec == Init /\ [][Next]_vars

TypeOK == shown \in Terminals \cup {NoTerminal} /\ draft \in Texts /\ open \subseteq sender
(* What was typed for a terminal is in its editor, or else saved under its own name,  *)
(* until it is erased or delivered: the text typed just before the focus moves is not *)
(* lost, a send that failed keeps it, and a cleared draft does not come back.         *)
DraftsKept ==
  \A t \in Terminals : typed[t] = IF t = shown THEN draft ELSE stored[t]
(* The shell gets the lines of the draft, each ended once, the last one too.          *)
LinesRunOnce ==
  LET breaks == SelectSeq(CrLfIsOne(delivered.text), LAMBDA c : c # "x")
      open_line == delivered.text # <<>> /\ Last(delivered.text) = "x"
      count(c) == Len(SelectSeq(delivered.payload, LAMBDA d : d = c))
  IN /\ count("lf") = 0 /\ count("cr") = Len(breaks) + (IF open_line THEN 1 ELSE 0)
     /\ delivered.text # <<>> => Last(delivered.payload) = "cr"

(* Types and invariants together. *)
Inv == TypeOK /\ DraftsKept /\ LinesRunOnce
=============================================================================
