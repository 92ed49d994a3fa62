----------------------------- MODULE MCWorkspace -----------------------------
(***************************************************************************)
(* The window around the sessions, on small instances: pages and panes,    *)
(* the split tree that is drawn, dragging tabs and rows, files dropped     *)
(* from the desktop, the preferences, and the saved connections. The       *)
(* models share no state, so they are checked one beside the other: every  *)
(* behaviour is one of a single part, whose variables are v1, v2, ...      *)
(***************************************************************************)
EXTENDS Naturals, Sequences, FiniteSets, TLC

CONSTANTS
  None,
  Tabs, MaxGroup, MaxPage,                        \* pages and panes, and their bounds
  MaxPane, Shares,                                \* the split tree
  Pages, ListRows, MaxPresses,                    \* dragging tabs and rows
  Zones, MaxHandlers,                             \* files dropped from the desktop
  Themes, Palettes, DefaultTheme, DefaultPalette, \* the preferences
  MaxOpens,
  StoredIds, NewIds, Old, Names,                  \* the saved connections
  MaxDepth, MaxFolders, MaxEdits

ASSUME WorkspaceConstants ==
  /\ None \notin Tabs /\ None \notin Pages \cup ListRows \cup {"bar", "list"}
  /\ None \notin Zones \cup 1 .. MaxHandlers
  /\ {MaxGroup, MaxPage, MaxPresses, MaxHandlers, MaxOpens, MaxDepth, MaxFolders, MaxEdits} \subseteq Nat
  /\ MaxPane \in Nat \ {0, 1}
  /\ \A s \in Shares : s \in Seq(Nat) /\ Len(s) = 2 /\ s[1] + s[2] = 100
  /\ Pages \cap ListRows = {}
  /\ \A hit \in SUBSET Zones : hit # {} => \E z \in hit : \A y \in hit : z >= y
  /\ DefaultTheme \in Themes /\ DefaultPalette \in Palettes
  /\ NewIds \subseteq StoredIds /\ Old \subseteq StoredIds \ NewIds

SomeShares == {<<30, 70>>}
TabSymmetry == Permutations(Tabs)

VARIABLES
  part,  \* which of them runs
  v1, v2, v3, v4, v5, v6, v7, v8, v9, v10, v11, v12
vars == <<part, v1, v2, v3, v4, v5, v6, v7, v8, v9, v10, v11, v12>>

Layout == INSTANCE TerminalGroups WITH
  NoTab <- None, layout <- v1
Grid == INSTANCE GridTree WITH
  grid <- v1, live <- v2, nextPane <- v3, frames <- v4
Drag == INSTANCE PointerDrags WITH
  Rows <- ListRows,
  press <- v1, held <- v2, over <- v3, dragged <- v4, select <- v5, active <- v6, hover <- v7,
  suppress <- v8, due <- v9, click <- v10, drop <- v11, presses <- v12
Drop == INSTANCE FileDrop WITH
  mounted <- v1, enabled <- v2, unlistenPromise <- v3, handlers <- v4, closing <- v5,
  isDragOver <- v6, received <- v7
Prefs == INSTANCE Preferences WITH
  open <- v1, draft <- v2, shown <- v3, saved <- v4, original <- v5, preserve <- v6,
  opens <- v7, halfSaved <- v8, busy <- v9, found <- v10, dialog <- v11
Store == INSTANCE SavedConnections WITH
  Ids <- StoredIds, Fresh <- NewIds,
  conns <- v1, folders <- v2, bookmarks <- v3, keychain <- v4, swept <- v5, sweep <- v6,
  ops <- v7, edits <- v8, torn <- v9

Init ==
  \/ part = "layout" /\ Layout!Init
     /\ v2 = 0 /\ v3 = 0 /\ v4 = 0 /\ v5 = 0 /\ v6 = 0 /\ v7 = 0 /\ v8 = 0 /\ v9 = 0 /\ v10 = 0 /\ v11 = 0 /\ v12 = 0
  \/ part = "grid" /\ Grid!Init
     /\ v5 = 0 /\ v6 = 0 /\ v7 = 0 /\ v8 = 0 /\ v9 = 0 /\ v10 = 0 /\ v11 = 0 /\ v12 = 0
  \/ part = "drag" /\ Drag!Init
  \/ part = "drop" /\ Drop!Init
     /\ v8 = 0 /\ v9 = 0 /\ v10 = 0 /\ v11 = 0 /\ v12 = 0
  \/ part = "prefs" /\ Prefs!Init
     /\ v12 = 0
  \/ part = "store" /\ Store!Init
     /\ v10 = 0 /\ v11 = 0 /\ v12 = 0
Next ==
  /\ UNCHANGED part
  /\ \/ part = "layout" /\ Layout!Next /\ UNCHANGED <<v2, v3, v4, v5, v6, v7, v8, v9, v10, v11, v12>>
     \/ part = "grid" /\ Grid!Next /\ UNCHANGED <<v5, v6, v7, v8, v9, v10, v11, v12>>
     \/ part = "drag" /\ Drag!Next
     \/ part = "drop" /\ Drop!Next /\ UNCHANGED <<v8, v9, v10, v11, v12>>
     \/ part = "prefs" /\ Prefs!Next /\ UNCHANGED v12
     \/ part = "store" /\ Store!Next /\ UNCHANGED <<v10, v11, v12>>
Spec == Init /\ [][Next]_vars

(***************************************************************************)
(* The properties of the parts, by their names there                       *)
(***************************************************************************)
(* Every pane is on one page and once in its grid, every session is found in the one   *)
(* pane that holds it, and the focus is on a pane that is shown.                       *)
PanesPlacedOnce == part = "layout" => Layout!Inv
(* Whatever splits, closes, moves and late resizes did, every divider has two sides.   *)
TreesAreSound == part = "grid" => Grid!Inv
(* A close ends one session and moves the focus only if its pane goes; splitting,      *)
(* moving, dragging and showing panes, pages and sessions ends none.                   *)
SessionsStay == [][part = "layout" => Layout!ClosesOne /\ Layout!ArrangingKeepsSessions]_vars
(* A split keeps what is drawn; dragging saved connections loses none and moves only   *)
(* what is dragged.                                                                    *)
MovesAreLocal ==
  [][/\ part = "grid" => Grid!SplitKeepsComponents
     /\ part = "store" => Store!DragIsLocal]_vars
(* However a drag ends, nothing stays marked, and a click is taken as one exactly if   *)
(* nothing was dragged since its press.                                                *)
DragsEndClean == part = "drag" => Drag!Inv
(* Exactly the mounted zones keep a handler, and no handler is forgotten. *)
HandlersAccounted == part = "drop" => Drop!Inv
(* Settings that are closed show what is stored, unless a save failed half way. *)
ClosedShowsSaved == part = "prefs" => Prefs!Inv
(* Every saved connection is shown, in a folder that exists, bookmarks have owners, and *)
(* a secret the list speaks of is in the Keychain, unless an operation was cut short.   *)
SavedIsSound == part = "store" => Store!Inv /\ Store!FlagIsBacked
=============================================================================
