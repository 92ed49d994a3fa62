---------------------------- MODULE Preferences ----------------------------
(***************************************************************************)
(* The settings window (settings-modal.tsx) and the check for updates      *)
(* (update-checker.tsx) it can start. Theme and palette are tried on the   *)
(* whole application while they are chosen, and taken back on Cancel; the  *)
(* update check closes the window but keeps the draft for when it is       *)
(* opened again. Saving stores the settings and then, separately, the      *)
(* appearance of the terminal, whose background image may not fit into     *)
(* the storage. Other settings are kept in the draft and stored with it.   *)
(***************************************************************************)
EXTENDS Naturals

CONSTANTS
  Themes, Palettes,            \* the first of each is the default
  DefaultTheme, DefaultPalette,
  MaxOpens,                    \* bound: times the window is opened
  None

VARIABLES
  open, draft,
  shown,      \* what the document shows
  saved,      \* what is stored
  original,   \* originalThemeRef and originalPaletteRef
  preserve,   \* preserveDraftRef
  opens,
  halfSaved,  \* history: the settings were stored but not the terminal's appearance
  busy,       \* the update check at work: None, "auto" or "manual"
  found,      \* updateInfo is there
  dialog      \* the dialog that offers the update
vars == <<open, draft, shown, saved, original, preserve, opens, halfSaved, busy, found, dialog>>
window == <<open, draft, shown, saved, original, preserve, opens, halfSaved>>
checker == <<busy, found, dialog>>

Looks == [theme : Themes, palette : Palettes]
Default == [theme |-> DefaultTheme, palette |-> DefaultPalette]
(* initializeTheme; the application may check for updates as it starts. *)
Init ==
  /\ saved \in Looks /\ shown = saved /\ draft = Default /\ original = saved
  /\ open = FALSE /\ preserve = FALSE /\ opens = 0 /\ halfSaved = FALSE
  /\ busy \in {None, "auto"} /\ found = FALSE /\ dialog = FALSE

(***************************************************************************)
(* The settings window                                                     *)
(***************************************************************************)
Open ==
  /\ ~open /\ ~dialog /\ opens < MaxOpens /\ open' = TRUE /\ opens' = opens + 1 /\ preserve' = FALSE
  /\ IF preserve THEN UNCHANGED <<draft, original>>
     ELSE draft' = saved /\ original' = [theme |-> saved.theme, palette |-> shown.palette]
  /\ UNCHANGED <<shown, saved, halfSaved, checker>>
Choose(look) ==
  /\ open /\ (look.theme = draft.theme \/ look.palette = draft.palette) /\ draft' = look
  /\ shown' = IF look.theme = draft.theme THEN [shown EXCEPT !.palette = look.palette] ELSE look
  /\ UNCHANGED <<open, saved, original, preserve, opens, halfSaved, checker>>
handleReset ==
  /\ open /\ draft' = Default /\ shown' = Default
  /\ UNCHANGED <<open, saved, original, preserve, opens, halfSaved, checker>>
handleCancel_KeepsPalette ==
  /\ open /\ open' = FALSE /\ shown' = [shown EXCEPT !.theme = original.theme]
  /\ UNCHANGED <<draft, saved, original, preserve, opens, halfSaved, checker>>
handleCancel ==
  /\ open /\ open' = FALSE /\ shown' = original
  /\ UNCHANGED <<draft, saved, original, preserve, opens, halfSaved, checker>>
(* fits: the appearance of the terminal could be stored too; if not the window stays. *)
handleSave(fits) ==
  /\ open /\ shown' = draft /\ saved' = draft /\ open' = ~fits /\ halfSaved' = ~fits
  /\ UNCHANGED <<draft, original, preserve, opens, checker>>

(***************************************************************************)
(* The check for updates                                                   *)
(***************************************************************************)
(* One at a time: a check asked for while another runs is dropped. *)
checkForUpdates(kind) ==
  IF busy # None THEN UNCHANGED checker
  ELSE busy' = kind /\ UNCHANGED <<found, dialog>>
handleCheckForUpdates ==
  /\ open /\ open' = FALSE /\ preserve' = TRUE /\ checkForUpdates("manual")
  /\ UNCHANGED <<draft, shown, saved, original, opens, halfSaved>>
Checked(available) ==
  /\ busy # None /\ busy' = None
  /\ found' = (found \/ available) /\ dialog' = (dialog \/ available) /\ UNCHANGED window
(* Later, Escape, or the page on GitHub was opened; not while a check runs. *)
CloseOffer ==
  /\ dialog /\ busy = None /\ found' = FALSE /\ dialog' = FALSE /\ UNCHANGED <<window, busy>>

Next ==
  \/ Open \/ handleReset \/ handleCancel \/ handleCheckForUpdates \/ CloseOffer
  \/ \E look \in Looks : Choose(look)
  \/ \E b \in BOOLEAN : handleSave(b) \/ Checked(b)
Spec == Init /\ [][Next]_vars

TypeOK ==
  /\ {draft, shown, saved, original} \subseteq Looks
  /\ {open, preserve, halfSaved, found, dialog} \subseteq BOOLEAN
  /\ opens \in 0 .. MaxOpens /\ busy \in {None, "auto", "manual"}
(* With the settings window closed the application shows the stored theme and palette: *)
(* what was tried on is taken back. Excused are a draft kept for after an update check *)
(* and a save whose second half failed, after which Cancel takes back what is stored.  *)
ClosedShowsSaved == ~open /\ ~preserve /\ ~halfSaved => shown = saved

(* Types and invariants together. *)
Inv == TypeOK /\ ClosedShowsSaved
=============================================================================
