----------------------------- MODULE FileEditor -----------------------------
(***************************************************************************)
(* The text editor of a remote file (file-editor-view.tsx), in a tab or in *)
(* a window of its own, and the download that opens a file with another    *)
(* program. The editor keeps the text shown and the text it believes is on *)
(* the server. A save sends the text of its start and, when it succeeds,   *)
(* believes the text of its END is stored; a load, at the start, by hand   *)
(* or when the connection is back, replaces both.                          *)
(* Texts are numbered as they are typed; nobody else writes the file.      *)
(***************************************************************************)
EXTENDS Naturals

CONSTANTS
  Empty,        \* the text of an editor that has loaded nothing
  MaxEdits,     \* bound: texts typed
  MaxSaves,     \* bound: saves
  MaxLoads,     \* bound: loads
  MaxFailures,  \* bound: loads, saves and downloads that fail
  None          \* no text yet

VARIABLES
  isConnected, content, savedContent,
  remote,       \* the text on the server
  loading, saving, error,
  loads,        \* loads under way: [n, text], text None before the server reads the file
  saves,        \* saves under way: [n, text, stored]
  overlap,      \* history: an edit, a load or another save met a save, and no load came after
  download,     \* "idle", "home", "transfer" or "opening"
  downloading, mounted,
  edits, nsaves, nloads, failures
vars == <<isConnected, content, savedContent, remote, loading, saving, error, loads, saves, overlap, download, downloading, mounted, edits, nsaves, nloads, failures>>
editor == <<isConnected, content, savedContent, remote, loading, saving, error, loads, saves, overlap, edits, nsaves, nloads>>
opener == <<download, downloading, mounted>>

dirty == content # savedContent
Fails(ok) == failures' = failures + (IF ok THEN 0 ELSE 1) /\ failures' <= MaxFailures

Init ==
  /\ isConnected = TRUE /\ content = Empty /\ savedContent = Empty /\ remote = 0
  /\ loading = TRUE /\ saving = FALSE /\ error = FALSE
  /\ loads = {[n |-> 1, text |-> None]} /\ saves = {} /\ overlap = FALSE
  /\ download = "idle" /\ downloading = FALSE /\ mounted = TRUE
  /\ edits = 0 /\ nsaves = 0 /\ nloads = 1 /\ failures = 0

(***************************************************************************)
(* Loading                                                                 *)
(***************************************************************************)
loadFile ==
  /\ nloads < MaxLoads /\ nloads' = nloads + 1
  /\ loads' = loads \cup {[n |-> nloads', text |-> None]}
  /\ loading' = TRUE /\ error' = FALSE /\ overlap' = (overlap \/ saves # {})
  /\ UNCHANGED <<content, savedContent, remote, saving, saves, opener, edits, nsaves, failures>>
Reload == mounted /\ isConnected /\ ~loading /\ UNCHANGED isConnected /\ loadFile
Disconnect == mounted /\ isConnected /\ isConnected' = FALSE
  /\ UNCHANGED <<content, savedContent, remote, loading, saving, error, loads, saves, overlap, opener, edits, nsaves, nloads, failures>>
(* Unsaved text is not asked about. *)
Reconnect == mounted /\ ~isConnected /\ isConnected' = TRUE /\ loadFile
Reads(l) ==
  /\ l.text = None /\ loads' = (loads \ {l}) \cup {[l EXCEPT !.text = remote]}
  /\ UNCHANGED <<isConnected, content, savedContent, remote, loading, saving, error, saves, overlap, opener, edits, nsaves, nloads, failures>>
Loaded(l, ok) ==
  /\ (ok <=> l.text # None) /\ Fails(ok) /\ loads' = loads \ {l} /\ loading' = FALSE
  /\ IF ok THEN content' = l.text /\ savedContent' = l.text /\ UNCHANGED error
     ELSE error' = TRUE /\ UNCHANGED <<content, savedContent>>
  /\ overlap' = (saves # {} \/ (overlap /\ ~(ok /\ loads' = {} /\ l.text = remote)))
  /\ UNCHANGED <<isConnected, remote, saving, saves, opener, edits, nsaves, nloads>>

(***************************************************************************)
(* Editing and saving                                                      *)
(***************************************************************************)
Editable == mounted /\ isConnected /\ ~loading /\ ~error
Type ==
  /\ Editable /\ edits < MaxEdits /\ edits' = edits + 1 /\ content' = edits' /\ overlap' = (overlap \/ saves # {})
  /\ UNCHANGED <<isConnected, savedContent, remote, loading, saving, error, loads, saves, opener, nsaves, nloads, failures>>
(* The button waits for the save under way; Ctrl+S does not, nor does it ask whether the *)
(* text changed, or was ever loaded: before that the empty text is stored.               *)
handleSave(byKey) ==
  /\ mounted /\ nsaves < MaxSaves /\ (byKey \/ (Editable /\ ~saving /\ dirty))
  /\ nsaves' = nsaves + 1 /\ saving' = TRUE
  /\ saves' = saves \cup {[n |-> nsaves', text |-> content, stored |-> FALSE]}
  /\ overlap' = (overlap \/ saves # {} \/ loads # {})
  /\ UNCHANGED <<isConnected, content, savedContent, remote, loading, error, loads, opener, edits, nloads, failures>>
Stores(s) ==
  /\ ~s.stored /\ remote' = s.text /\ saves' = (saves \ {s}) \cup {[s EXCEPT !.stored = TRUE]}
  /\ UNCHANGED <<isConnected, content, savedContent, loading, saving, error, loads, overlap, opener, edits, nsaves, nloads, failures>>
Saved(s) ==
  /\ Fails(s.stored) /\ saves' = saves \ {s} /\ saving' = FALSE
  /\ savedContent' = IF s.stored THEN content ELSE savedContent
  /\ UNCHANGED <<isConnected, content, remote, loading, error, loads, overlap, opener, edits, nsaves, nloads>>

(***************************************************************************)
(* Download and open                                                       *)
(***************************************************************************)
handleDownloadAndOpen ==
  /\ mounted /\ ~downloading /\ downloading' = TRUE /\ download' = "home"
  /\ UNCHANGED <<editor, mounted, failures>>
(* Leaving the file aborts the transfer, and nothing is opened afterwards. *)
Downloads(ok) ==
  /\ download # "idle" /\ Fails(ok)
  /\ download' = IF ~ok \/ ~mounted THEN "idle"
                 ELSE IF download = "home" THEN "transfer" ELSE IF download = "transfer" THEN "opening" ELSE "idle"
  /\ downloading' = (downloading /\ (download' # "idle" \/ ~mounted))
  /\ UNCHANGED <<editor, mounted>>
Leave == mounted /\ mounted' = FALSE /\ UNCHANGED <<editor, download, downloading, failures>>

Next ==
  \/ Reload \/ Disconnect \/ Reconnect \/ Type \/ handleDownloadAndOpen \/ Leave
  \/ \E byKey \in BOOLEAN : handleSave(byKey)
  \/ \E l \in loads : Reads(l) \/ \E ok \in BOOLEAN : Loaded(l, ok)
  \/ \E s \in saves : Stores(s) \/ Saved(s)
  \/ \E ok \in BOOLEAN : Downloads(ok)
Spec == Init /\ [][Next]_vars

Texts == (0 .. MaxEdits) \cup {Empty}
TypeOK ==
  /\ {isConnected, loading, saving, error, overlap, downloading, mounted} \subseteq BOOLEAN
  /\ content \in Texts /\ savedContent \in Texts /\ remote \in Texts
  /\ loads \subseteq [n : 1 .. MaxLoads, text : Texts \cup {None}]
  /\ saves \subseteq [n : 1 .. MaxSaves, text : Texts, stored : BOOLEAN]
  /\ download \in {"idle", "home", "transfer", "opening"}
(* Text that no longer shows as modified is the text on the server, unless something  *)
(* met a save under way: typing during it, Ctrl+S again, or a load.                   *)
CleanIsStored == ~dirty /\ saves = {} /\ content # Empty /\ ~overlap => content = remote
(* A file whose view was left while it was still downloading is not opened.           *)
LeftIsNotOpened == ~mounted => (download' = "opening" => download = "opening")

(* Types and invariants together. *)
Inv == TypeOK /\ CleanIsStored
=============================================================================
