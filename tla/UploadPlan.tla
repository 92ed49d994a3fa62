----------------------------- MODULE UploadPlan -----------------------------
(***************************************************************************)
(* Files and folders dropped on a file panel, or chosen in the dialog of   *)
(* the upload button: upload-paths.ts, and the handlers of                 *)
(* integrated-file-browser.tsx that carry its plan out. A drop takes many  *)
(* awaits (one stat per path, one listing per folder, one remote mkdir per *)
(* directory) before its transfers are queued, while the panel may be      *)
(* taken elsewhere, files may vanish and another drop may start.           *)
(*                                                                         *)
(* A remote path is the sequence of its names. The order of two            *)
(* directories of the same depth is left open.                             *)
(***************************************************************************)
EXTENDS Naturals, FiniteSets, SequencesExt

CONSTANTS
  Local,      \* the local paths that can be dropped
  Tree,       \* per local path: [name, folder, dirs, files], the last two sets of relative paths
  Panels,     \* the remote directories the panel may show
  MaxRuns     \* bound: drops and dialogs

VARIABLES
  path,       \* currentPath
  gone,       \* local paths that vanished
  remote,     \* the remote directories that exist
  runs,       \* per run: [phase, target, paths, stats, entries, todo, errors]
  queue       \* the transfers queued: [run, source, destination]
vars == <<path, gone, remote, runs, queue>>

Idle == [phase |-> "none", target |-> <<>>, paths |-> {}, stats |-> <<>>,
         entries |-> <<>>, todo |-> {}, errors |-> {}]
Ids == 1 .. MaxRuns
InPhase(r, p) == runs[r].phase = p
Init ==
  /\ path \in Panels /\ gone = {} /\ remote = Panels
  /\ runs = [r \in Ids |-> Idle] /\ queue = {}

(***************************************************************************)
(* The plan                                                                *)
(***************************************************************************)
NoEntries == [dirs |-> {}, files |-> {}]
Entries(p) == [dirs |-> Tree[p].dirs, files |-> Tree[p].files]
joinRemotePath(base, relative) == base \o relative
Root(p, target) == joinRemotePath(target, <<Tree[p].name>>)
Item(r, p, relative, target) ==
  [run |-> r, source |-> <<p, relative>>, destination |-> joinRemotePath(Root(p, target), relative)]
buildFileUploadItems(r, paths, target) == {Item(r, p, <<>>, target) : p \in paths}
(* A folder's plan: its own remote directory first, then what the listing has. *)
buildDirectoryUploadPlan(r, p, target, entries) ==
  [directories |-> {Root(p, target)} \cup {joinRemotePath(Root(p, target), d) : d \in entries.dirs},
   items |-> {Item(r, p, f, target) : f \in entries.files}]
Folders(run) == {p \in run.paths : run.stats[p] = "folder"}
Files(run) == {p \in run.paths : run.stats[p] = "file"}
buildMixedDropUploadPlan(r, target) ==
  LET run == runs[r]
      plans == {buildDirectoryUploadPlan(r, p, target, run.entries[p]) : p \in Folders(run)} IN
  [directories |-> UNION {plan.directories : plan \in plans},
   items |-> (UNION {plan.items : plan \in plans}) \cup buildFileUploadItems(r, Files(run), target)]
(* The directory the drop was made in: the closure's path, not the panel's present one. *)
Target_Latest(r) == path
Target(r) == runs[r].target
Plan(r) == buildMixedDropUploadPlan(r, Target(r))

(***************************************************************************)
(* The handlers                                                            *)
(***************************************************************************)
handleOsFilesDropped(r, paths) ==
  /\ InPhase(r, "none") /\ paths # {}
  /\ runs' = [runs EXCEPT ![r] = [Idle EXCEPT !.phase = "stat", !.target = path, !.paths = paths]]
  /\ UNCHANGED <<path, gone, remote, queue>>
stat_local_path(r, p) ==
  LET kind == IF p \in gone THEN "missing" ELSE IF Tree[p].folder THEN "folder" ELSE "file"
      stats == [q \in {p} \cup DOMAIN runs[r].stats |-> IF q = p THEN kind ELSE runs[r].stats[q]] IN
  /\ InPhase(r, "stat") /\ p \in runs[r].paths \ DOMAIN runs[r].stats
  /\ runs' = [runs EXCEPT ![r].stats = stats,
                          ![r].phase = IF DOMAIN stats = runs[r].paths THEN "list" ELSE "stat"]
  /\ UNCHANGED <<path, gone, remote, queue>>
(* A folder that cannot be listed counts as empty. *)
list_local_files_recursive(r, p, result) ==
  LET entries == [q \in {p} \cup DOMAIN runs[r].entries |-> IF q = p THEN result ELSE runs[r].entries[q]] IN
  /\ InPhase(r, "list") /\ p \in Folders(runs[r]) \ DOMAIN runs[r].entries
  /\ result \in {NoEntries} \cup (IF p \in gone THEN {} ELSE {Entries(p)})
  /\ runs' = [runs EXCEPT ![r].entries = entries]
  /\ UNCHANGED <<path, gone, remote, queue>>
Planned(r) ==
  /\ InPhase(r, "list") /\ Folders(runs[r]) \subseteq DOMAIN runs[r].entries
  /\ runs' = [runs EXCEPT ![r].phase = "mkdir", ![r].todo = Plan(r).directories]
  /\ UNCHANGED <<path, gone, remote, queue>>
(* mkdir -p, parents before children; a failure is noted and the next is tried. *)
create_directory(r, d, ok) ==
  /\ InPhase(r, "mkdir") /\ d \in runs[r].todo /\ \A e \in runs[r].todo : Len(d) <= Len(e)
  /\ remote' = IF ok THEN remote \cup {SubSeq(d, 1, n) : n \in 1 .. Len(d)} ELSE remote
  /\ runs' = [runs EXCEPT ![r].todo = @ \ {d}, ![r].errors = IF ok THEN @ ELSE @ \cup {d}]
  /\ UNCHANGED <<path, gone, queue>>
EveryDirectoryTried(r) == runs[r].todo = {}
Enqueue(r) ==
  /\ InPhase(r, "mkdir") /\ EveryDirectoryTried(r)
  /\ queue' = queue \cup Plan(r).items
  /\ runs' = [runs EXCEPT ![r].phase = "done", ![r].todo = {}]
  /\ UNCHANGED <<path, gone, remote>>

(* The upload button: the panel may move on while the dialog is open. *)
handleUpload(r) ==
  /\ InPhase(r, "none")
  /\ runs' = [runs EXCEPT ![r] = [Idle EXCEPT !.phase = "dialog", !.target = path]]
  /\ UNCHANGED <<path, gone, remote, queue>>
Chosen(r, paths) ==
  /\ InPhase(r, "dialog") /\ \A p \in paths : ~Tree[p].folder
  /\ queue' = queue \cup buildFileUploadItems(r, paths, Target(r))
  /\ runs' = [runs EXCEPT ![r].phase = "done", ![r].paths = paths,
                          ![r].stats = [p \in paths |-> "file"]]
  /\ UNCHANGED <<path, gone, remote>>

Navigate(p) == path' = p /\ p # path /\ UNCHANGED <<gone, remote, runs, queue>>
Vanish(p) == p \notin gone /\ gone' = gone \cup {p} /\ UNCHANGED <<path, remote, runs, queue>>

Next ==
  \/ \E r \in Ids, paths \in SUBSET Local : handleOsFilesDropped(r, paths) \/ Chosen(r, paths)
  \/ \E r \in Ids, p \in Local : stat_local_path(r, p)
  \/ \E r \in Ids, p \in Local, result \in {NoEntries} \cup {Entries(q) : q \in Local} :
       list_local_files_recursive(r, p, result)
  \/ \E r \in Ids : handleUpload(r) \/ Planned(r) \/ Enqueue(r)
  \/ \E r \in Ids, ok \in BOOLEAN : \E d \in runs[r].todo : create_directory(r, d, ok)
  \/ \E p \in Panels : Navigate(p)
  \/ \E p \in Local : Vanish(p)
Spec == Init /\ [][Next]_vars

(***************************************************************************)
(* Correctness                                                             *)
(***************************************************************************)
PartialMaps(S, T) == UNION {[P -> T] : P \in SUBSET S}
Runs == [phase : {"none", "dialog", "stat", "list", "mkdir", "done"}, target : Seq(STRING), paths : SUBSET Local,
         stats : PartialMaps(Local, {"missing", "folder", "file"}),
         entries : PartialMaps(Local, {NoEntries} \cup {Entries(p) : p \in Local}),
         todo : SUBSET (Seq(STRING) \ {<<>>}), errors : SUBSET (Seq(STRING) \ {<<>>})]
TypeOK ==
  /\ path \in Panels /\ gone \subseteq Local /\ Panels \subseteq remote /\ runs \in [Ids -> Runs]
  /\ \A q \in queue : q.run \in Ids

(* A transfer is queued only when the remote folder it goes into exists, or
   when the drop it belongs to has reported a folder it could not make: an
   upload never runs into a missing directory without a word. *)
FoldersBeforeFiles ==
  \A q \in queue : Front(q.destination) \in remote \/ runs[q.run].errors # {}

(* Whatever is dropped reaches the directory it was dropped on: when a drop
   is done, each of its paths is reported missing, or queued below the
   panel's directory at the time of the drop, however the panel moved during
   the awaits; of a folder, everything its listing had. (A folder whose
   listing failed counts as empty: nothing below it is queued.) *)
DropGoesWhereItFell ==
  \A r \in Ids : InPhase(r, "done") =>
    /\ \A p \in Files(runs[r]) : Item(r, p, <<>>, runs[r].target) \in queue
    /\ \A p \in Folders(runs[r]) : \A f \in runs[r].entries[p].files :
         Item(r, p, f, runs[r].target) \in queue
    /\ \A q \in queue : q.run = r => IsPrefix(runs[r].target, q.destination)

(* Why both hold: what the handlers have learnt of a run by each of its phases,  *)
(* and that nothing of it is queued before its last.                             *)
PhasesAreBacked ==
  /\ \A r \in Ids : LET run == runs[r] IN
       /\ run.phase # "none" => run.target \in Panels
       /\ run.phase \in {"list", "mkdir", "done"} => DOMAIN run.stats = run.paths
       /\ run.phase \in {"mkdir", "done"} => Folders(run) \subseteq DOMAIN run.entries
       /\ \A p \in DOMAIN run.entries : run.entries[p] \in {NoEntries, Entries(p)}
       /\ run.phase = "mkdir" => Plan(r).directories \subseteq run.todo \cup remote \cup run.errors
  /\ \A q \in queue : InPhase(q.run, "done")

(* Types and invariants together. *)
Inv == TypeOK /\ FoldersBeforeFiles /\ DropGoesWhereItFell /\ PhasesAreBacked
=============================================================================
