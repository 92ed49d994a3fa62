----------------------------- MODULE FilesProofs -----------------------------
(***************************************************************************)
(* Safety of the file panels of MCFiles, for every value of its constants. *)
(*                                                                         *)
(* OutcomesAreTrue is the conjunction of three inductive invariants, each  *)
(* of a part that runs alone: that of the moves (FileMoves), of the        *)
(* two-panel view and its queue (FtpWorkspace), and of an SFTP transfer    *)
(* (SftpPipeline). Each section shows that the part's Init establishes its *)
(* Inv and that every step keeps it; the last one puts them together.      *)
(*                                                                         *)
(* The parts are instances whose variables are v1, v2, ... of MCFiles:     *)
(*   Moves  v1 src, v2 dst, v3 kept, v4 backup, v5 runs, v6 overwrite,     *)
(*          v7 pc, v8 item, v9 conflicts, v10 results, v11 warned,         *)
(*          v12 agreed, v13 others                                         *)
(*   Ftp    v1 view, v2 path, v3 shown, v4 selected, v5 loading, v6 loads, *)
(*          v7 op, v8 items, v9 active, v10 due, v11 busy, v12 flights     *)
(*   Sftp   v1 upload, v2 size, v3 resizes, v4 depth, v5 pc, v6 inflight,  *)
(*          v7 ranges, v8 next, v9 eof, v10 written, v11 landed, v12 acked,*)
(*          v13 cancelled, v14 cause                                       *)
(***************************************************************************)
EXTENDS MCFiles, FiniteSetTheorems, SequenceTheorems, WellFoundedInduction, TLAPS

(* What each part needs of the constants. *)
LEMMA MovesConstants ==
  /\ None \notin Nat \cup {"new", "old", "other", "ok", "error"}
  /\ Names \in Nat \ {0} /\ MaxRuns \in Nat /\ MaxOthers \in Nat
BY FilesConstants

LEMMA FtpConstants ==
  /\ None \notin Nat \cup {"/", "/dir"} /\ FtpPanels \subseteq {"local", "remote"}
  /\ MaxItems \in Nat /\ MaxTries \in Nat \ {0}
BY FilesConstants

LEMMA SftpConstants ==
  /\ None \notin Nat \cup {"setup", "remote", "starved", "broken", "cancelled"}
  /\ Sizes \subseteq Nat /\ Chunk \in Nat \ {0} /\ MaxDepth \in Nat \ {0} /\ MaxResizes \in Nat
BY FilesConstants

(***************************************************************************)
(* Moves: a file has one new content and at most one backup per run        *)
(***************************************************************************)
LEMMA MovesInit == Moves!Init => Moves!Inv
<1> SUFFICES ASSUME Moves!Init PROVE Moves!Inv
  OBVIOUS
<1> USE MovesConstants DEF Moves!Init, Moves!Items, Moves!Contents, Moves!Waits
<1>1. Moves!TypeOK
  <2>1. v6 \in BOOLEAN
    OBVIOUS
  <2>2. v5 \in 0 .. MaxRuns /\ v13 \in 0 .. MaxOthers
    OBVIOUS
  <2> QED BY <2>1, <2>2 DEF Moves!TypeOK
<1>2. Moves!NothingLost
  BY DEF Moves!NothingLost, Moves!Held
<1>3. Moves!LeftoversAreTold /\ Moves!MovedIsThere
  BY DEF Moves!LeftoversAreTold, Moves!MovedIsThere
<1>4. Moves!Shown /\ Moves!Backed /\ Moves!Placed
  BY DEF Moves!Shown, Moves!Backed, Moves!Placed
<1>5. Moves!OneIsNew /\ Moves!OwnBackup /\ Moves!Pending
  BY DEF Moves!OneIsNew, Moves!OwnBackup, Moves!Pending
<1> QED BY <1>1, <1>2, <1>3, <1>4, <1>5 DEF Moves!Inv

(* A reported item has a result, and the next one, or none, is looked at. *)
LEMMA MovesReported ==
  ASSUME Moves!TypeOK, NEW result \in {"ok", "error"}, Moves!Reports(result)
  PROVE  /\ v4' = None /\ v8' \in Moves!Items /\ v11' \subseteq Moves!Items /\ v11 \subseteq v11'
         /\ v10' \in [Moves!Items -> {None, "ok", "error"}] /\ v10' = [v10 EXCEPT ![v8] = result]
         /\ v7' \in {"idle", "preserve", "move"} /\ (v7' # "idle" => v8' = v8 + 1 /\ v7' = Moves!FirstStep)
         /\ v7' = "preserve" => v6
         /\ result = "error" => v8 \in v11'
BY MovesConstants DEF Moves!TypeOK, Moves!Reports, Moves!FirstStep, Moves!Items

LEMMA MovesStart == ASSUME Moves!Inv, Moves!Start PROVE Moves!Inv'
<1> USE MovesConstants DEF Moves!Inv, Moves!TypeOK, Moves!Items, Moves!Contents, Moves!Waits,
      Moves!Start, Moves!Enters, Moves!files
<1>1. Moves!TypeOK'
  <2>1. v6' \in BOOLEAN
    OBVIOUS
  <2>2. v5' \in 0 .. MaxRuns /\ v13' \in 0 .. MaxOthers
    OBVIOUS
  <2> QED BY <2>1, <2>2
<1>2. Moves!NothingLost'
  BY DEF Moves!NothingLost, Moves!Held
<1>3. Moves!LeftoversAreTold'
  BY DEF Moves!LeftoversAreTold, Moves!OwnBackup
<1>4. Moves!MovedIsThere'
  BY DEF Moves!MovedIsThere, Moves!Pending, Moves!Placed
<1>5. Moves!Shown'
  BY DEF Moves!Shown, Moves!Backed, Moves!Placed
<1>6. Moves!Backed'
  BY DEF Moves!Backed
<1>7. Moves!Placed'
  BY DEF Moves!Placed, Moves!Backed, Moves!Shown
<1>8. Moves!OneIsNew'
  BY DEF Moves!OneIsNew, Moves!NothingLost, Moves!Held
<1>9. Moves!OwnBackup'
  BY DEF Moves!OwnBackup, Moves!LeftoversAreTold, Moves!Backed
<1>10. Moves!Pending'
  BY DEF Moves!Pending
<1> QED BY <1>1, <1>2, <1>3, <1>4, <1>5, <1>6, <1>7, <1>8, <1>9, <1>10

LEMMA MovesConfirm == ASSUME Moves!Inv, Moves!Confirm PROVE Moves!Inv'
<1> USE MovesConstants DEF Moves!Inv, Moves!TypeOK, Moves!Items, Moves!Contents, Moves!Waits,
      Moves!Confirm, Moves!Enters, Moves!files
<1>1. Moves!TypeOK'
  <2>1. v6' \in BOOLEAN
    OBVIOUS
  <2>2. v5' \in 0 .. MaxRuns /\ v13' \in 0 .. MaxOthers
    OBVIOUS
  <2> QED BY <2>1, <2>2
<1>2. Moves!NothingLost'
  BY DEF Moves!NothingLost, Moves!Held
<1>3. Moves!LeftoversAreTold'
  BY DEF Moves!LeftoversAreTold, Moves!OwnBackup
<1>4. Moves!MovedIsThere'
  BY DEF Moves!MovedIsThere, Moves!Pending, Moves!Placed
<1>5. Moves!Shown'
  BY DEF Moves!Shown, Moves!Backed, Moves!Placed
<1>6. Moves!Backed'
  BY DEF Moves!Backed
<1>7. Moves!Placed'
  BY DEF Moves!Placed, Moves!Backed, Moves!Shown
<1>8. Moves!OneIsNew'
  BY DEF Moves!OneIsNew, Moves!NothingLost, Moves!Held
<1>9. Moves!OwnBackup'
  BY DEF Moves!OwnBackup, Moves!LeftoversAreTold, Moves!Backed
<1>10. Moves!Pending'
  BY DEF Moves!Pending
<1> QED BY <1>1, <1>2, <1>3, <1>4, <1>5, <1>6, <1>7, <1>8, <1>9, <1>10

LEMMA MovesDismiss == ASSUME Moves!Inv, Moves!Dismiss PROVE Moves!Inv'
<1> USE MovesConstants DEF Moves!Inv, Moves!TypeOK, Moves!Items, Moves!Contents, Moves!Waits,
      Moves!Dismiss, Moves!files, Moves!flags
<1>1. Moves!TypeOK'
  BY DEF Moves!TypeOK
<1>2. Moves!NothingLost'
  BY DEF Moves!NothingLost, Moves!Held
<1>3. Moves!LeftoversAreTold'
  BY DEF Moves!LeftoversAreTold, Moves!OwnBackup
<1>4. Moves!MovedIsThere'
  BY DEF Moves!MovedIsThere, Moves!Pending, Moves!Placed
<1>5. Moves!Shown'
  BY DEF Moves!Shown, Moves!Backed, Moves!Placed
<1>6. Moves!Backed'
  BY DEF Moves!Backed
<1>7. Moves!Placed'
  BY DEF Moves!Placed, Moves!Backed, Moves!Shown
<1>8. Moves!OneIsNew'
  BY DEF Moves!OneIsNew, Moves!NothingLost, Moves!Held
<1>9. Moves!OwnBackup'
  BY DEF Moves!OwnBackup, Moves!LeftoversAreTold, Moves!Backed
<1>10. Moves!Pending'
  BY DEF Moves!Pending
<1> QED BY <1>1, <1>2, <1>3, <1>4, <1>5, <1>6, <1>7, <1>8, <1>9, <1>10

LEMMA MovesCheck == ASSUME Moves!Inv, Moves!Check PROVE Moves!Inv'
<1> USE MovesConstants DEF Moves!Inv, Moves!TypeOK, Moves!Items, Moves!Contents, Moves!Waits,
      Moves!Check, Moves!files, Moves!FirstStep
<1>1. Moves!TypeOK'
  BY DEF Moves!TypeOK
<1>2. Moves!NothingLost'
  BY DEF Moves!NothingLost, Moves!Held
<1>3. Moves!LeftoversAreTold'
  BY DEF Moves!LeftoversAreTold, Moves!OwnBackup
<1>4. Moves!MovedIsThere'
  BY DEF Moves!MovedIsThere, Moves!Pending, Moves!Placed
<1>5. Moves!Shown'
  BY DEF Moves!Shown, Moves!Backed, Moves!Placed
<1>6. Moves!Backed'
  BY DEF Moves!Backed
<1>7. Moves!Placed'
  BY DEF Moves!Placed, Moves!Backed, Moves!Shown
<1>8. Moves!OneIsNew'
  BY DEF Moves!OneIsNew, Moves!NothingLost, Moves!Held
<1>9. Moves!OwnBackup'
  BY DEF Moves!OwnBackup, Moves!LeftoversAreTold, Moves!Backed
<1>10. Moves!Pending'
  BY DEF Moves!Pending
<1> QED BY <1>1, <1>2, <1>3, <1>4, <1>5, <1>6, <1>7, <1>8, <1>9, <1>10

LEMMA MovesCut == ASSUME Moves!Inv, Moves!Cut PROVE Moves!Inv'
<1> USE MovesConstants DEF Moves!Inv, Moves!TypeOK, Moves!Items, Moves!Contents, Moves!Waits,
      Moves!Cut, Moves!files, Moves!flags
<1>1. Moves!TypeOK'
  BY DEF Moves!TypeOK
<1>2. Moves!NothingLost'
  BY DEF Moves!NothingLost, Moves!Held
<1>3. Moves!LeftoversAreTold'
  BY DEF Moves!LeftoversAreTold, Moves!OwnBackup
<1>4. Moves!MovedIsThere'
  BY DEF Moves!MovedIsThere, Moves!Pending, Moves!Placed
<1>5. Moves!Shown'
  BY DEF Moves!Shown, Moves!Backed, Moves!Placed
<1>6. Moves!Backed'
  BY DEF Moves!Backed
<1>7. Moves!Placed'
  BY DEF Moves!Placed, Moves!Backed, Moves!Shown
<1>8. Moves!OneIsNew'
  BY DEF Moves!OneIsNew, Moves!NothingLost, Moves!Held
<1>9. Moves!OwnBackup'
  BY DEF Moves!OwnBackup, Moves!LeftoversAreTold, Moves!Backed
<1>10. Moves!Pending'
  BY DEF Moves!Pending
<1> QED BY <1>1, <1>2, <1>3, <1>4, <1>5, <1>6, <1>7, <1>8, <1>9, <1>10

(* A result ends an item's move: what is known at the next item. *)
LEMMA MovesReportedInv ==
  ASSUME Moves!Inv, ~Moves!Waits, UNCHANGED Moves!flags,
         NEW result \in {"ok", "error"}, Moves!Reports(result),
         v1' \in [Moves!Items -> {"new", None}], v2' \in [Moves!Items -> Moves!Contents \cup {None}],
         v3' \in [Moves!Items -> SUBSET [run : 1 .. MaxRuns, holds : Moves!Contents]],
         Moves!NothingLost', Moves!OneIsNew',
         \A i \in Moves!Items : i # v8 => v1'[i] = v1[i] /\ v2'[i] = v2[i] /\ v3'[i] = v3[i],
         v2'[v8] = "old" => v2[v8] = "old" \/ v4 = "old",
         result = "ok" => v2'[v8] = "new" /\ v1'[v8] = None /\ (v3'[v8] = {} \/ v8 \in v11)
  PROVE  Moves!Inv'
<1> USE MovesConstants DEF Moves!Inv, Moves!TypeOK, Moves!Items, Moves!Contents, Moves!flags
<1>1. /\ v4' = None /\ v8' \in Moves!Items /\ v11' \subseteq Moves!Items /\ v11 \subseteq v11'
      /\ v10' \in [Moves!Items -> {None, "ok", "error"}] /\ v10' = [v10 EXCEPT ![v8] = result]
      /\ v7' \in {"idle", "preserve", "move"} /\ (v7' # "idle" => v8' = v8 + 1 /\ v7' = Moves!FirstStep)
      /\ v7' = "preserve" => v6
      /\ result = "error" => v8 \in v11'
  BY MovesReported
<1>2. Moves!TypeOK'
  BY <1>1
<1> USE DEF Moves!Waits
<1>3. Moves!LeftoversAreTold'
  BY <1>1 DEF Moves!LeftoversAreTold
<1>4. Moves!MovedIsThere'
  BY <1>1 DEF Moves!MovedIsThere
<1>5. Moves!Shown'
  BY <1>1 DEF Moves!Shown, Moves!Backed
<1>6. Moves!Backed'
  BY <1>1 DEF Moves!Backed
<1>7. Moves!Placed'
  BY <1>1, <1>5 DEF Moves!Placed, Moves!Shown, Moves!FirstStep
<1>8. Moves!OwnBackup'
  BY <1>1, <1>3 DEF Moves!OwnBackup, Moves!LeftoversAreTold
<1>9. Moves!Pending'
  BY <1>1 DEF Moves!Pending
<1> QED BY <1>2, <1>3, <1>4, <1>5, <1>6, <1>7, <1>8, <1>9

LEMMA MovesPreserve == ASSUME Moves!Inv, Moves!Preserve PROVE Moves!Inv'
<1> USE MovesConstants DEF Moves!Inv, Moves!TypeOK, Moves!Items, Moves!Contents, Moves!flags
<1>1. CASE v2[v8] = None /\ Moves!Goes("move") /\ UNCHANGED <<v2, v3, v4>>
  <2> USE <1>1 DEF Moves!Preserve, Moves!Goes, Moves!Waits
  <2>1. Moves!TypeOK' /\ Moves!NothingLost' /\ Moves!LeftoversAreTold' /\ Moves!MovedIsThere' /\ Moves!OneIsNew'
    BY DEF Moves!NothingLost, Moves!Held, Moves!LeftoversAreTold, Moves!MovedIsThere, Moves!OneIsNew
  <2>2. Moves!Shown' /\ Moves!Backed' /\ Moves!Placed' /\ Moves!OwnBackup' /\ Moves!Pending'
    BY DEF Moves!Shown, Moves!Backed, Moves!Placed, Moves!OwnBackup, Moves!Pending, Moves!Backup
  <2> QED BY <2>1, <2>2
<1>2. CASE /\ v2[v8] # None /\ Moves!Goes("move") /\ v4' = v2[v8]
           /\ v3' = [v3 EXCEPT ![v8] = @ \cup {Moves!Backup(v2[v8])}] /\ v2' = [v2 EXCEPT ![v8] = None]
  <2> USE <1>2 DEF Moves!Preserve, Moves!Goes, Moves!Waits
  <2>1. Moves!TypeOK'
    <3>1. v5 \in 1 .. MaxRuns
      BY DEF Moves!Backed
    <3>2. Moves!Backup(v2[v8]) \in [run : 1 .. MaxRuns, holds : Moves!Contents]
      BY <3>1 DEF Moves!Backup
    <3> QED BY <3>2
  <2>2. /\ Moves!Backup(v2[v8]).holds = v2[v8] /\ Moves!Backup(v2[v8]) \in v3'[v8]
        /\ v3'[v8] = v3[v8] \cup {Moves!Backup(v2[v8])}
        /\ \A i \in Moves!Items : i # v8 => v3'[i] = v3[i] /\ v2'[i] = v2[i]
    BY DEF Moves!Backup
  <2>3. Moves!NothingLost'
    <3> SUFFICES ASSUME NEW i \in Moves!Items
                 PROVE  /\ "new" \in {v1'[i], v2'[i]} \/ Moves!Held(i, "new")'
                        /\ v1'[i] = "new" => v2'[i] # "new" /\ ~Moves!Held(i, "new")'
                        /\ v2'[i] = "new" => ~Moves!Held(i, "new")'
                        /\ i \in Taken => v2'[i] = "old" \/ Moves!Held(i, "old")' \/ (i \in v12' /\ v1'[i] = None)
      BY DEF Moves!NothingLost
    <3>1. i # v8 => \A c : Moves!Held(i, c)' <=> Moves!Held(i, c)
      BY <2>2 DEF Moves!Held
    <3>2. i = v8 => \A c : Moves!Held(i, c)' <=> Moves!Held(i, c) \/ c = v2[v8]
      BY <2>2 DEF Moves!Held
    <3> HIDE <1>2
    <3>3. v1' = v1 /\ v12' = v12 /\ v2'[v8] = None
      BY <1>2
    <3> QED BY <2>2, <3>1, <3>2, <3>3 DEF Moves!NothingLost
  <2>4. Moves!LeftoversAreTold' /\ Moves!OwnBackup'
    BY <2>2 DEF Moves!LeftoversAreTold, Moves!OwnBackup, Moves!Backed, Moves!Backup
  <2>5. Moves!MovedIsThere'
    BY DEF Moves!MovedIsThere, Moves!Pending
  <2>6. Moves!OneIsNew'
    <3>1. v2[v8] = "new" => \A b \in v3[v8] : b.holds # "new"
      BY DEF Moves!NothingLost, Moves!Held
    <3> QED BY <2>2, <3>1 DEF Moves!OneIsNew
  <2>7. Moves!Shown' /\ Moves!Placed' /\ Moves!Pending'
    BY DEF Moves!Shown, Moves!Backed, Moves!Placed, Moves!Pending
  <2>8. Moves!Backed'
    BY <2>2 DEF Moves!Backed, Moves!Shown, Moves!Backup
  <2> QED BY <2>1, <2>3, <2>4, <2>5, <2>6, <2>7, <2>8
<1>3. CASE v2[v8] # None /\ Moves!Reports("error") /\ UNCHANGED <<v2, v3>>
  <2>1. ~Moves!Waits /\ v1' = v1 /\ UNCHANGED Moves!flags
    BY DEF Moves!Preserve, Moves!Waits
  <2>2. Moves!NothingLost' /\ Moves!OneIsNew'
    BY <1>3, <2>1 DEF Moves!NothingLost, Moves!Held, Moves!OneIsNew
  <2> QED BY <1>3, <2>1, <2>2, MovesReportedInv
<1> QED BY <1>1, <1>2, <1>3 DEF Moves!Preserve

LEMMA MovesMove == ASSUME Moves!Inv, Moves!Move PROVE Moves!Inv'
<1> USE MovesConstants DEF Moves!Inv, Moves!TypeOK, Moves!Items, Moves!Contents, Moves!flags
<1>1. CASE v1[v8] # None /\ v2' = [v2 EXCEPT ![v8] = v1[v8]] /\ v1' = [v1 EXCEPT ![v8] = None]
  <2>1. /\ v7 = "move" /\ v3' = v3 /\ UNCHANGED Moves!flags /\ ~Moves!Waits
        /\ v1[v8] = "new" /\ v1'[v8] = None /\ v2'[v8] = "new"
        /\ \A i \in Moves!Items : i # v8 => v1'[i] = v1[i] /\ v2'[i] = v2[i]
    BY <1>1 DEF Moves!Move, Moves!Waits
  <2>2. Moves!NothingLost' /\ Moves!OneIsNew'
    BY <2>1 DEF Moves!NothingLost, Moves!Held, Moves!OneIsNew, Moves!Placed
  <2>3. CASE v4 = None /\ Moves!Reports("ok")
    <3>1. v3[v8] = {} \/ v8 \in v11
      BY <2>3 DEF Moves!OwnBackup
    <3>2. /\ v1' \in [Moves!Items -> {"new", None}] /\ v2' \in [Moves!Items -> Moves!Contents \cup {None}]
          /\ v3' \in [Moves!Items -> SUBSET [run : 1 .. MaxRuns, holds : Moves!Contents]]
      BY <1>1, <2>1
    <3> QED BY <2>1, <2>2, <2>3, <3>1, <3>2, MovesReportedInv
  <2>4. CASE v4 # None /\ Moves!Goes("discard") /\ UNCHANGED v4
    <3> USE <2>1, <2>4 DEF Moves!Goes, Moves!Waits
    <3>1. Moves!TypeOK'
      BY <1>1
    <3>2. Moves!LeftoversAreTold' /\ Moves!MovedIsThere' /\ Moves!OwnBackup'
      BY DEF Moves!LeftoversAreTold, Moves!MovedIsThere, Moves!OwnBackup, Moves!Backup
    <3>3. Moves!Shown' /\ Moves!Backed' /\ Moves!Placed' /\ Moves!Pending'
      BY DEF Moves!Shown, Moves!Backed, Moves!Placed, Moves!Pending, Moves!Backup
    <3> QED BY <2>2, <3>1, <3>2, <3>3
  <2> QED BY <1>1, <2>3, <2>4, <2>1 DEF Moves!Move
<1>2. CASE UNCHANGED <<v1, v2>>
  <2>1. v7 = "move" /\ v3' = v3 /\ UNCHANGED Moves!flags /\ ~Moves!Waits
    BY DEF Moves!Move, Moves!Waits
  <2>2. Moves!NothingLost' /\ Moves!OneIsNew'
    BY <1>2, <2>1 DEF Moves!NothingLost, Moves!Held, Moves!OneIsNew
  <2>3. CASE v4 = None /\ Moves!Reports("error")
    BY <1>2, <2>1, <2>2, <2>3, MovesReportedInv
  <2>4. CASE v4 # None /\ Moves!Goes("restore") /\ UNCHANGED v4
    <3> USE <1>2, <2>1, <2>4 DEF Moves!Goes, Moves!Waits
    <3>1. Moves!TypeOK' /\ Moves!LeftoversAreTold' /\ Moves!MovedIsThere' /\ Moves!OwnBackup'
      BY DEF Moves!LeftoversAreTold, Moves!MovedIsThere, Moves!OwnBackup, Moves!Backup
    <3>2. Moves!Shown' /\ Moves!Backed' /\ Moves!Placed' /\ Moves!Pending'
      BY DEF Moves!Shown, Moves!Backed, Moves!Placed, Moves!Pending, Moves!Backup
    <3> QED BY <2>2, <3>1, <3>2
  <2> QED BY <2>1, <1>2, <2>3, <2>4 DEF Moves!Move
<1> QED BY <1>1, <1>2 DEF Moves!Move

LEMMA MovesRestore == ASSUME Moves!Inv, Moves!Restore PROVE Moves!Inv'
<1> USE MovesConstants DEF Moves!Inv, Moves!TypeOK, Moves!Items, Moves!Contents, Moves!flags
<1>1. v7 = "restore" /\ Moves!Reports("error") /\ v1' = v1 /\ UNCHANGED Moves!flags /\ ~Moves!Waits
  BY DEF Moves!Restore, Moves!Waits
<1>2. CASE UNCHANGED <<v2, v3>>
  <2>1. Moves!NothingLost' /\ Moves!OneIsNew'
    BY <1>1, <1>2 DEF Moves!NothingLost, Moves!Held, Moves!OneIsNew
  <2> QED BY <1>1, <1>2, <2>1, MovesReportedInv
<1>3. CASE v2' = [v2 EXCEPT ![v8] = v4] /\ v3' = [v3 EXCEPT ![v8] = @ \ {Moves!Backup(v4)}]
  <2>1. /\ v4 \in Moves!Contents /\ v2'[v8] = v4 /\ v3'[v8] = v3[v8] \ {Moves!Backup(v4)}
        /\ Moves!Backup(v4) \in v3[v8] /\ Moves!Backup(v4).holds = v4
        /\ \A i \in Moves!Items : i # v8 => v1'[i] = v1[i] /\ v2'[i] = v2[i] /\ v3'[i] = v3[i]
    BY <1>1, <1>3 DEF Moves!Backed, Moves!Backup
  <2>2. v2[v8] \notin {"old", "new"}
    BY <1>1, <2>1 DEF Moves!Placed, Moves!Backed
  <2>3. Moves!OneIsNew'
    BY <2>1 DEF Moves!OneIsNew
  <2> HIDE DEF Moves!Inv, Moves!TypeOK
  <2>4. v4 = "new" => \A b \in v3'[v8] : b.holds # "new"
    <3>1. \A b \in v3[v8] : v4 = "new" /\ b.holds = "new" => b = Moves!Backup(v4)
      BY <2>1 DEF Moves!OneIsNew, Moves!Inv, Moves!TypeOK
    <3> QED BY <2>1, <3>1
  <2>5. \A c : c # v4 => ((\E b \in v3'[v8] : b.holds = c) <=> Moves!Held(v8, c))
    <3>1. \A b \in v3[v8] : b.holds # v4 => b \in v3'[v8]
      BY <2>1
    <3>2. \A b \in v3'[v8] : b \in v3[v8]
      BY <2>1
    <3> QED BY <3>1, <3>2 DEF Moves!Held
  <2>6. Moves!Held(v8, v4)
    BY <2>1 DEF Moves!Held
  <2>7. \A i \in Moves!Items : i # v8 => \A c : Moves!Held(i, c)' <=> Moves!Held(i, c)
    BY <2>1 DEF Moves!Held
  <2>8. Moves!NothingLost'
    <3> SUFFICES ASSUME NEW i \in Moves!Items
                 PROVE  /\ "new" \in {v1'[i], v2'[i]} \/ Moves!Held(i, "new")'
                        /\ v1'[i] = "new" => v2'[i] # "new" /\ ~Moves!Held(i, "new")'
                        /\ v2'[i] = "new" => ~Moves!Held(i, "new")'
                        /\ i \in Taken => v2'[i] = "old" \/ Moves!Held(i, "old")' \/ (i \in v12' /\ v1'[i] = None)
      BY DEF Moves!NothingLost
    <3>1. v1' = v1 /\ v12' = v12
      BY <1>1
    <3>2. CASE i # v8
      BY <2>1, <2>7, <3>1, <3>2 DEF Moves!NothingLost, Moves!Inv
    <3>3. CASE i = v8
      BY <2>1, <2>2, <2>4, <2>5, <2>6, <3>1, <3>3 DEF Moves!NothingLost, Moves!Inv, Moves!Held
    <3> QED BY <3>2, <3>3
  <2> USE DEF Moves!Inv, Moves!TypeOK
  <2>9. /\ v2' \in [Moves!Items -> Moves!Contents \cup {None}]
        /\ v3' \in [Moves!Items -> SUBSET [run : 1 .. MaxRuns, holds : Moves!Contents]]
    BY <1>3, <2>1
  <2> QED BY <1>1, <2>1, <2>3, <2>8, <2>9, MovesReportedInv
<1> QED BY <1>2, <1>3 DEF Moves!Restore

LEMMA MovesDiscard == ASSUME Moves!Inv, Moves!Discard PROVE Moves!Inv'
<1> USE MovesConstants DEF Moves!Inv, Moves!TypeOK, Moves!Items, Moves!Contents, Moves!flags
<1>1. /\ v7 = "discard" /\ v1' = v1 /\ v2' = v2 /\ UNCHANGED Moves!flags /\ ~Moves!Waits
      /\ v2[v8] = "new" /\ v1[v8] = None
  BY DEF Moves!Discard, Moves!Waits, Moves!Placed
<1>2. CASE Moves!Reports("error") /\ UNCHANGED v3
  <2>1. Moves!NothingLost' /\ Moves!OneIsNew'
    BY <1>1, <1>2 DEF Moves!NothingLost, Moves!Held, Moves!OneIsNew
  <2> QED BY <1>1, <1>2, <2>1, MovesReportedInv
<1>3. CASE Moves!Reports("ok") /\ v3' = [v3 EXCEPT ![v8] = @ \ {Moves!Backup(v4)}]
  <2>1. /\ v4 # None /\ v3'[v8] = v3[v8] \ {Moves!Backup(v4)} /\ Moves!Backup(v4).holds = v4
        /\ \A i \in Moves!Items : i # v8 => v3'[i] = v3[i]
    BY <1>1, <1>3 DEF Moves!Backed, Moves!Backup
  <2>2. v3'[v8] = {} \/ v8 \in v11
    BY <2>1 DEF Moves!OwnBackup
  <2>3. Moves!OneIsNew'
    BY <2>1 DEF Moves!OneIsNew
  <2> HIDE DEF Moves!Inv, Moves!TypeOK
  <2>4. \A c : c # v4 => ((\E b \in v3'[v8] : b.holds = c) <=> Moves!Held(v8, c))
    <3>1. \A b \in v3[v8] : b.holds # v4 => b \in v3'[v8]
      BY <2>1
    <3>2. \A b \in v3'[v8] : b \in v3[v8]
      BY <2>1
    <3> QED BY <3>1, <3>2 DEF Moves!Held
  <2>5. \A i \in Moves!Items : i # v8 => \A c : Moves!Held(i, c)' <=> Moves!Held(i, c)
    BY <2>1 DEF Moves!Held
  <2>6. ~Moves!Held(v8, "new") /\ \A b \in v3'[v8] : b.holds # "new"
    <3>1. ~Moves!Held(v8, "new")
      BY <1>1 DEF Moves!NothingLost, Moves!Inv, Moves!TypeOK
    <3> QED BY <2>1, <3>1 DEF Moves!Held
  <2>7. v4 = "old" => v8 \in v12
    BY DEF Moves!Backed, Moves!Inv
  <2>8. Moves!NothingLost'
    <3> SUFFICES ASSUME NEW i \in Moves!Items
                 PROVE  /\ "new" \in {v1'[i], v2'[i]} \/ Moves!Held(i, "new")'
                        /\ v1'[i] = "new" => v2'[i] # "new" /\ ~Moves!Held(i, "new")'
                        /\ v2'[i] = "new" => ~Moves!Held(i, "new")'
                        /\ i \in Taken => v2'[i] = "old" \/ Moves!Held(i, "old")' \/ (i \in v12' /\ v1'[i] = None)
      BY DEF Moves!NothingLost
    <3>1. v1' = v1 /\ v2' = v2 /\ v12' = v12
      BY <1>1
    <3>2. CASE i # v8
      BY <2>5, <3>1, <3>2 DEF Moves!NothingLost, Moves!Inv
    <3>3. CASE i = v8
      BY <1>1, <2>4, <2>6, <2>7, <3>1, <3>3 DEF Moves!NothingLost, Moves!Inv, Moves!Held
    <3> QED BY <3>2, <3>3
  <2> USE DEF Moves!Inv, Moves!TypeOK
  <2>9. v3' \in [Moves!Items -> SUBSET [run : 1 .. MaxRuns, holds : Moves!Contents]]
    BY <1>3, <2>1
  <2> QED BY <1>1, <1>3, <2>1, <2>2, <2>3, <2>8, <2>9, MovesReportedInv
<1> QED BY <1>2, <1>3 DEF Moves!Discard

LEMMA MovesOther == ASSUME Moves!Inv, Moves!Other PROVE Moves!Inv'
<1> USE MovesConstants DEF Moves!Inv, Moves!TypeOK, Moves!Items, Moves!Contents, Moves!Waits
<1>1. PICK i \in Moves!Items : v2[i] = None /\ v2' = [v2 EXCEPT ![i] = "other"]
  BY DEF Moves!Other
<1>2. /\ UNCHANGED <<v1, v3, v4, v5, v6, v7, v8, v9, v10, v11, v12>> /\ v13' \in 0 .. MaxOthers
      /\ v2' \in [Moves!Items -> Moves!Contents \cup {None}]
      /\ \A j \in Moves!Items : \A c \in {"old", "new"} : v2'[j] = c <=> v2[j] = c
  BY <1>1 DEF Moves!Other
<1>3. Moves!TypeOK' /\ Moves!NothingLost'
  BY <1>2 DEF Moves!NothingLost, Moves!Held
<1>4. Moves!LeftoversAreTold' /\ Moves!MovedIsThere' /\ Moves!OneIsNew' /\ Moves!OwnBackup'
  BY <1>2 DEF Moves!LeftoversAreTold, Moves!MovedIsThere, Moves!OneIsNew, Moves!OwnBackup, Moves!Backup
<1>5. Moves!Shown' /\ Moves!Pending'
  BY <1>2 DEF Moves!Shown, Moves!Pending
<1>6. Moves!Placed'
  BY <1>2 DEF Moves!Placed
<1>7. Moves!Backed'
  BY <1>2 DEF Moves!Backed, Moves!Backup
<1> QED BY <1>3, <1>4, <1>5, <1>6, <1>7

LEMMA MovesNext == Moves!Inv /\ [Moves!Next]_(Moves!vars) => Moves!Inv'
<1> SUFFICES ASSUME Moves!Inv, [Moves!Next]_(Moves!vars) PROVE Moves!Inv'
  OBVIOUS
<1>1. CASE Moves!Next
  BY <1>1, MovesStart, MovesConfirm, MovesDismiss, MovesCheck, MovesPreserve, MovesMove, MovesRestore,
     MovesDiscard, MovesCut, MovesOther DEF Moves!Next
<1>2. CASE UNCHANGED Moves!vars
  <2> USE <1>2 DEF Moves!vars, Moves!Inv
  <2>1. Moves!TypeOK' /\ Moves!NothingLost' /\ Moves!LeftoversAreTold' /\ Moves!MovedIsThere'
    BY DEF Moves!TypeOK, Moves!NothingLost, Moves!Held, Moves!LeftoversAreTold, Moves!MovedIsThere, Moves!Waits
  <2>2. Moves!Shown' /\ Moves!Backed' /\ Moves!Placed'
    BY DEF Moves!Shown, Moves!Backed, Moves!Placed, Moves!Waits, Moves!Backup, Moves!Items
  <2>3. Moves!OneIsNew' /\ Moves!OwnBackup' /\ Moves!Pending'
    BY DEF Moves!OneIsNew, Moves!OwnBackup, Moves!Pending, Moves!Waits, Moves!Backup, Moves!Items
  <2> QED BY <2>1, <2>2, <2>3
<1> QED BY <1>1, <1>2

(***************************************************************************)
(* The two-panel view and its queue                                        *)
(***************************************************************************)
LEMMA FtpInit == Ftp!Init => Ftp!Inv
<1> SUFFICES ASSUME Ftp!Init PROVE Ftp!Inv
  OBVIOUS
<1> USE FtpConstants DEF Ftp!Init
<1>1. Ftp!PanelsOK
  <2>1. v6 \in [FtpPanels -> [Ftp!Paths -> Nat]]
    BY DEF Ftp!Paths
  <2>2. v4 \in [FtpPanels -> BOOLEAN] /\ v5 \in [FtpPanels -> BOOLEAN]
    OBVIOUS
  <2> QED BY <2>1, <2>2 DEF Ftp!PanelsOK, Ftp!Paths
<1>2. Ftp!QueueOK
  <2>1. v10 \in BOOLEAN /\ v11 \in BOOLEAN
    OBVIOUS
  <2>2. v8 \in Seq(Ftp!Items) /\ Len(v8) = 0
    OBVIOUS
  <2> QED BY <2>1, <2>2 DEF Ftp!QueueOK
<1>3. Ftp!NamesBelongToPath /\ Ftp!SpinnerCanStop
  BY DEF Ftp!NamesBelongToPath, Ftp!SpinnerCanStop, Ftp!InFlight, Ftp!Paths
<1>4. Ftp!OneAtATime /\ Ftp!OutcomeIsOwnRun
  BY DEF Ftp!OneAtATime, Ftp!OutcomeIsOwnRun
<1> QED BY <1>1, <1>2, <1>3, <1>4 DEF Ftp!Inv, Ftp!TypeOK

(* A request more turns the spinner, and an answer stops it. *)
LEMMA FtpLoad ==
  ASSUME Ftp!PanelsOK, Ftp!NamesBelongToPath, Ftp!SpinnerCanStop,
         NEW p \in FtpPanels, NEW at \in Ftp!Paths, Ftp!Load(p, at), UNCHANGED v1,
         v7' \in {None} \cup [panel : FtpPanels, at : Ftp!Paths]
  PROVE  Ftp!PanelsOK' /\ Ftp!NamesBelongToPath' /\ Ftp!SpinnerCanStop'
<1> USE DEF Ftp!PanelsOK, Ftp!Load, Ftp!Paths
<1>1. v6' \in [FtpPanels -> [Ftp!Paths -> Nat]]
  OBVIOUS
<1>2. v5' \in [FtpPanels -> BOOLEAN] /\ \A q \in FtpPanels : v5'[q] => v5[q] \/ q = p
  OBVIOUS
<1>3. \A q \in FtpPanels : /\ q # p => v6'[q] = v6[q]
                           /\ q = p => v6'[q]["/"] + v6'[q]["/dir"] > 0
  OBVIOUS
<1>4. Ftp!SpinnerCanStop'
  BY <1>2, <1>3 DEF Ftp!SpinnerCanStop, Ftp!InFlight
<1>5. Ftp!PanelsOK' /\ Ftp!NamesBelongToPath'
  BY <1>1, <1>2 DEF Ftp!NamesBelongToPath
<1> QED BY <1>4, <1>5

LEMMA FtpAnswered ==
  ASSUME Ftp!PanelsOK, Ftp!SpinnerCanStop,
         NEW p \in FtpPanels, NEW at \in Ftp!Paths, Ftp!Answered(p, at), v5' = [v5 EXCEPT ![p] = FALSE]
  PROVE  /\ v6' \in [FtpPanels -> [Ftp!Paths -> Nat]] /\ v5' \in [FtpPanels -> BOOLEAN]
         /\ Ftp!SpinnerCanStop'
<1> USE DEF Ftp!PanelsOK, Ftp!Answered
<1>1. v6' \in [FtpPanels -> [Ftp!Paths -> Nat]] /\ \A q \in FtpPanels : q # p => v6'[q] = v6[q]
  OBVIOUS
<1>2. v5' \in [FtpPanels -> BOOLEAN] /\ \A q \in FtpPanels : v5'[q] => v5[q] /\ q # p
  OBVIOUS
<1>3. Ftp!SpinnerCanStop'
  BY <1>1, <1>2 DEF Ftp!SpinnerCanStop, Ftp!InFlight
<1> QED BY <1>1, <1>2, <1>3

LEMMA FtpPanelStep ==
  ASSUME Ftp!Inv, UNCHANGED Ftp!queueVars,
         \/ \E p \in FtpPanels : \/ Ftp!Select(p) \/ Ftp!Start(p)
                                 \/ \E at \in Ftp!Paths : Ftp!Navigate(p, at) \/ Ftp!Loaded(p, at) \/ Ftp!LoadFails(p, at)
         \/ Ftp!OpDone \/ Ftp!OpFails \/ Ftp!Disconnect \/ Ftp!Connected
  PROVE  Ftp!Inv'
<1> DEFINE Panels == Ftp!PanelsOK /\ Ftp!NamesBelongToPath /\ Ftp!SpinnerCanStop
<1> USE FtpConstants
<1>a. Panels
  BY DEF Ftp!Inv, Ftp!TypeOK
<1>1. Ftp!QueueOK' /\ Ftp!OneAtATime' /\ Ftp!OutcomeIsOwnRun'
  BY DEF Ftp!Inv, Ftp!TypeOK, Ftp!queueVars, Ftp!QueueOK, Ftp!OneAtATime, Ftp!OutcomeIsOwnRun, Ftp!Run
<1>2. ASSUME NEW p \in FtpPanels, Ftp!Select(p) PROVE Panels'
  BY <1>a, <1>2 DEF Ftp!Select, Ftp!PanelsOK, Ftp!NamesBelongToPath, Ftp!SpinnerCanStop, Ftp!InFlight
<1>3. ASSUME NEW p \in FtpPanels, Ftp!Start(p) PROVE Panels'
  BY <1>a, <1>3 DEF Ftp!Start, Ftp!panelVars, Ftp!PanelsOK, Ftp!NamesBelongToPath, Ftp!SpinnerCanStop, Ftp!InFlight
<1>4. ASSUME NEW p \in FtpPanels, NEW at \in Ftp!Paths, Ftp!Navigate(p, at) PROVE Panels'
  BY <1>a, <1>4, FtpLoad DEF Ftp!Navigate, Ftp!PanelsOK
<1>5. ASSUME NEW p \in FtpPanels, NEW at \in Ftp!Paths, Ftp!Loaded(p, at) PROVE Panels'
  <2>1. v6' \in [FtpPanels -> [Ftp!Paths -> Nat]] /\ v5' \in [FtpPanels -> BOOLEAN] /\ Ftp!SpinnerCanStop'
    BY <1>a, <1>5, FtpAnswered DEF Ftp!Loaded
  <2>2. v4' \in [FtpPanels -> BOOLEAN]
    BY <1>a, <1>5 DEF Ftp!Loaded, Ftp!PanelsOK
  <2> QED BY <1>a, <1>5, <2>1, <2>2 DEF Ftp!Loaded, Ftp!PanelsOK, Ftp!NamesBelongToPath
<1>6. ASSUME NEW p \in FtpPanels, NEW at \in Ftp!Paths, Ftp!LoadFails(p, at) PROVE Panels'
  <2>1. v6' \in [FtpPanels -> [Ftp!Paths -> Nat]] /\ v5' \in [FtpPanels -> BOOLEAN] /\ Ftp!SpinnerCanStop'
    BY <1>a, <1>6, FtpAnswered DEF Ftp!LoadFails
  <2> QED BY <1>a, <1>6, <2>1 DEF Ftp!LoadFails, Ftp!PanelsOK, Ftp!NamesBelongToPath
<1>7. ASSUME Ftp!OpDone PROVE Panels'
  <2>1. v7.panel \in FtpPanels /\ v7.at \in Ftp!Paths
    BY <1>a, <1>7 DEF Ftp!OpDone, Ftp!PanelsOK
  <2> QED BY <1>a, <1>7, <2>1, FtpLoad DEF Ftp!OpDone
<1>8. ASSUME Ftp!OpFails PROVE Panels'
  BY <1>a, <1>8 DEF Ftp!OpFails, Ftp!panelVars, Ftp!PanelsOK, Ftp!NamesBelongToPath, Ftp!SpinnerCanStop, Ftp!InFlight
<1>9. ASSUME Ftp!Disconnect PROVE Panels'
  BY <1>a, <1>9 DEF Ftp!Disconnect, Ftp!PanelsOK, Ftp!NamesBelongToPath, Ftp!SpinnerCanStop, Ftp!InFlight, Ftp!Paths
<1>10. ASSUME Ftp!Connected PROVE Panels'
  <2>1. v6' \in [FtpPanels -> [Ftp!Paths -> Nat]] /\ \A p \in FtpPanels : v6'[p]["/"] = 1 /\ v6'[p]["/dir"] = 0
    BY <1>10 DEF Ftp!Connected, Ftp!NewPanels, Ftp!Paths
  <2>2. v4' \in [FtpPanels -> BOOLEAN] /\ v5' \in [FtpPanels -> BOOLEAN]
    BY <1>10 DEF Ftp!Connected, Ftp!NewPanels
  <2>3. Ftp!PanelsOK'
    <3>1. v2' \in [FtpPanels -> Ftp!Paths] /\ v3' \in [FtpPanels -> Ftp!Paths \cup {None}]
      BY <1>10 DEF Ftp!Connected, Ftp!NewPanels, Ftp!Paths
    <3>2. v1' = "shown" /\ v7' = v7
      BY <1>10 DEF Ftp!Connected
    <3> QED BY <1>a, <2>1, <2>2, <3>1, <3>2 DEF Ftp!PanelsOK
  <2>4. Ftp!SpinnerCanStop'
    BY <2>1 DEF Ftp!SpinnerCanStop, Ftp!InFlight
  <2>5. Ftp!NamesBelongToPath'
    BY <1>10 DEF Ftp!Connected, Ftp!NewPanels, Ftp!NamesBelongToPath
  <2> QED BY <2>3, <2>4, <2>5
<1>11. Panels'
  BY <1>2, <1>3, <1>4, <1>5, <1>6, <1>7, <1>8, <1>9, <1>10
<1> QED BY <1>1, <1>11 DEF Ftp!Inv, Ftp!TypeOK

LEMMA FtpRows == ASSUME Ftp!QueueOK PROVE \A i \in DOMAIN v8 : v8[i] \in Ftp!Items
BY DEF Ftp!QueueOK

(* A row given another status, or another run. *)
LEMMA FtpStatus ==
  ASSUME NEW row \in Ftp!Items, NEW s \in Ftp!Statuses PROVE [row EXCEPT !.status = s] \in Ftp!Items
BY DEF Ftp!Items
LEMMA FtpOutcome ==
  ASSUME NEW row \in Ftp!Items, NEW s \in Ftp!Statuses, NEW by \in {None} \cup 1 .. MaxTries
  PROVE  [row EXCEPT !.status = s, !.by = by] \in Ftp!Items
BY DEF Ftp!Items
LEMMA FtpRetried ==
  ASSUME NEW row \in Ftp!Items, row.try < MaxTries
  PROVE  [row EXCEPT !.status = "queued", !.try = @ + 1, !.by = None] \in Ftp!Items
<1>1. row.try + 1 \in 1 .. MaxTries
  BY FtpConstants DEF Ftp!Items
<1>2. "queued" \in Ftp!Statuses
  BY DEF Ftp!Statuses
<1> QED BY <1>1, <1>2 DEF Ftp!Items

(* The panels are left alone. *)
LEMMA FtpPanelsKept ==
  ASSUME Ftp!Inv, UNCHANGED <<v1, Ftp!panelVars>>, v7' = v7 \/ v7' = None
  PROVE  Ftp!PanelsOK' /\ Ftp!NamesBelongToPath' /\ Ftp!SpinnerCanStop'
BY DEF Ftp!Inv, Ftp!TypeOK, Ftp!panelVars, Ftp!PanelsOK, Ftp!NamesBelongToPath, Ftp!SpinnerCanStop, Ftp!InFlight

(* What is added to the queue waits. *)
LEMMA FtpEnqueue ==
  ASSUME Ftp!Inv, NEW dir \in {"upload", "download"}, Ftp!Enqueue(dir), UNCHANGED <<v9, v11, v12>>
  PROVE  Ftp!QueueOK' /\ Ftp!OneAtATime' /\ Ftp!OutcomeIsOwnRun'
<1> USE FtpConstants DEF Ftp!Inv, Ftp!TypeOK, Ftp!QueueOK
<1>1. Ftp!Item(dir) \in Ftp!Items
  BY DEF Ftp!Item, Ftp!Items, Ftp!Statuses
<1>2. /\ v8' \in Seq(Ftp!Items) /\ Len(v8') <= MaxItems /\ DOMAIN v8' = 1 .. Len(v8) + 1
      /\ \A i \in DOMAIN v8 : v8'[i] = v8[i]
      /\ v8'[Len(v8) + 1] = Ftp!Item(dir)
  BY <1>1 DEF Ftp!Enqueue, Ftp!Dispatched
<1>3. v10' \in BOOLEAN
  BY DEF Ftp!Enqueue, Ftp!Dispatched
<1>4. DOMAIN v8 = 1 .. Len(v8) /\ Len(v8) \in Nat
  OBVIOUS
<1>5. v12' \subseteq [id : DOMAIN v8', try : 1 .. MaxTries]
  BY <1>2, <1>4
<1>6. Ftp!QueueOK'
  BY <1>2, <1>3, <1>5
<1>7. Ftp!OneAtATime'
  BY DEF Ftp!OneAtATime
<1>8. Ftp!OutcomeIsOwnRun'
  BY <1>2, <1>4 DEF Ftp!OutcomeIsOwnRun, Ftp!Run, Ftp!Item
<1> QED BY <1>6, <1>7, <1>8

(* A row that changes without its backend: it does not run afterwards. *)
LEMMA FtpDispatch ==
  ASSUME Ftp!Inv, NEW q, Ftp!Dispatched(q), UNCHANGED <<v9, v11, v12>>,
         q \in Seq(Ftp!Items), Len(q) = Len(v8),
         \A i \in DOMAIN v8 : q[i] = v8[i] \/ q[i].status \in {"queued", "cancelled", "cleared"}
  PROVE  Ftp!QueueOK' /\ Ftp!OneAtATime' /\ Ftp!OutcomeIsOwnRun'
<1> USE DEF Ftp!Inv, Ftp!TypeOK, Ftp!QueueOK, Ftp!Dispatched
<1>1. v8' = q /\ DOMAIN v8' = DOMAIN v8
  OBVIOUS
<1>2. v10' \in BOOLEAN
  OBVIOUS
<1>3. Ftp!QueueOK'
  BY <1>1, <1>2
<1>4. Ftp!OneAtATime' /\ Ftp!OutcomeIsOwnRun'
  BY <1>1 DEF Ftp!OneAtATime, Ftp!OutcomeIsOwnRun, Ftp!Run
<1> QED BY <1>3, <1>4

LEMMA FtpUserStep ==
  ASSUME Ftp!Inv,
         \/ \E p \in FtpPanels : Ftp!Transfer(p)
         \/ \E i \in DOMAIN v8 : Ftp!Cancel(i) \/ Ftp!Retry(i)
         \/ Ftp!Dropped \/ Ftp!Clear
  PROVE  Ftp!Inv'
<1> USE FtpConstants
<1>1. ASSUME NEW p \in FtpPanels, Ftp!Transfer(p) PROVE Ftp!Inv'
  <2>1. Ftp!Direction[p] \in {"upload", "download"}
    BY FtpConstants DEF Ftp!Direction
  <2> QED BY <1>1, <2>1, FtpEnqueue, FtpPanelsKept DEF Ftp!Transfer, Ftp!Inv, Ftp!TypeOK
<1>2. ASSUME Ftp!Dropped PROVE Ftp!Inv'
  BY <1>2, FtpEnqueue, FtpPanelsKept DEF Ftp!Dropped, Ftp!Inv, Ftp!TypeOK
<1>3. ASSUME NEW i \in DOMAIN v8, Ftp!Cancel(i) PROVE Ftp!Inv'
  <2>1. [v8[i] EXCEPT !.status = "cancelled"] \in Ftp!Items
    BY FtpRows, FtpStatus DEF Ftp!Inv, Ftp!TypeOK, Ftp!Statuses
  <2>2. /\ Ftp!Status(i, "cancelled") \in Seq(Ftp!Items) /\ Len(Ftp!Status(i, "cancelled")) = Len(v8)
        /\ \A j \in DOMAIN v8 : Ftp!Status(i, "cancelled")[j] = v8[j] \/ Ftp!Status(i, "cancelled")[j].status = "cancelled"
    BY <2>1 DEF Ftp!Status, Ftp!Inv, Ftp!TypeOK, Ftp!QueueOK, Ftp!Items
  <2> QED BY <1>3, <2>2, FtpDispatch, FtpPanelsKept DEF Ftp!Cancel, Ftp!Inv, Ftp!TypeOK
<1>4. ASSUME NEW i \in DOMAIN v8, Ftp!Retry(i) PROVE Ftp!Inv'
  <2> DEFINE row == [v8[i] EXCEPT !.status = "queued", !.try = @ + 1, !.by = None]
             q == [v8 EXCEPT ![i] = row]
  <2>1. row \in Ftp!Items
    <3>1. v8[i] \in Ftp!Items
      BY FtpRows DEF Ftp!Inv, Ftp!TypeOK
    <3>2. v8[i].try < MaxTries
      BY <1>4 DEF Ftp!Retry
    <3> QED BY <3>1, <3>2, FtpRetried
  <2>2. q \in Seq(Ftp!Items) /\ Len(q) = Len(v8) /\ \A j \in DOMAIN v8 : q[j] = v8[j] \/ q[j].status = "queued"
    BY <2>1 DEF Ftp!Inv, Ftp!TypeOK, Ftp!QueueOK, Ftp!Items
  <2>3. Ftp!Dispatched(q) /\ UNCHANGED <<v9, v11, v12, v1, Ftp!panelVars, v7>>
    <3>1. UNCHANGED <<v9, v11, v12, v1, Ftp!panelVars, v7>>
      BY <1>4 DEF Ftp!Retry
    <3>2. Ftp!Dispatched(q)
      BY <1>4 DEF Ftp!Retry, Ftp!Dispatched
    <3> QED BY <3>1, <3>2
  <2> QED BY <2>2, <2>3, FtpDispatch, FtpPanelsKept DEF Ftp!Inv, Ftp!TypeOK
<1>5. ASSUME Ftp!Clear PROVE Ftp!Inv'
  <2> DEFINE q == [i \in DOMAIN v8 |-> IF v8[i].status \in {"completed", "failed", "cancelled"}
                                       THEN [v8[i] EXCEPT !.status = "cleared", !.by = None] ELSE v8[i]]
  <2>1. \A i \in DOMAIN v8 : q[i] \in Ftp!Items /\ (q[i] = v8[i] \/ q[i].status = "cleared")
    <3>1. \A i \in DOMAIN v8 : v8[i] \in Ftp!Items /\ [v8[i] EXCEPT !.status = "cleared", !.by = None] \in Ftp!Items
      BY FtpRows, FtpOutcome DEF Ftp!Inv, Ftp!TypeOK, Ftp!Statuses, Ftp!Gone
    <3>2. \A i \in DOMAIN v8 : [v8[i] EXCEPT !.status = "cleared", !.by = None].status = "cleared"
      BY <3>1 DEF Ftp!Items
    <3> QED BY <3>1, <3>2
  <2>2. DOMAIN v8 = 1 .. Len(v8) /\ Len(v8) \in Nat
    BY DEF Ftp!Inv, Ftp!TypeOK, Ftp!QueueOK
  <2>3. q \in Seq(Ftp!Items) /\ Len(q) = Len(v8)
    <3> HIDE DEF q
    <3>1. q = [i \in 1 .. Len(v8) |-> q[i]]
      BY <2>2 DEF q
    <3> QED BY <2>1, <2>2, <3>1
  <2>4. Ftp!Dispatched(q) /\ UNCHANGED <<v9, v11, v12, v1, Ftp!panelVars, v7>>
    BY <1>5 DEF Ftp!Clear, Ftp!Gone
  <2> QED BY <2>1, <2>3, <2>4, FtpDispatch, FtpPanelsKept DEF Ftp!Inv, Ftp!TypeOK
<1> QED BY <1>1, <1>2, <1>3, <1>4, <1>5

(* A row starts only when the backend has no run of this view. *)
LEMMA FtpEffects == ASSUME Ftp!Inv, Ftp!Effects PROVE Ftp!Inv'
<1> USE FtpConstants
<1>1. CASE ~v11 /\ \E i \in DOMAIN v8 : Ftp!Ready(i)
  <2> DEFINE i == CHOOSE j \in DOMAIN v8 : Ftp!Ready(j)
  <2>1. i \in DOMAIN v8 /\ Ftp!Ready(i)
    BY <1>1
  <2>2. /\ v8' = Ftp!Status(i, "transferring") /\ v10' = TRUE /\ v11' = TRUE
        /\ v12' = v12 \cup {Ftp!Run(i)} /\ v9' = Ftp!Running \cup {Ftp!Run(i)}
        /\ UNCHANGED <<v1, Ftp!panelVars, v7>>
    BY <1>1 DEF Ftp!Effects
  <2> HIDE DEF i
  <2>3. v12 = {}
    BY <1>1 DEF Ftp!Inv, Ftp!OneAtATime
  <2>4. Ftp!Running = {}
    BY <2>3 DEF Ftp!Running
  <2>5. [v8[i] EXCEPT !.status = "transferring"] \in Ftp!Items /\ Ftp!Run(i) \in [id : DOMAIN v8, try : 1 .. MaxTries]
    <3>1. v8[i] \in Ftp!Items
      BY <2>1, FtpRows DEF Ftp!Inv, Ftp!TypeOK
    <3>2. [v8[i] EXCEPT !.status = "transferring"] \in Ftp!Items
      BY <3>1, FtpStatus DEF Ftp!Statuses
    <3>3. v8[i].try \in 1 .. MaxTries
      BY <3>1 DEF Ftp!Items
    <3> QED BY <2>1, <3>2, <3>3 DEF Ftp!Run
  <2>6. /\ v8' \in Seq(Ftp!Items) /\ Len(v8') = Len(v8) /\ DOMAIN v8' = DOMAIN v8
        /\ v8'[i].status = "transferring" /\ v8'[i].try = v8[i].try
        /\ \A j \in DOMAIN v8 : j # i => v8'[j] = v8[j]
    <3>1. v8[i] \in Ftp!Items
      BY <2>1, FtpRows DEF Ftp!Inv, Ftp!TypeOK
    <3>2. v8' = [v8 EXCEPT ![i] = [v8[i] EXCEPT !.status = "transferring"]]
      BY <2>2 DEF Ftp!Status
    <3>3. [v8[i] EXCEPT !.status = "transferring"].status = "transferring" /\ [v8[i] EXCEPT !.status = "transferring"].try = v8[i].try
      BY <3>1 DEF Ftp!Items
    <3>4. v8 \in Seq(Ftp!Items)
      BY DEF Ftp!Inv, Ftp!TypeOK, Ftp!QueueOK
    <3> DEFINE row == [v8[i] EXCEPT !.status = "transferring"]
    <3>5. row \in Ftp!Items /\ v8' = [v8 EXCEPT ![i] = row] /\ row.status = "transferring" /\ row.try = v8[i].try
      BY <2>5, <3>2, <3>3
    <3> HIDE DEF row
    <3> QED BY <2>1, <3>4, <3>5
  <2>7. v10' \in BOOLEAN /\ v11' \in BOOLEAN
    BY <2>2
  <2>8. Ftp!QueueOK'
    BY <2>2, <2>3, <2>4, <2>5, <2>6, <2>7 DEF Ftp!Inv, Ftp!TypeOK, Ftp!QueueOK
  <2>9. Ftp!OneAtATime'
    BY <2>2, <2>3 DEF Ftp!OneAtATime
  <2>10. Ftp!OutcomeIsOwnRun'
    BY <2>1, <2>2, <2>4, <2>6 DEF Ftp!Inv, Ftp!OutcomeIsOwnRun, Ftp!Ready, Ftp!Run
  <2> QED BY <2>2, <2>8, <2>9, <2>10, FtpPanelsKept DEF Ftp!Inv, Ftp!TypeOK
<1>2. CASE ~(~v11 /\ \E i \in DOMAIN v8 : Ftp!Ready(i))
  <2>1. v10' = FALSE /\ v9' = Ftp!Running /\ UNCHANGED <<v8, v11, v12, v1, Ftp!panelVars, v7>>
    BY <1>2 DEF Ftp!Effects
  <2>2. Ftp!QueueOK' /\ Ftp!OneAtATime'
    BY <2>1 DEF Ftp!Inv, Ftp!TypeOK, Ftp!QueueOK, Ftp!OneAtATime, Ftp!Running
  <2>3. Ftp!OutcomeIsOwnRun'
    BY <2>1 DEF Ftp!Inv, Ftp!TypeOK, Ftp!QueueOK, Ftp!OutcomeIsOwnRun, Ftp!Running, Ftp!Run
  <2> QED BY <2>1, <2>2, <2>3, FtpPanelsKept DEF Ftp!Inv, Ftp!TypeOK
<1> QED BY <1>1, <1>2

(* An outcome reaches the row only while it shows the very run that ended. *)
LEMMA FtpLanded ==
  ASSUME Ftp!Inv, NEW f \in v12, NEW q, Ftp!Landed(f, q),
         \/ f \in v9 /\ \E s \in {"completed", "failed"} : q = Ftp!Outcome(f, s)
         \/ f \notin v9 /\ q = v8
  PROVE  Ftp!QueueOK' /\ Ftp!OneAtATime' /\ Ftp!OutcomeIsOwnRun'
<1> USE FtpConstants
<1>1. v12' = {} /\ v9' = {} /\ v11' = FALSE /\ v10' = TRUE /\ v8' = q
  BY DEF Ftp!Landed, Ftp!Inv, Ftp!TypeOK, Ftp!QueueOK, Ftp!OneAtATime
<1>2. f.id \in DOMAIN v8 /\ f.try \in 1 .. MaxTries
  BY DEF Ftp!Inv, Ftp!TypeOK, Ftp!QueueOK
<1>3. \A i \in DOMAIN v8 : v8[i].status = "transferring" => f = Ftp!Run(i) /\ f \in v9
  BY DEF Ftp!Inv, Ftp!TypeOK, Ftp!QueueOK, Ftp!OneAtATime, Ftp!OutcomeIsOwnRun
<1> DEFINE Told ==
       q \in Seq(Ftp!Items) /\ Len(q) = Len(v8) /\ \A i \in DOMAIN v8 :
         \/ q[i] = v8[i] /\ v8[i].status # "transferring"
         \/ q[i].status \in {"completed", "failed"} /\ q[i].by = q[i].try
<1>4. Told
  <2>1. CASE q = v8 /\ \A i \in DOMAIN v8 : v8[i].status # "transferring"
    BY <2>1 DEF Ftp!Inv, Ftp!TypeOK, Ftp!QueueOK
  <2>2. ASSUME NEW s \in {"completed", "failed"}, v8[f.id].status = "transferring", q = Ftp!Outcome(f, s)
        PROVE  Told
    <3> DEFINE row == [v8[f.id] EXCEPT !.status = s, !.by = f.try]
    <3>1. row \in Ftp!Items /\ row.status = s /\ row.by = row.try
      <4>1. v8[f.id] \in Ftp!Items /\ v8[f.id].try = f.try
        BY <1>2, <1>3, <2>2, FtpRows DEF Ftp!Inv, Ftp!TypeOK, Ftp!Run
      <4>2. row \in Ftp!Items
        BY <1>2, <4>1, FtpOutcome DEF Ftp!Statuses
      <4> QED BY <4>1, <4>2 DEF Ftp!Items
    <3>2. q = [v8 EXCEPT ![f.id] = row]
      BY <2>2 DEF Ftp!Outcome
    <3>3. \A i \in DOMAIN v8 : i # f.id => v8[i].status # "transferring"
      BY <1>3 DEF Ftp!Run
    <3> HIDE DEF row
    <3> QED BY <1>2, <3>1, <3>2, <3>3 DEF Ftp!Inv, Ftp!TypeOK, Ftp!QueueOK
  <2>3. v8[f.id].status # "transferring" => \A i \in DOMAIN v8 : v8[i].status # "transferring"
    BY <1>3 DEF Ftp!Run
  <2>4. CASE f \in v9 /\ \E s \in {"completed", "failed"} : q = Ftp!Outcome(f, s)
    <3>1. CASE v8[f.id].status = "transferring"
      BY <2>2, <2>4, <3>1
    <3>2. CASE v8[f.id].status # "transferring"
      BY <2>1, <2>3, <2>4, <3>2 DEF Ftp!Outcome
    <3> QED BY <3>1, <3>2
  <2>5. CASE f \notin v9 /\ q = v8
    BY <1>3, <2>1, <2>5
  <2> QED BY <2>4, <2>5
<1>5. v10' \in BOOLEAN /\ v11' \in BOOLEAN
  BY <1>1
<1>6. Ftp!QueueOK'
  BY <1>1, <1>4, <1>5 DEF Ftp!Inv, Ftp!TypeOK, Ftp!QueueOK
<1>7. Ftp!OneAtATime'
  BY <1>1 DEF Ftp!OneAtATime
<1>8. DOMAIN q = DOMAIN v8
  BY <1>4 DEF Ftp!Inv, Ftp!TypeOK, Ftp!QueueOK
<1>9. Ftp!OutcomeIsOwnRun'
  BY <1>1, <1>4, <1>8 DEF Ftp!Inv, Ftp!OutcomeIsOwnRun
<1> QED BY <1>6, <1>7, <1>9

LEMMA FtpEnds == ASSUME Ftp!Inv, NEW f \in v12, Ftp!Completes(f) \/ Ftp!Fails(f) \/ Ftp!Ignored(f) PROVE Ftp!Inv'
<1>1. Ftp!QueueOK' /\ Ftp!OneAtATime' /\ Ftp!OutcomeIsOwnRun'
  BY FtpLanded DEF Ftp!Completes, Ftp!Fails, Ftp!Ignored
<1>2. CASE UNCHANGED Ftp!panelVars
  BY <1>1, <1>2, FtpPanelsKept DEF Ftp!Completes, Ftp!Fails, Ftp!Ignored, Ftp!Landed, Ftp!Inv, Ftp!TypeOK
<1>3. ASSUME NEW p \in FtpPanels, Ftp!Load(p, v2[p]), Ftp!Completes(f) PROVE Ftp!Inv'
  <2>1. v2[p] \in Ftp!Paths /\ v7' \in {None} \cup [panel : FtpPanels, at : Ftp!Paths] /\ UNCHANGED v1
    BY <1>3 DEF Ftp!Completes, Ftp!Landed, Ftp!Inv, Ftp!TypeOK, Ftp!PanelsOK
  <2> QED BY <1>1, <1>3, <2>1, FtpLoad DEF Ftp!Inv, Ftp!TypeOK
<1> QED BY <1>2, <1>3 DEF Ftp!Completes, Ftp!Fails, Ftp!Ignored

LEMMA FtpConnecting == ASSUME Ftp!Inv, Ftp!Connecting PROVE Ftp!Inv'
<1> USE FtpConstants DEF Ftp!Connecting
<1>1. Ftp!PanelsOK' /\ Ftp!NamesBelongToPath' /\ Ftp!SpinnerCanStop'
  BY DEF Ftp!Inv, Ftp!TypeOK, Ftp!panelVars, Ftp!PanelsOK, Ftp!NamesBelongToPath, Ftp!SpinnerCanStop, Ftp!InFlight
<1>2. v10' \in BOOLEAN /\ v11' \in BOOLEAN
  OBVIOUS
<1>3. v8' \in Seq(Ftp!Items) /\ Len(v8') = 0
  OBVIOUS
<1>4. Ftp!QueueOK' /\ Ftp!OneAtATime' /\ Ftp!OutcomeIsOwnRun'
  BY <1>2, <1>3 DEF Ftp!QueueOK, Ftp!OneAtATime, Ftp!OutcomeIsOwnRun
<1> QED BY <1>1, <1>4 DEF Ftp!Inv, Ftp!TypeOK

LEMMA FtpNext == Ftp!Inv /\ [Ftp!Next]_(Ftp!vars) => Ftp!Inv'
<1> SUFFICES ASSUME Ftp!Inv, [Ftp!Next]_(Ftp!vars) PROVE Ftp!Inv'
  OBVIOUS
<1>1. ASSUME NEW p \in FtpPanels, Ftp!Select(p) \/ Ftp!Start(p) PROVE Ftp!Inv'
  BY <1>1, FtpPanelStep DEF Ftp!Select, Ftp!Start
<1>2. ASSUME NEW p \in FtpPanels, NEW at \in Ftp!Paths, Ftp!Navigate(p, at) \/ Ftp!Loaded(p, at) \/ Ftp!LoadFails(p, at)
      PROVE  Ftp!Inv'
  BY <1>2, FtpPanelStep DEF Ftp!Navigate, Ftp!Loaded, Ftp!LoadFails
<1>3. ASSUME Ftp!OpDone \/ Ftp!OpFails \/ Ftp!Disconnect \/ Ftp!Connected PROVE Ftp!Inv'
  BY <1>3, FtpPanelStep DEF Ftp!OpDone, Ftp!OpFails, Ftp!Disconnect, Ftp!Connected
<1>4. CASE UNCHANGED Ftp!vars
  <2> USE <1>4 DEF Ftp!vars, Ftp!queueVars
  <2>1. Ftp!PanelsOK' /\ Ftp!NamesBelongToPath' /\ Ftp!SpinnerCanStop'
    BY FtpPanelsKept
  <2>2. Ftp!QueueOK' /\ Ftp!OneAtATime' /\ Ftp!OutcomeIsOwnRun'
    BY DEF Ftp!Inv, Ftp!TypeOK, Ftp!QueueOK, Ftp!OneAtATime, Ftp!OutcomeIsOwnRun, Ftp!Run
  <2> QED BY <2>1, <2>2 DEF Ftp!Inv, Ftp!TypeOK
<1> QED BY <1>1, <1>2, <1>3, <1>4, FtpUserStep, FtpEffects, FtpEnds, FtpConnecting DEF Ftp!Next, Ftp!Panel, Ftp!Queue

(***************************************************************************)
(* An SFTP transfer                                                        *)
(***************************************************************************)
LEMMA SftpFinite == ASSUME NEW S PROVE Sftp!IsFiniteSet(S) <=> IsFiniteSet(S)
BY Zenon DEF Sftp!IsFiniteSet, IsFiniteSet
LEMMA SftpCardinality == ASSUME NEW S PROVE Sftp!Cardinality(S) = Cardinality(S)
BY Zenon DEF Sftp!Cardinality, Cardinality

LEMMA SftpFirst ==
  ASSUME DOMAIN v7 \subseteq Nat, DOMAIN v7 # {}
  PROVE  Sftp!First \in DOMAIN v7 /\ \A t \in DOMAIN v7 : Sftp!First <= t
<1>1. PICK s \in DOMAIN v7 : \A t \in DOMAIN v7 : <<t, s>> \notin OpToRel(<, Nat)
  BY NatLessThanWellFounded, WFMin, Zenon
<1>2. \A t \in DOMAIN v7 : ~(t < s)
  BY <1>1, Zenon DEF OpToRel
<1>3. \A t \in DOMAIN v7 : s <= t
  BY <1>2
<1> QED BY <1>3 DEF Sftp!First

(* The first range stays the first while no range comes or goes. *)
LEMMA SftpFirstKept ==
  ASSUME DOMAIN v7 \subseteq Nat, DOMAIN v7 # {}, DOMAIN v7' = DOMAIN v7
  PROVE  Sftp!First' = Sftp!First
<1>1. Sftp!First \in DOMAIN v7 /\ \A t \in DOMAIN v7 : Sftp!First <= t
  BY SftpFirst
<1>2. \E s \in DOMAIN v7' : \A t \in DOMAIN v7' : s <= t
  BY <1>1
<1>3. Sftp!First' \in DOMAIN v7' /\ \A t \in DOMAIN v7' : Sftp!First' <= t
  BY <1>2 DEF Sftp!First
<1> QED BY <1>1, <1>3

LEMMA SftpBytes ==
  ASSUME NEW o \in Nat, NEW n \in Nat
  PROVE  Sftp!Bytes(o, n) \in Seq(Nat) /\ Len(Sftp!Bytes(o, n)) = n /\ \A i \in 1 .. n : Sftp!Bytes(o, n)[i] = o + i - 1
BY DEF Sftp!Bytes

LEMMA SftpBytesJoined ==
  ASSUME NEW o \in Nat, NEW m \in Nat, NEW n \in Nat
  PROVE  Sftp!Bytes(o, m) \o Sftp!Bytes(o + m, n) = Sftp!Bytes(o, m + n)
<1> DEFINE a == Sftp!Bytes(o, m)  b == Sftp!Bytes(o + m, n)  c == Sftp!Bytes(o, m + n)
<1>0. o + m \in Nat /\ m + n \in Nat
  OBVIOUS
<1>1. a \in Seq(Nat) /\ Len(a) = m /\ \A i \in 1 .. m : a[i] = o + i - 1
  BY SftpBytes
<1>2. b \in Seq(Nat) /\ Len(b) = n /\ \A i \in 1 .. n : b[i] = o + m + i - 1
  BY <1>0, SftpBytes
<1>3. c \in Seq(Nat) /\ Len(c) = m + n /\ \A i \in 1 .. m + n : c[i] = o + i - 1
  BY <1>0, SftpBytes
<1> HIDE DEF a, b, c
<1>4. /\ a \o b \in Seq(Nat) /\ Len(a \o b) = m + n
      /\ \A i \in 1 .. m + n : (a \o b)[i] = IF i <= m THEN a[i] ELSE b[i - m]
  BY <1>1, <1>2, ConcatProperties
<1>5. ASSUME NEW i \in 1 .. m + n PROVE (a \o b)[i] = c[i]
  <2>1. CASE i <= m
    BY <1>1, <1>3, <1>4, <2>1
  <2>2. CASE i > m
    <3>1. i - m \in 1 .. n
      BY <2>2
    <3>2. b[i - m] = o + m + (i - m) - 1
      BY <1>2, <3>1
    <3>3. (a \o b)[i] = b[i - m]
      BY <1>4, <2>2
    <3>4. o + m + (i - m) - 1 = o + i - 1
      BY <2>2
    <3> QED BY <1>3, <3>2, <3>3, <3>4
  <2>3. i <= m \/ i > m
    OBVIOUS
  <2> QED BY <2>1, <2>2, <2>3
<1>6. a \o b = c
  BY <1>3, <1>4, <1>5, SeqEqual
<1> QED BY <1>6 DEF a, b, c

(* What is so for a range, counted from where it begins. *)
SftpAt(s) ==
         /\ Sftp!From(s) \in Nat /\ Sftp!Upto(s) \in Nat /\ s \in Nat /\ Len(v7[s].data) \in Nat
         /\ Sftp!Upto(s) = Sftp!From(s) + Len(v7[s].data) /\ s <= Sftp!From(s) /\ Sftp!Upto(s) <= s + Chunk
         /\ s # Sftp!First => Sftp!From(s) = s /\ Sftp!First + Chunk <= s
         /\ Sftp!From(Sftp!First) = Len(v10) /\ Sftp!First \in DOMAIN v7
         /\ v7[s].data \in Seq(Nat) /\ Sftp!First <= Len(v10)
LEMMA SftpPlaces == Sftp!TypeOK /\ ~v1 /\ Sftp!RangesInLine => \A s \in DOMAIN v7 : SftpAt(s)
<1> SUFFICES ASSUME Sftp!TypeOK, ~v1, Sftp!RangesInLine, NEW s \in DOMAIN v7 PROVE SftpAt(s)
  OBVIOUS
<1> USE SftpConstants DEF Sftp!TypeOK, Sftp!Ranges
<1>1. Sftp!First \in DOMAIN v7 /\ \A t \in DOMAIN v7 : Sftp!First <= t
  BY SftpFirst
<1>2. v7[s] \in Sftp!Ranges /\ v7[s].data \in Seq(Nat)
  OBVIOUS
<1>3. Len(v10) \in Nat /\ Len(v7[s].data) \in Nat
  BY <1>2
<1>4. s \in Nat /\ Sftp!First \in Nat /\ Chunk \in Nat
  BY <1>1
<1>5. s <= Sftp!From(s) /\ Sftp!Upto(s) <= s + Chunk /\ Sftp!First <= Sftp!From(Sftp!First)
  BY <1>1 DEF Sftp!RangesInLine
<1>6. s # Sftp!First => Sftp!From(s) = s /\ Sftp!First + Chunk <= s
  <2>1. \A t, u \in DOMAIN v7 : t < u => t + Chunk <= u
    BY DEF Sftp!RangesInLine
  <2>2. s # Sftp!First => Sftp!First < s
    BY <1>1, <1>4
  <2> QED BY <1>1, <2>1, <2>2 DEF Sftp!From
<1>7. Sftp!From(Sftp!First) = Len(v10) /\ Sftp!From(s) \in Nat
  BY <1>3, <1>4 DEF Sftp!From
<1>8. Sftp!Upto(s) = Sftp!From(s) + Len(v7[s].data) /\ Sftp!Upto(s) \in Nat
  <2>1. Sftp!Upto(s) = Sftp!From(s) + Len(v7[s].data)
    BY Zenon DEF Sftp!Upto
  <2> QED BY <1>3, <1>7, <2>1
<1> QED BY <1>1, <1>2, <1>3, <1>4, <1>5, <1>6, <1>7, <1>8 DEF SftpAt

(***************************************************************************)
(* What the other parts of the invariant make certain                      *)
(***************************************************************************)
LEMMA SftpDone ==
  Sftp!TypeOK /\ Sftp!LoopHolds /\ Sftp!WritesInLine /\ Sftp!SizeKept => Sftp!DoneIsWhole
<1> SUFFICES ASSUME Sftp!TypeOK, Sftp!LoopHolds, Sftp!WritesInLine, Sftp!SizeKept PROVE Sftp!DoneIsWhole
  OBVIOUS
<1> USE SftpConstants DEF Sftp!TypeOK
<1> SUFFICES ASSUME v5 = "done" PROVE Sftp!DoneIsWhole
  BY DEF Sftp!DoneIsWhole
<1>1. v9 \in Nat /\ v14 = None /\ v2 \in Nat /\ v8 \in Nat
  BY DEF Sftp!LoopHolds
<1>2. CASE v1
  <2>1. v6 = {} /\ v12 = v8
    BY <1>1, <1>2 DEF Sftp!LoopHolds, Sftp!WritesInLine
  <2>2. v11 = 0 .. v8 - 1
    BY <1>2, <2>1 DEF Sftp!WritesInLine
  <2>3. v3 = 0 => v2 = v8
    BY <1>1, <1>2 DEF Sftp!SizeKept
  <2> QED BY <1>2, <2>1, <2>2, <2>3 DEF Sftp!DoneIsWhole
<1>3. CASE ~v1
  BY <1>1, <1>3 DEF Sftp!LoopHolds, Sftp!SizeKept, Sftp!DoneIsWhole
<1> QED BY <1>2, <1>3

LEMMA SftpWindow ==
  /\ Sftp!TypeOK /\ Sftp!RangesInLine /\ Sftp!RequestsTrue
  /\ IsFiniteSet(Sftp!Slots) /\ Cardinality(Sftp!Slots) <= v4
  => Sftp!WindowHeld
<1> SUFFICES ASSUME Sftp!TypeOK, Sftp!RangesInLine, Sftp!RequestsTrue, IsFiniteSet(Sftp!Slots), Cardinality(Sftp!Slots) <= v4
             PROVE  Sftp!WindowHeld
  OBVIOUS
<1> SUFFICES ASSUME NEW r \in v6, ~v1 PROVE r.start \in DOMAIN v7 /\ Len(v7[r.start].data) + r.len <= Chunk
  <2> DEFINE W(r) == r.start \in DOMAIN v7 /\ Len(v7[r.start].data) + r.len <= Chunk
  <2>1. \A r \in v6 : ~v1 => W(r)
    OBVIOUS
  <2> HIDE DEF W
  <2> QED BY <2>1, SftpFinite, SftpCardinality, Zenon DEF Sftp!WindowHeld, W
<1>1. r.start \in DOMAIN v7 /\ r.offset = Sftp!Upto(r.start) /\ r.offset + r.len = r.start + Chunk
  BY DEF Sftp!RequestsTrue
<1>2. /\ Sftp!From(r.start) \in Nat /\ r.start \in Nat /\ Len(v7[r.start].data) \in Nat
      /\ Sftp!Upto(r.start) = Sftp!From(r.start) + Len(v7[r.start].data) /\ r.start <= Sftp!From(r.start)
  BY <1>1, SftpPlaces DEF SftpAt
<1>3. r.len \in Nat /\ Chunk \in Nat
  BY SftpConstants DEF Sftp!TypeOK, Sftp!Requests
<1> QED BY <1>1, <1>2, <1>3

LEMMA SftpInit == Sftp!Init => Sftp!Inv
<1> SUFFICES ASSUME Sftp!Init PROVE Sftp!Inv
  OBVIOUS
<1> USE SftpConstants DEF Sftp!Init, Sftp!NoRanges
<1>1. Sftp!TypeOK
  <2>1. v1 \in BOOLEAN /\ v13 \in BOOLEAN
    OBVIOUS
  <2>2. v10 \in Seq(Nat) /\ v7 \in [DOMAIN v7 -> Sftp!Ranges] /\ DOMAIN v7 \subseteq Nat
    OBVIOUS
  <2> QED BY <2>1, <2>2 DEF Sftp!TypeOK
<1>2. v10 = <<>> /\ Len(v10) = 0 /\ v6 = {} /\ DOMAIN v7 = {} /\ v9 = None /\ v8 = 0 /\ v5 = "setup" /\ v14 = None
  OBVIOUS
<1>3. Sftp!InOrder
  BY <1>2 DEF Sftp!InOrder, Sftp!Bytes
<1>4. Sftp!ErrorIsNext /\ Sftp!NeverStarves
  BY <1>2 DEF Sftp!ErrorIsNext, Sftp!NeverStarves
<1>5. Sftp!RangesInLine /\ Sftp!RangesTrue /\ Sftp!RequestsTrue /\ Sftp!EndSeen
  BY <1>2 DEF Sftp!RangesInLine, Sftp!RangesTrue, Sftp!RequestsTrue, Sftp!EndSeen
<1>6. Sftp!WritesInLine /\ Sftp!LoopHolds
  BY <1>2 DEF Sftp!WritesInLine, Sftp!LoopHolds
<1>7. Sftp!SizeKept
  BY <1>2 DEF Sftp!SizeKept
<1>8. IsFiniteSet(Sftp!Slots) /\ Cardinality(Sftp!Slots) <= v4
  BY <1>2, FS_EmptySet DEF Sftp!Slots
<1> QED BY <1>1, <1>3, <1>4, <1>5, <1>6, <1>7, <1>8, SftpDone, SftpWindow DEF Sftp!Inv

(***************************************************************************)
(* Steps that only move the loop                                           *)
(***************************************************************************)
LEMMA SftpFirstSame == ASSUME UNCHANGED v7 PROVE Sftp!First' = Sftp!First
BY Zenon DEF Sftp!First

(* What is left to show of a step, when the other parts make it certain. *)
SftpCore ==
  /\ Sftp!TypeOK /\ Sftp!InOrder /\ IsFiniteSet(Sftp!Slots) /\ Cardinality(Sftp!Slots) <= v4
  /\ Sftp!ErrorIsNext /\ Sftp!NeverStarves /\ Sftp!RangesInLine /\ Sftp!RangesTrue /\ Sftp!RequestsTrue
  /\ Sftp!EndSeen /\ Sftp!WritesInLine /\ Sftp!SizeKept /\ Sftp!LoopHolds
LEMMA SftpCoreIsAll == SftpCore => Sftp!Inv
BY SftpDone, SftpWindow DEF SftpCore, Sftp!Inv
LEMMA SftpCoreNext == ASSUME SftpCore' PROVE Sftp!Inv'
BY SftpCoreIsAll, PTL

LEMMA SftpQuiet ==
  ASSUME Sftp!Inv, UNCHANGED <<v1, v2, v3, v6, v7, v8, v9, v10, v11, v12>>,
         v13' \in BOOLEAN, v4' \in 1 .. MaxDepth, v4' = v4 \/ v5 = "setup",
         v5' \in {"setup", "fill", "wait", "drain", "flush", "close", "cleanup", "done", "failed"},
         v14' \in {None, "setup", "remote", "broken", "cancelled"},
         v14' = None => v14 = None,
         v14' = "remote" => v14 = "remote",
         v5' \in {"fill", "wait", "drain"} => v5 \in {"setup", "fill", "wait", "drain"},
         Sftp!LoopHolds'
  PROVE  Sftp!Inv'
<1> USE SftpConstants
<1>1. /\ Sftp!TypeOK /\ Sftp!InOrder /\ Sftp!WindowHeld /\ Sftp!ErrorIsNext /\ Sftp!RangesInLine /\ Sftp!RangesTrue
      /\ Sftp!RequestsTrue /\ Sftp!EndSeen /\ Sftp!WritesInLine /\ Sftp!SizeKept /\ Sftp!LoopHolds
  BY DEF Sftp!Inv
<1>2. Sftp!First' = Sftp!First
  BY SftpFirstSame
<1>3. Sftp!TypeOK'
  BY <1>1 DEF Sftp!TypeOK
<1>4. Sftp!InOrder' /\ Sftp!NeverStarves'
  BY <1>1 DEF Sftp!InOrder, Sftp!NeverStarves
<1>5. IsFiniteSet(Sftp!Slots') /\ Cardinality(Sftp!Slots') <= v4'
  <2>1. IsFiniteSet(Sftp!Slots) /\ Cardinality(Sftp!Slots) <= v4 /\ Sftp!Slots' = Sftp!Slots
    BY <1>1, SftpFinite, SftpCardinality DEF Sftp!WindowHeld, Sftp!Slots
  <2>2. CASE v5 = "setup"
    <3>1. Sftp!Slots = {}
      BY <1>1, <2>2 DEF Sftp!LoopHolds, Sftp!Slots
    <3> QED BY <2>1, <3>1, FS_EmptySet
  <2> QED BY <2>1, <2>2
<1>6. Sftp!ErrorIsNext'
  BY <1>1, <1>2 DEF Sftp!ErrorIsNext, Sftp!Reached
<1>7. Sftp!RangesInLine' /\ Sftp!RangesTrue' /\ Sftp!RequestsTrue'
  BY <1>1, <1>2 DEF Sftp!RangesInLine, Sftp!RangesTrue, Sftp!RequestsTrue, Sftp!From, Sftp!Upto, Sftp!Reached
<1>8. Sftp!EndSeen'
  BY <1>1, <1>2 DEF Sftp!EndSeen, Sftp!From, Sftp!Upto, Sftp!LoopHolds
<1>9. Sftp!WritesInLine' /\ Sftp!SizeKept'
  BY <1>1, <1>2 DEF Sftp!WritesInLine, Sftp!SizeKept, Sftp!From, Sftp!Upto, Sftp!Covers
<1> QED BY <1>1, <1>3, <1>4, <1>5, <1>6, <1>7, <1>8, <1>9, SftpCoreNext DEF SftpCore

LEMMA SftpQuietSteps ==
  ASSUME Sftp!Inv,
         \/ Sftp!Setup \/ Sftp!SetupFails \/ Sftp!Cancel \/ Sftp!Empty \/ Sftp!Flush \/ Sftp!Close
         \/ Sftp!Breaks \/ Sftp!Interrupted \/ Sftp!Cleanup \/ UNCHANGED Sftp!vars
  PROVE  Sftp!Inv'
<1> USE SftpConstants DEF Sftp!source, Sftp!window, Sftp!target, Sftp!Going, Sftp!Fail
<1>1. Sftp!LoopHolds /\ Sftp!TypeOK /\ Sftp!NeverStarves /\ Sftp!WritesInLine
  BY DEF Sftp!Inv
<1>2. CASE Sftp!Setup
  <2>1. v4' \in 1 .. MaxDepth
    <3>1. PICK total \in Sizes \cup {None} : v4' = Sftp!pipeline_depth(total)
      BY <1>2 DEF Sftp!Setup
    <3>2. CASE total = None
      BY <3>1, <3>2 DEF Sftp!pipeline_depth
    <3>3. CASE total \in Nat
      <4>1. (total + Chunk - 1) \div Chunk \in Nat
        BY <3>3
      <4> QED BY <3>1, <3>3, <4>1 DEF Sftp!pipeline_depth, Sftp!Least
    <3> QED BY <3>2, <3>3
  <2>2. Sftp!LoopHolds'
    BY <1>1, <1>2 DEF Sftp!LoopHolds, Sftp!Setup
  <2> QED BY <1>1, <1>2, <2>1, <2>2, SftpQuiet DEF Sftp!Setup, Sftp!TypeOK, Sftp!NeverStarves
<1>3. CASE Sftp!SetupFails
  <2>1. Sftp!LoopHolds'
    BY <1>1, <1>3 DEF Sftp!LoopHolds, Sftp!SetupFails
  <2> QED BY <1>1, <1>3, <2>1, SftpQuiet DEF Sftp!SetupFails, Sftp!TypeOK
<1>4. CASE Sftp!Cancel
  <2>1. Sftp!LoopHolds'
    BY <1>1, <1>4 DEF Sftp!LoopHolds, Sftp!Cancel
  <2> QED BY <1>1, <1>4, <2>1, SftpQuiet DEF Sftp!Cancel, Sftp!TypeOK, Sftp!NeverStarves
<1>5. CASE Sftp!Empty
  <2>1. Sftp!LoopHolds' /\ v5' = "flush" /\ v14' = v14
    BY <1>1, <1>5 DEF Sftp!LoopHolds, Sftp!Empty
  <2> QED BY <1>1, <1>5, <2>1, SftpQuiet DEF Sftp!Empty, Sftp!TypeOK, Sftp!NeverStarves
<1>6. CASE Sftp!Flush
  <2>1. Sftp!LoopHolds'
    BY <1>1, <1>6 DEF Sftp!LoopHolds, Sftp!Flush
  <2> QED BY <1>1, <1>6, <2>1, SftpQuiet DEF Sftp!Flush, Sftp!TypeOK, Sftp!NeverStarves
<1>7. CASE Sftp!Close
  <2>1. Sftp!LoopHolds'
    BY <1>1, <1>7 DEF Sftp!LoopHolds, Sftp!Close
  <2> QED BY <1>1, <1>7, <2>1, SftpQuiet DEF Sftp!Close, Sftp!TypeOK, Sftp!NeverStarves
<1>8. CASE Sftp!Breaks
  <2>1. Sftp!LoopHolds'
    BY <1>1, <1>8 DEF Sftp!LoopHolds, Sftp!Breaks
  <2> QED BY <1>1, <1>8, <2>1, SftpQuiet DEF Sftp!Breaks, Sftp!TypeOK, Sftp!NeverStarves
<1>9. CASE Sftp!Interrupted
  <2>1. Sftp!LoopHolds'
    BY <1>1, <1>9 DEF Sftp!LoopHolds, Sftp!Interrupted
  <2> QED BY <1>1, <1>9, <2>1, SftpQuiet DEF Sftp!Interrupted, Sftp!TypeOK, Sftp!NeverStarves
<1>10. CASE Sftp!Cleanup
  <2>1. Sftp!LoopHolds'
    BY <1>1, <1>10 DEF Sftp!LoopHolds, Sftp!Cleanup
  <2> QED BY <1>1, <1>10, <2>1, SftpQuiet DEF Sftp!Cleanup, Sftp!TypeOK, Sftp!NeverStarves
<1>11. CASE UNCHANGED Sftp!vars
  <2>1. Sftp!LoopHolds'
    BY <1>1, <1>11 DEF Sftp!LoopHolds, Sftp!vars
  <2> QED BY <1>1, <1>11, <2>1, SftpQuiet DEF Sftp!vars, Sftp!TypeOK, Sftp!NeverStarves
<1> QED BY <1>2, <1>3, <1>4, <1>5, <1>6, <1>7, <1>8, <1>9, <1>10, <1>11

(***************************************************************************)
(* The source changes its length; the server answers                       *)
(***************************************************************************)
LEMMA SftpResize ==
  ASSUME Sftp!Inv, NEW n \in Sizes, Sftp!Resize(n)
  PROVE  Sftp!Inv'
<1> USE SftpConstants DEF Sftp!Resize, Sftp!window, Sftp!target
<1>1. /\ Sftp!TypeOK /\ Sftp!InOrder /\ Sftp!WindowHeld /\ Sftp!ErrorIsNext /\ Sftp!NeverStarves /\ Sftp!RangesInLine
      /\ Sftp!RangesTrue /\ Sftp!RequestsTrue /\ Sftp!EndSeen /\ Sftp!WritesInLine /\ Sftp!LoopHolds
  BY DEF Sftp!Inv
<1>2. Sftp!First' = Sftp!First
  BY SftpFirstSame
<1>3. Sftp!TypeOK' /\ v3' # 0
  <2>1. v2' \in Sizes /\ v3' \in 0 .. MaxResizes /\ v3' # 0
    BY <1>1 DEF Sftp!TypeOK
  <2> QED BY <1>1, <2>1 DEF Sftp!TypeOK
<1>4. Sftp!InOrder' /\ Sftp!NeverStarves' /\ Sftp!LoopHolds' /\ Sftp!ErrorIsNext'
  BY <1>1, <1>2 DEF Sftp!InOrder, Sftp!NeverStarves, Sftp!LoopHolds, Sftp!ErrorIsNext, Sftp!Reached
<1>5. IsFiniteSet(Sftp!Slots') /\ Cardinality(Sftp!Slots') <= v4'
  BY <1>1, SftpFinite, SftpCardinality DEF Sftp!WindowHeld, Sftp!Slots
<1>6. Sftp!RangesInLine' /\ Sftp!RangesTrue' /\ Sftp!RequestsTrue'
  BY <1>1, <1>2 DEF Sftp!RangesInLine, Sftp!RangesTrue, Sftp!RequestsTrue, Sftp!From, Sftp!Upto, Sftp!Reached
<1>7. Sftp!EndSeen' /\ Sftp!WritesInLine'
  BY <1>1, <1>2 DEF Sftp!EndSeen, Sftp!WritesInLine, Sftp!From, Sftp!Upto, Sftp!Covers
<1>8. Sftp!SizeKept'
  BY <1>3 DEF Sftp!SizeKept
<1> QED BY <1>3, <1>4, <1>5, <1>6, <1>7, <1>8, SftpCoreNext DEF SftpCore

(* An answer takes the place of its request, which keeps its place in the file. *)
LEMMA SftpAnswered ==
  ASSUME Sftp!Inv, NEW r \in v6, NEW a \in {"data", "end", "error"}, NEW n \in Nat,
         Sftp!Answered(r, a, n), n <= r.len, a = "data" => n > 0, v5 \notin {"done", "failed"},
         UNCHANGED <<v1, v2, v3, v4, v5, v7, v8, v9, v10, v12, v13, v14>>,
         ~v1 => v11' = v11,
         v1 => v11' \in {v11, v11 \cup Sftp!Covers(r)} /\ (a # "error" => Sftp!Covers(r) \subseteq v11'),
         ~v1 /\ a = "data" => r.offset + n <= v2,
         ~v1 /\ a = "end" => r.offset >= v2
  PROVE  Sftp!Inv'
<1> USE SftpConstants
<1> DEFINE q == [r EXCEPT !.answer = a, !.got = n]
<1>1. /\ Sftp!TypeOK /\ Sftp!InOrder /\ Sftp!WindowHeld /\ Sftp!ErrorIsNext /\ Sftp!NeverStarves /\ Sftp!RangesInLine
      /\ Sftp!RangesTrue /\ Sftp!RequestsTrue /\ Sftp!EndSeen /\ Sftp!WritesInLine /\ Sftp!SizeKept /\ Sftp!LoopHolds
  BY DEF Sftp!Inv
<1>2. r \in Sftp!Requests
  BY <1>1 DEF Sftp!TypeOK
<1>3. /\ q \in Sftp!Requests /\ q.answer = a /\ q.got = n
      /\ q.start = r.start /\ q.offset = r.offset /\ q.len = r.len
  BY <1>2 DEF Sftp!Requests
<1>4. v6' = (v6 \ {r}) \cup {q}
  BY DEF Sftp!Answered
<1> HIDE DEF q
<1>5. \A x, y \in v6 : x.start = y.start => x = y
  BY <1>1 DEF Sftp!RequestsTrue
<1>6. \A x \in v6' : \E y \in v6 : x.start = y.start /\ x.offset = y.offset /\ x.len = y.len /\ (x = y \/ x = q)
  BY <1>3, <1>4
<1>7. \A y \in v6 : \E x \in v6' : x.start = y.start
  BY <1>3, <1>4
<1>8. Sftp!First' = Sftp!First
  BY SftpFirstSame
<1>9. Sftp!TypeOK'
  <2>1. v11' \subseteq Nat
    <3>1. Sftp!Covers(r) \subseteq Nat
      BY <1>2 DEF Sftp!Covers, Sftp!Requests
    <3> QED BY <1>1, <3>1 DEF Sftp!TypeOK
  <2>2. v6' \subseteq Sftp!Requests /\ \A x \in v6' : x.got <= x.len /\ (x.answer = "data" => x.got > 0)
    BY <1>1, <1>3, <1>4 DEF Sftp!TypeOK
  <2> QED BY <1>1, <2>1, <2>2 DEF Sftp!TypeOK
<1>10. Sftp!InOrder' /\ Sftp!NeverStarves' /\ Sftp!ErrorIsNext'
  BY <1>1, <1>8 DEF Sftp!InOrder, Sftp!NeverStarves, Sftp!ErrorIsNext, Sftp!Reached
<1>11. IsFiniteSet(Sftp!Slots') /\ Cardinality(Sftp!Slots') <= v4'
  <2>1. IsFiniteSet(Sftp!Slots) /\ Cardinality(Sftp!Slots) <= v4
    BY <1>1, SftpFinite, SftpCardinality DEF Sftp!WindowHeld
  <2>2. CASE ~v1
    BY <2>1, <2>2 DEF Sftp!Slots
  <2>3. CASE v1
    <3>1. IsFiniteSet(v6) /\ Cardinality(v6) <= v4 /\ Sftp!Slots' = v6'
      BY <2>1, <2>3 DEF Sftp!Slots
    <3>2. IsFiniteSet(v6 \ {r}) /\ Cardinality(v6 \ {r}) = Cardinality(v6) - 1
      BY <3>1, FS_RemoveElement
    <3>3. q \notin v6 \ {r}
      BY <1>3, <1>5
    <3>4. IsFiniteSet(v6') /\ Cardinality(v6') = Cardinality(v6 \ {r}) + 1
      BY <1>4, <3>2, <3>3, FS_AddElement
    <3>5. Cardinality(v6) \in Nat /\ v4 \in Nat
      BY <1>1, <3>1, FS_CardinalityType DEF Sftp!TypeOK
    <3> QED BY <3>1, <3>2, <3>4, <3>5
  <2> QED BY <2>2, <2>3
<1>12. Sftp!RangesInLine' /\ Sftp!EndSeen'
  BY <1>1, <1>8 DEF Sftp!RangesInLine, Sftp!EndSeen, Sftp!From, Sftp!Upto
<1>13. Sftp!RangesTrue'
  <2>1. \A s : (\E x \in v6' : x.start = s) <=> (\E y \in v6 : y.start = s)
    BY <1>6, <1>7
  <2> QED BY <1>1, <1>8, <2>1 DEF Sftp!RangesTrue, Sftp!From, Sftp!Upto, Sftp!Reached
<1>14. Sftp!RequestsTrue'
  <2>1. \A x, y \in v6' : x.start = y.start => x = y
    BY <1>3, <1>4, <1>5
  <2> QED BY <1>1, <1>6, <1>8, <2>1 DEF Sftp!RequestsTrue, Sftp!From, Sftp!Upto
<1>15. Sftp!WritesInLine'
  <2> SUFFICES ASSUME v1 PROVE Sftp!WritesInLine'
    BY DEF Sftp!WritesInLine
  <2>1. Sftp!Covers(r) \subseteq 0 .. v8 - 1
    <3>1. r.offset = r.start /\ r.start + r.len <= v8
      BY <1>1 DEF Sftp!WritesInLine
    <3>2. r.offset \in Nat /\ r.len \in Nat /\ v8 \in Nat
      BY <1>1, <1>2 DEF Sftp!Requests, Sftp!TypeOK
    <3>3. \A i \in 0 .. r.len - 1 : r.offset + i \in 0 .. v8 - 1
      BY <3>1, <3>2
    <3> QED BY <3>3 DEF Sftp!Covers
  <2>2. v11' \subseteq 0 .. v8' - 1 /\ 0 .. v12' - 1 \subseteq v11' /\ v11 \subseteq v11'
    BY <1>1, <2>1 DEF Sftp!WritesInLine
  <2>3. ASSUME NEW x \in v6'
        PROVE  /\ x.offset = x.start /\ v12 <= x.start /\ x.start + x.len <= v8
               /\ x.answer \notin {"none", "error"} => Sftp!Covers(x) \subseteq v11'
               /\ x.start + x.len = v8 \/ \E y \in v6' : y.start = x.start + x.len
    <3>1. PICK y \in v6 : x.start = y.start /\ x.offset = y.offset /\ x.len = y.len /\ (x = y \/ x = q)
      BY <1>6
    <3>2. /\ x.offset = x.start /\ v12 <= x.start /\ x.start + x.len <= v8
          /\ x.start + x.len = v8 \/ \E z \in v6 : z.start = x.start + x.len
      BY <1>1, <3>1 DEF Sftp!WritesInLine
    <3>3. x.answer \notin {"none", "error"} => Sftp!Covers(x) \subseteq v11'
      <4>1. CASE x = q
        <5>1. Sftp!Covers(x) = Sftp!Covers(r)
          BY <1>3, <4>1 DEF Sftp!Covers
        <5> QED BY <1>3, <4>1, <5>1
      <4>2. CASE x = y
        BY <1>1, <2>2, <4>2 DEF Sftp!WritesInLine
      <4> QED BY <3>1, <4>1, <4>2
    <3> QED BY <1>7, <3>2, <3>3
  <2>4. \A x, y \in v6' : x.start < y.start => x.start + x.len <= y.start
    BY <1>1, <1>6 DEF Sftp!WritesInLine
  <2>5. v14 = None => v12 = v8 \/ \E x \in v6' : x.start = v12
    BY <1>1, <1>7 DEF Sftp!WritesInLine
  <2>6. DOMAIN v7' = {} /\ v10' = <<>>
    BY <1>1 DEF Sftp!WritesInLine
  <2> QED BY <2>2, <2>3, <2>4, <2>5, <2>6 DEF Sftp!WritesInLine, Sftp!Covers
<1>16. Sftp!SizeKept'
  BY <1>1, <1>3, <1>4, <1>8 DEF Sftp!SizeKept, Sftp!From, Sftp!Upto
<1>17. Sftp!LoopHolds'
  <2>1. v6' # {} /\ v6 # {}
    BY <1>4
  <2> QED BY <1>1, <2>1 DEF Sftp!LoopHolds
<1> QED BY <1>9, <1>10, <1>11, <1>12, <1>13, <1>14, <1>15, <1>16, <1>17, SftpCoreNext DEF SftpCore

LEMMA SftpAnswers == ASSUME Sftp!Inv, Sftp!Answers PROVE Sftp!Inv'
<1> USE SftpConstants DEF Sftp!source
<1>1. PICK r \in v6 : Sftp!AnswersData(r) \/ Sftp!AnswersEnd(r) \/ Sftp!AnswersWrite(r) \/ Sftp!Refuses(r)
  BY DEF Sftp!Answers
<1>2. v5 \notin {"done", "failed"} /\ UNCHANGED <<v1, v2, v3, v4, v5, v7, v8, v9, v10, v12, v13, v14>>
  BY DEF Sftp!Answers, Sftp!Ended
<1>3. r \in Sftp!Requests /\ v2 \in Nat /\ v1 \in BOOLEAN
  BY DEF Sftp!Inv, Sftp!TypeOK
<1>3a. r.len \in Nat \ {0} /\ r.offset \in Nat
  BY <1>3 DEF Sftp!Requests
<1>4. CASE Sftp!AnswersData(r)
  <2>1. PICK n \in 1 .. Sftp!Least(r.len, v2 - r.offset) : Sftp!Answered(r, "data", n)
    BY <1>4 DEF Sftp!AnswersData
  <2>2. n \in Nat /\ n > 0 /\ n <= r.len /\ r.offset + n <= v2
    BY <1>3, <1>3a DEF Sftp!Least
  <2>3. ~v1 /\ v11' = v11
    BY <1>4 DEF Sftp!AnswersData
  <2> QED BY <1>2, <2>1, <2>2, <2>3, SftpAnswered
<1>5. CASE Sftp!AnswersEnd(r)
  BY <1>2, <1>3a, <1>5, SftpAnswered DEF Sftp!AnswersEnd
<1>6. CASE Sftp!AnswersWrite(r)
  BY <1>2, <1>3a, <1>6, SftpAnswered DEF Sftp!AnswersWrite
<1>7. CASE Sftp!Refuses(r)
  BY <1>2, <1>3a, <1>7, SftpAnswered DEF Sftp!Refuses
<1> QED BY <1>1, <1>4, <1>5, <1>6, <1>7

(***************************************************************************)
(* A download asks for a range more                                        *)
(***************************************************************************)
LEMMA SftpFirstIs ==
  ASSUME NEW s \in DOMAIN v7', DOMAIN v7' \subseteq Nat, \A t \in DOMAIN v7' : s <= t
  PROVE  Sftp!First' = s
<1>1. Sftp!First' \in DOMAIN v7' /\ \A t \in DOMAIN v7' : Sftp!First' <= t
  BY DEF Sftp!First
<1> QED BY <1>1

LEMMA SftpAsks ==
  ASSUME Sftp!Inv, v5 = "fill", ~v1, v9 = None, Cardinality(DOMAIN v7) < v4, NEW m, m = v8,
         v7' = [s \in DOMAIN v7 \cup {m} |-> IF s = m THEN Sftp!NewRange ELSE v7[s]],
         v6' = v6 \cup {Sftp!Request(m, m, Chunk)}, v8' = m + Chunk,
         UNCHANGED <<v1, v2, v3, v4, v5, v9, v10, v11, v12, v13, v14>>
  PROVE  Sftp!Inv'
<1> USE SftpConstants
<1> DEFINE q == Sftp!Request(m, m, Chunk)
<1>1. /\ Sftp!TypeOK /\ Sftp!InOrder /\ Sftp!WindowHeld /\ Sftp!ErrorIsNext /\ Sftp!NeverStarves /\ Sftp!RangesInLine
      /\ Sftp!RangesTrue /\ Sftp!RequestsTrue /\ Sftp!EndSeen /\ Sftp!WritesInLine /\ Sftp!SizeKept /\ Sftp!LoopHolds
  BY DEF Sftp!Inv
<1>2. /\ m \in Nat /\ Chunk \in Nat \ {0} /\ DOMAIN v7 \subseteq Nat /\ Len(v10) \in Nat
      /\ v7 \in [DOMAIN v7 -> Sftp!Ranges]
  BY <1>1 DEF Sftp!TypeOK
<1>3. /\ q \in Sftp!Requests /\ q.start = m /\ q.offset = m /\ q.len = Chunk /\ q.answer = "none" /\ q.got = 0
  BY <1>2 DEF Sftp!Request, Sftp!Requests
<1>4. v6' = v6 \cup {q}
  OBVIOUS
<1> HIDE DEF q
<1>5. \A s \in DOMAIN v7 : SftpAt(s) /\ s + Chunk <= m /\ (s + Chunk = m \/ s + Chunk \in DOMAIN v7)
  BY <1>1, SftpPlaces DEF Sftp!RangesInLine
<1>6. m \notin DOMAIN v7 /\ \A s \in DOMAIN v7 : s < m
  <2>1. ASSUME NEW s \in DOMAIN v7 PROVE s < m
    <3>1. s \in Nat /\ s + Chunk <= m
      BY <1>2, <1>5
    <3> QED BY <1>2, <3>1
  <2> QED BY <1>2, <2>1
<1>7. DOMAIN v7' = DOMAIN v7 \cup {m} /\ \A s \in DOMAIN v7 : v7'[s] = v7[s]
  BY <1>6
<1>8. v7'[m].data = <<>> /\ v7'[m].complete = FALSE /\ v7'[m].error = None
  BY DEF Sftp!NewRange
<1>9. Sftp!From(m)' = m /\ \A s \in DOMAIN v7 : Sftp!From(s)' = Sftp!From(s)
  <2>1. CASE DOMAIN v7 = {}
    <3>1. Len(v10) = m
      BY <1>1, <2>1 DEF Sftp!RangesInLine
    <3> QED BY <2>1, <3>1 DEF Sftp!From
  <2>2. CASE DOMAIN v7 # {}
    <3>1. Sftp!First \in DOMAIN v7 /\ \A t \in DOMAIN v7 : Sftp!First <= t
      BY <1>2, <2>2, SftpFirst
    <3>2. Sftp!First \in DOMAIN v7' /\ \A t \in DOMAIN v7' : Sftp!First <= t
      BY <1>2, <1>6, <1>7, <3>1
    <3>3. Sftp!First' = Sftp!First
      BY <1>2, <1>7, <3>2, SftpFirstIs
    <3> QED BY <1>6, <3>1, <3>3 DEF Sftp!From
  <2> QED BY <2>1, <2>2
<1>10. Sftp!Upto(m)' = m /\ \A s \in DOMAIN v7 : Sftp!Upto(s)' = Sftp!Upto(s)
  BY <1>2, <1>7, <1>8, <1>9 DEF Sftp!Upto
<1>11. Sftp!TypeOK'
  <2>1. v6' \subseteq Sftp!Requests /\ \A x \in v6' : x.got <= x.len /\ (x.answer = "data" => x.got > 0)
    BY <1>1, <1>2, <1>3, <1>4 DEF Sftp!TypeOK
  <2>2. v7' \in [DOMAIN v7' -> Sftp!Ranges] /\ DOMAIN v7' \subseteq Nat
    BY <1>2, <1>7 DEF Sftp!NewRange, Sftp!Ranges
  <2>3. v8' \in Nat
    BY <1>2
  <2> QED BY <1>1, <2>1, <2>2, <2>3 DEF Sftp!TypeOK
<1>12. IsFiniteSet(Sftp!Slots') /\ Cardinality(Sftp!Slots') <= v4'
  <2>1. IsFiniteSet(DOMAIN v7)
    BY <1>1, SftpFinite DEF Sftp!WindowHeld, Sftp!Slots
  <2>2. IsFiniteSet(DOMAIN v7') /\ Cardinality(DOMAIN v7') = Cardinality(DOMAIN v7) + 1
    BY <1>6, <1>7, <2>1, FS_AddElement
  <2>3. Cardinality(DOMAIN v7) \in Nat /\ v4 \in Nat
    BY <1>1, <2>1, FS_CardinalityType DEF Sftp!TypeOK
  <2> QED BY <2>2, <2>3 DEF Sftp!Slots
<1>13. Sftp!RangesInLine'
  <2>1. \A s \in DOMAIN v7' : s + Chunk = v8' \/ s + Chunk \in DOMAIN v7'
    BY <1>5, <1>7
  <2>2. \A s, t \in DOMAIN v7' : s < t => s + Chunk <= t
    <3>1. \A s, t \in DOMAIN v7 : s < t => s + Chunk <= t
      BY <1>1 DEF Sftp!RangesInLine
    <3> QED BY <1>2, <1>5, <1>6, <1>7, <3>1
  <2>3. \A s \in DOMAIN v7 : s + Chunk <= v8' /\ s <= Sftp!From(s)' /\ Sftp!Upto(s)' <= s + Chunk
    BY <1>2, <1>5, <1>9, <1>10 DEF SftpAt
  <2>4. m + Chunk <= v8' /\ m <= Sftp!From(m)' /\ Sftp!Upto(m)' <= m + Chunk
    BY <1>2, <1>9, <1>10
  <2> QED BY <1>7, <2>1, <2>2, <2>3, <2>4 DEF Sftp!RangesInLine
<1>14. Sftp!RangesTrue'
  <2> DEFINE R(s) ==
        /\ v7[s].data = Sftp!Bytes(Sftp!From(s), Len(v7[s].data))
        /\ v7[s].error # None => v7[s].complete /\ v7[s].error = Sftp!Upto(s)
        /\ v7[s].complete /\ v7[s].error = None => Sftp!Upto(s) = s + Chunk \/ Sftp!Reached(Sftp!Upto(s))
        /\ ~v7[s].complete <=> \E x \in v6 : x.start = s
  <2>1. ASSUME NEW s \in DOMAIN v7 PROVE R(s)'
    <3>1. R(s)
      BY <1>1 DEF Sftp!RangesTrue
    <3>2. (\E x \in v6' : x.start = s) <=> (\E x \in v6 : x.start = s)
      BY <1>3, <1>4, <1>6
    <3> QED BY <1>7, <1>9, <1>10, <3>1, <3>2 DEF Sftp!Reached
  <2>2. R(m)'
    BY <1>3, <1>4, <1>8 DEF Sftp!Bytes
  <2> HIDE DEF R
  <2>3. (\A s \in DOMAIN v7 : R(s))'
    BY <1>7, <2>1, <2>2
  <2> QED BY <2>3 DEF Sftp!RangesTrue, R
<1>15. Sftp!RequestsTrue'
  <2>1. \A x \in v6 : x.start \in DOMAIN v7 /\ x.offset = Sftp!Upto(x.start) /\ x.offset + x.len = x.start + Chunk
    BY <1>1 DEF Sftp!RequestsTrue
  <2>2. \A x, y \in v6' : x.start = y.start => x = y
    BY <1>1, <1>3, <1>4, <1>6, <2>1 DEF Sftp!RequestsTrue
  <2>3. \A x \in v6' : x.start \in DOMAIN v7' /\ x.offset = Sftp!Upto(x.start)' /\ x.offset + x.len = x.start + Chunk
    BY <1>3, <1>4, <1>7, <1>10, <2>1
  <2> QED BY <2>2, <2>3 DEF Sftp!RequestsTrue
<1>16. Sftp!InOrder' /\ Sftp!NeverStarves' /\ Sftp!EndSeen' /\ Sftp!WritesInLine' /\ Sftp!LoopHolds'
  BY <1>1, <1>4 DEF Sftp!InOrder, Sftp!NeverStarves, Sftp!EndSeen, Sftp!WritesInLine, Sftp!LoopHolds
<1>17. Sftp!ErrorIsNext'
  BY <1>1 DEF Sftp!ErrorIsNext, Sftp!LoopHolds
<1>18. Sftp!SizeKept'
  <2> SUFFICES ASSUME v3 = 0 PROVE Sftp!SizeKept'
    BY DEF Sftp!SizeKept
  <2>1. \A s \in DOMAIN v7' : v7'[s].data # <<>> => Sftp!Upto(s)' <= v2
    BY <1>1, <1>7, <1>8, <1>10 DEF Sftp!SizeKept
  <2>2. \A x \in v6' : (x.answer = "data" => x.offset + x.got <= v2) /\ (x.answer = "end" => x.offset >= v2)
    BY <1>1, <1>3, <1>4 DEF Sftp!SizeKept
  <2> QED BY <1>1, <2>1, <2>2 DEF Sftp!SizeKept
<1> QED BY <1>11, <1>12, <1>13, <1>14, <1>15, <1>16, <1>17, <1>18, SftpCoreNext DEF SftpCore

LEMMA SftpFillReads == ASSUME Sftp!Inv, Sftp!FillReads PROVE Sftp!Inv'
<1> USE SftpConstants DEF Sftp!FillReads, Sftp!source, Sftp!target
<1>1. Sftp!TypeOK /\ Sftp!LoopHolds /\ Sftp!NeverStarves /\ v5 = "fill" /\ ~v1
  BY DEF Sftp!Inv
<1>2. Sftp!Cardinality(DOMAIN v7) = Cardinality(DOMAIN v7)
  BY SftpCardinality
<1>3. CASE v9 = None /\ Cardinality(DOMAIN v7) < v4
  <2>1. PICK m : m = v8
    OBVIOUS
  <2> QED BY <1>1, <1>2, <1>3, <2>1, SftpAsks
<1>4. CASE ~(v9 = None /\ Cardinality(DOMAIN v7) < v4)
  <2>1. v5' = "wait" /\ UNCHANGED <<v1, v2, v3, v4, v6, v7, v8, v9, v10, v11, v12, v13, v14>>
    BY <1>2, <1>4
  <2>2. v6 # {}
    <3>1. CASE DOMAIN v7 = {} /\ v9 = None
      <4>1. Cardinality(DOMAIN v7) = 0 /\ v4 \in 1 .. MaxDepth
        BY <1>1, <3>1, FS_EmptySet DEF Sftp!TypeOK
      <4> QED BY <1>4, <3>1, <4>1
    <3> QED BY <1>1, <3>1 DEF Sftp!LoopHolds
  <2>3. Sftp!LoopHolds'
    BY <1>1, <2>1, <2>2 DEF Sftp!LoopHolds
  <2>4. v13' \in BOOLEAN /\ v4' \in 1 .. MaxDepth /\ v14' \in {None, "setup", "remote", "broken", "cancelled"}
    BY <1>1, <2>1 DEF Sftp!TypeOK, Sftp!NeverStarves
  <2> QED BY <1>1, <2>1, <2>3, <2>4, SftpQuiet
<1> QED BY <1>3, <1>4

(***************************************************************************)
(* A download takes an answer, and writes what the first range holds       *)
(***************************************************************************)
(* What is so of one range, and of the requests for it. *)
SftpRange(s) ==
  /\ v7[s].data = Sftp!Bytes(Sftp!From(s), Len(v7[s].data))
  /\ v7[s].error # None => v7[s].complete /\ v7[s].error = Sftp!Upto(s)
  /\ v7[s].complete /\ v7[s].error = None => Sftp!Upto(s) = s + Chunk \/ Sftp!Reached(Sftp!Upto(s))
  /\ ~v7[s].complete <=> \E r \in v6 : r.start = s
LEMMA SftpRanges == (~v1 => \A s \in DOMAIN v7 : SftpRange(s)) <=> Sftp!RangesTrue
BY Zenon DEF SftpRange, Sftp!RangesTrue
LEMMA SftpRangesNext == ASSUME (~v1 => \A s \in DOMAIN v7 : SftpRange(s))' PROVE Sftp!RangesTrue'
BY SftpRanges, PTL

(* Every range begins where the file has come to, or after. *)
LEMMA SftpFromWritten == Sftp!TypeOK /\ ~v1 /\ Sftp!RangesInLine => \A s \in DOMAIN v7 : Sftp!From(s) >= Len(v10)
<1> SUFFICES ASSUME Sftp!TypeOK, ~v1, Sftp!RangesInLine, NEW s \in DOMAIN v7 PROVE Sftp!From(s) >= Len(v10)
  OBVIOUS
<1> DEFINE f == Sftp!First
<1>1. SftpAt(s) /\ f \in DOMAIN v7
  BY SftpPlaces DEF SftpAt
<1>2. SftpAt(f)
  BY <1>1, SftpPlaces
<1> HIDE DEF f
<1>3. Len(v10) \in Nat /\ Sftp!From(s) \in Nat /\ Chunk \in Nat /\ f \in Nat
  BY <1>1, <1>2, SftpConstants DEF SftpAt, Sftp!TypeOK
<1>4. CASE s = f
  BY <1>1, <1>3, <1>4 DEF SftpAt, f
<1>5. CASE s # f
  <2>1. Sftp!From(s) = s /\ f + Chunk <= s
    BY <1>1, <1>5 DEF SftpAt, f
  <2>2. Len(v10) <= f + Chunk
    BY <1>2, <1>3 DEF SftpAt, f
  <2> QED BY <1>3, <2>1, <2>2
<1> QED BY <1>4, <1>5

(* The answer to r adds n bytes to its range, which becomes g; rest is the request for  *)
(* what is still missing.                                                               *)
SftpTaking(r, k, n, g, rest) ==
  /\ v5 = "wait" /\ ~v1 /\ r \in v6 /\ k = r.start /\ n \in Nat /\ n <= r.len
  /\ g \in Sftp!Ranges /\ v7' = [v7 EXCEPT ![k] = g]
  /\ g.data = v7[k].data \o Sftp!Bytes(r.offset, n)
  /\ n > 0 => r.answer = "data" /\ n = r.got
  /\ g.error # None => g.complete /\ g.error = r.offset + n
  /\ g.complete /\ g.error = None => r.offset + n = k + Chunk \/ (v9' # None /\ r.offset + n >= v9')
  /\ ~g.complete <=> rest # {}
  /\ v9' \in Nat \cup {None} /\ (v9 # None => v9' # None /\ v9' <= v9)
  /\ v9' # v9 => r.answer = "end" /\ v9' = r.offset /\ n = 0 /\ g.complete /\ g.error = None
  /\ v5' = "drain" /\ UNCHANGED <<v1, v2, v3, v4, v8, v10, v11, v12, v13, v14>>
SftpRest(r, k, n, rest) ==
  /\ rest \subseteq Sftp!Requests /\ v6' = (v6 \ {r}) \cup rest
  /\ \A x, y \in rest : x = y
  /\ \A x \in rest : /\ x.start = k /\ x.answer = "none" /\ x.got = 0
                     /\ x.offset = r.offset + n /\ x.offset + x.len = k + Chunk
LEMMA SftpTakes ==
  ASSUME Sftp!Inv, NEW r, NEW k, NEW n, NEW g, NEW rest, SftpTaking(r, k, n, g, rest), SftpRest(r, k, n, rest)
  PROVE  Sftp!Inv'
<1>1. /\ Sftp!TypeOK /\ Sftp!InOrder /\ Sftp!WindowHeld /\ Sftp!ErrorIsNext /\ Sftp!NeverStarves /\ Sftp!RangesInLine
      /\ Sftp!RangesTrue /\ Sftp!RequestsTrue /\ Sftp!EndSeen /\ Sftp!WritesInLine /\ Sftp!SizeKept /\ Sftp!LoopHolds
  BY DEF Sftp!Inv
<1>0. /\ v5 = "wait" /\ ~v1 /\ r \in v6 /\ k = r.start /\ n \in Nat /\ n <= r.len
      /\ v5' = "drain" /\ UNCHANGED <<v1, v2, v3, v4, v8, v10, v11, v12, v13, v14>>
  BY DEF SftpTaking
<1>2. /\ r \in Sftp!Requests /\ Chunk \in Nat \ {0} /\ DOMAIN v7 \subseteq Nat /\ Len(v10) \in Nat
      /\ v7 \in [DOMAIN v7 -> Sftp!Ranges] /\ v2 \in Nat
  BY <1>0, <1>1, SftpConstants DEF Sftp!TypeOK
<1>3. r.offset \in Nat /\ r.len \in Nat \ {0} /\ k \in DOMAIN v7 /\ k \in Nat
  <2>1. r.start \in DOMAIN v7
    BY <1>0, <1>1 DEF Sftp!RequestsTrue
  <2>2. r.offset \in Nat /\ r.len \in 1 .. Chunk
    BY <1>2 DEF Sftp!Requests
  <2> QED BY <1>0, <1>2, <2>1, <2>2
<1>4. r.offset = Sftp!Upto(k) /\ r.offset + r.len = k + Chunk
  BY <1>0, <1>1 DEF Sftp!RequestsTrue
<1>5. /\ DOMAIN v7' = DOMAIN v7 /\ v7'[k] = g /\ \A s \in DOMAIN v7 : s # k => v7'[s] = v7[s]
      /\ g \in Sftp!Ranges /\ v7' = [v7 EXCEPT ![k] = g]
  BY <1>3 DEF SftpTaking
<1>6. Sftp!First' = Sftp!First
  BY <1>2, <1>3, <1>5, SftpFirstKept
<1>7. \A s : Sftp!From(s)' = Sftp!From(s)
  BY <1>0, <1>6 DEF Sftp!From
<1>8. \A s \in DOMAIN v7 : SftpAt(s)
  BY <1>0, <1>1, SftpPlaces
<1>9. /\ Len(g.data) = Len(v7[k].data) + n
      /\ g.data = Sftp!Bytes(Sftp!From(k), Len(g.data))
  <2> DEFINE d == v7[k].data  m == Len(d)  o == Sftp!From(k)  e == Sftp!Bytes(r.offset, n)
  <2>1. o \in Nat /\ m \in Nat /\ d \in Seq(Nat) /\ r.offset = o + m
    BY <1>3, <1>4, <1>8 DEF SftpAt
  <2>2. d = Sftp!Bytes(o, m)
    BY <1>0, <1>1, <1>3 DEF Sftp!RangesTrue
  <2>3. e \in Seq(Nat) /\ Len(e) = n
    BY <1>0, <1>3, SftpBytes
  <2>4. g.data = d \o e
    BY DEF SftpTaking
  <2>5. Sftp!Bytes(o, m) \o Sftp!Bytes(o + m, n) = Sftp!Bytes(o, m + n)
    BY <1>0, <2>1, SftpBytesJoined
  <2>6. d \o e = Sftp!Bytes(o, m + n)
    BY <2>1, <2>2, <2>5
  <2> HIDE DEF d, e, o
  <2>7. Len(d \o e) = m + n
    BY <2>1, <2>3, ConcatProperties
  <2> QED BY <2>4, <2>6, <2>7 DEF d, o
<1>10. /\ Sftp!Upto(k)' = r.offset + n
       /\ \A s \in DOMAIN v7 : s # k => Sftp!Upto(s)' = Sftp!Upto(s)
  <2>1. Sftp!Upto(k) = Sftp!From(k) + Len(v7[k].data) /\ Sftp!From(k) \in Nat /\ Len(v7[k].data) \in Nat
    BY <1>3, <1>8 DEF SftpAt
  <2>2. Sftp!Upto(k)' = Sftp!From(k) + (Len(v7[k].data) + n)
    BY <1>0, <1>5, <1>7, <1>9 DEF Sftp!Upto
  <2>3. \A s \in DOMAIN v7 : s # k => Sftp!Upto(s)' = Sftp!Upto(s)
    BY <1>0, <1>5, <1>7 DEF Sftp!Upto
  <2>4. Sftp!Upto(k)' = r.offset + n
    BY <1>0, <1>4, <2>1, <2>2
  <2> QED BY <2>3, <2>4
<1>11. \A x \in v6 : x # r => x.start # k
  BY <1>0, <1>1 DEF Sftp!RequestsTrue
<1>12. v6' = (v6 \ {r}) \cup rest /\ (~g.complete <=> rest # {}) /\ \A x \in rest : x.start = k
  BY DEF SftpTaking, SftpRest
<1>13. ~v7[k].complete
  BY <1>0, <1>1, <1>3 DEF Sftp!RangesTrue
<1>14. Sftp!TypeOK'
  <2>1. v6' \subseteq Sftp!Requests /\ \A x \in v6' : x.got <= x.len /\ (x.answer = "data" => x.got > 0)
    <3>1. \A x \in v6 : x \in Sftp!Requests /\ x.got <= x.len /\ (x.answer = "data" => x.got > 0)
      BY <1>1 DEF Sftp!TypeOK
    <3>2. \A x \in rest : x \in Sftp!Requests /\ x.got <= x.len /\ (x.answer = "data" => x.got > 0)
      BY DEF SftpRest, Sftp!Requests
    <3> QED BY <1>12, <3>1, <3>2
  <2>2. v7' \in [DOMAIN v7' -> Sftp!Ranges] /\ DOMAIN v7' \subseteq Nat
    BY <1>2, <1>3, <1>5
  <2>3. v9' \in Nat \cup {None}
    BY DEF SftpTaking
  <2> QED BY <1>0, <1>1, <2>1, <2>2, <2>3 DEF Sftp!TypeOK
<1>15. IsFiniteSet(Sftp!Slots') /\ Cardinality(Sftp!Slots') <= v4'
  BY <1>0, <1>1, <1>5, SftpFinite, SftpCardinality DEF Sftp!WindowHeld, Sftp!Slots
<1>16. Sftp!InOrder' /\ Sftp!NeverStarves' /\ Sftp!WritesInLine' /\ Sftp!LoopHolds'
  BY <1>0, <1>1 DEF Sftp!InOrder, Sftp!NeverStarves, Sftp!WritesInLine, Sftp!LoopHolds
<1>17. Sftp!ErrorIsNext'
  BY <1>0, <1>1, SftpConstants DEF Sftp!ErrorIsNext, Sftp!LoopHolds
<1>18. Sftp!RangesInLine'
  <2>1. \A s \in DOMAIN v7 : s + Chunk <= v8 /\ s <= Sftp!From(s) /\ Sftp!Upto(s) <= s + Chunk
    BY <1>0, <1>1 DEF Sftp!RangesInLine
  <2>2. Sftp!Upto(k)' <= k + Chunk
    BY <1>0, <1>3, <1>4, <1>10
  <2>3. \A s \in DOMAIN v7 : Sftp!Upto(s)' <= s + Chunk
    BY <1>10, <2>1, <2>2
  <2> QED BY <1>0, <1>1, <1>3, <1>5, <1>7, <2>1, <2>3 DEF Sftp!RangesInLine
<1>19. Sftp!RangesTrue'
  <2>1. ASSUME NEW s \in DOMAIN v7, s # k PROVE SftpRange(s)'
    <3>1. SftpRange(s)
      BY <1>0, <1>1, <2>1, SftpRanges
    <3>2. (\E x \in v6' : x.start = s) <=> (\E x \in v6 : x.start = s)
      BY <1>0, <1>12, <2>1
    <3>3. Sftp!Reached(Sftp!Upto(s)) => Sftp!Reached(Sftp!Upto(s))'
      <4>1. Sftp!Upto(s) \in Nat /\ Sftp!Upto(s)' = Sftp!Upto(s)
        BY <1>8, <1>10, <2>1 DEF SftpAt
      <4>2. v9 \in Nat \cup {None}
        BY <1>1 DEF Sftp!TypeOK
      <4>3. v9' \in Nat \cup {None} /\ (v9 # None => v9' # None /\ v9' <= v9)
        BY DEF SftpTaking
      <4> QED BY <4>1, <4>2, <4>3 DEF Sftp!Reached
    <3> QED BY <1>5, <1>7, <1>10, <2>1, <3>1, <3>2, <3>3 DEF SftpRange
  <2>2. SftpRange(k)'
    <3>1. (\E x \in v6' : x.start = k) <=> rest # {}
      BY <1>11, <1>12
    <3>2. /\ g.error # None => g.complete /\ g.error = r.offset + n
          /\ g.complete /\ g.error = None => r.offset + n = k + Chunk \/ (v9' # None /\ r.offset + n >= v9')
      BY DEF SftpTaking
    <3> QED BY <1>5, <1>7, <1>9, <1>10, <1>12, <3>1, <3>2 DEF SftpRange, Sftp!Reached
  <2>3. (\A s \in DOMAIN v7 : SftpRange(s))'
    BY <1>5, <2>1, <2>2
  <2> QED BY <2>3, SftpRangesNext
<1>20. Sftp!RequestsTrue'
  <2>1. \A x, y \in v6' : x.start = y.start => x = y
    BY <1>1, <1>11, <1>12 DEF Sftp!RequestsTrue, SftpRest
  <2>2. \A x \in v6 : x # r => x.start \in DOMAIN v7 /\ x.offset = Sftp!Upto(x.start)' /\ x.offset + x.len = x.start + Chunk
    BY <1>0, <1>1, <1>10, <1>11 DEF Sftp!RequestsTrue
  <2>3. \A x \in rest : x.start \in DOMAIN v7 /\ x.offset = Sftp!Upto(x.start)' /\ x.offset + x.len = x.start + Chunk
    BY <1>3, <1>10 DEF SftpRest
  <2> QED BY <1>5, <1>12, <2>1, <2>2, <2>3 DEF Sftp!RequestsTrue
<1>21. Sftp!EndSeen'
  <2> SUFFICES ASSUME v9' # None
               PROVE  Len(v10) <= v9' /\ \E s \in DOMAIN v7' : v7'[s].complete /\ v7'[s].error = None /\ Sftp!Upto(s)' = v9'
    BY <1>0 DEF Sftp!EndSeen
  <2>1. CASE v9' = v9
    <3>1. PICK s \in DOMAIN v7 : v7[s].complete /\ v7[s].error = None /\ Sftp!Upto(s) = v9
      BY <1>0, <1>1, <2>1 DEF Sftp!EndSeen
    <3>2. s # k
      BY <1>13, <3>1
    <3> QED BY <1>0, <1>1, <1>5, <1>10, <2>1, <3>1, <3>2 DEF Sftp!EndSeen
  <2>2. CASE v9' # v9
    <3>1. v9' = r.offset /\ Sftp!Upto(k)' = v9' /\ g.complete /\ g.error = None
      <4>1. v9' = r.offset /\ n = 0 /\ g.complete /\ g.error = None
        BY <2>2 DEF SftpTaking
      <4> QED BY <1>3, <1>10, <4>1
    <3>2. Len(v10) <= v9'
      <4>1. Sftp!From(k) >= Len(v10)
        BY <1>0, <1>1, <1>3, SftpFromWritten
      <4>2. Sftp!From(k) \in Nat /\ Len(v7[k].data) \in Nat /\ Sftp!Upto(k) = Sftp!From(k) + Len(v7[k].data)
        BY <1>3, <1>8 DEF SftpAt
      <4> QED BY <1>2, <1>4, <3>1, <4>1, <4>2
    <3> QED BY <1>3, <1>5, <3>1, <3>2
  <2> QED BY <2>1, <2>2
<1>22. Sftp!SizeKept'
  <2> SUFFICES ASSUME v3 = 0 PROVE Sftp!SizeKept'
    BY <1>0 DEF Sftp!SizeKept
  <2>1. /\ v9 # None => v9 >= v2
        /\ Len(v10) <= v2
        /\ \A s \in DOMAIN v7 : v7[s].data # <<>> => Sftp!Upto(s) <= v2
        /\ \A x \in v6 : (x.answer = "data" => x.offset + x.got <= v2) /\ (x.answer = "end" => x.offset >= v2)
    BY <1>0, <1>1 DEF Sftp!SizeKept
  <2>2. v9' # None => v9' >= v2
    BY <1>0, <2>1 DEF SftpTaking
  <2>3. v7'[k].data # <<>> => Sftp!Upto(k)' <= v2
    <3>1. CASE n = 0
      <4>1. Len(v7[k].data) \in Nat /\ v7[k].data \in Seq(Nat)
        BY <1>3, <1>8 DEF SftpAt
      <4>2. Sftp!Upto(k)' = Sftp!Upto(k) /\ Len(v7'[k].data) = Len(v7[k].data)
        <5>1. r.offset + n = r.offset /\ Len(v7[k].data) + n = Len(v7[k].data)
          BY <1>3, <3>1, <4>1
        <5> QED BY <1>4, <1>5, <1>9, <1>10, <5>1
      <4>3. v7'[k].data \in Seq(Nat)
        BY <1>5 DEF Sftp!Ranges
      <4>4. v7'[k].data # <<>> => v7[k].data # <<>>
        BY <4>1, <4>2, <4>3
      <4> QED BY <1>3, <2>1, <4>2, <4>4
    <3>2. CASE n > 0
      <4>1. r.answer = "data" /\ n = r.got
        BY <3>2 DEF SftpTaking
      <4> QED BY <1>0, <1>10, <2>1, <4>1
    <3> QED BY <1>0, <3>1, <3>2
  <2>4. \A s \in DOMAIN v7' : v7'[s].data # <<>> => Sftp!Upto(s)' <= v2
    BY <1>5, <1>10, <2>1, <2>3
  <2>5. \A x \in v6' : (x.answer = "data" => x.offset + x.got <= v2) /\ (x.answer = "end" => x.offset >= v2)
    BY <1>12, <2>1 DEF SftpRest
  <2> QED BY <1>0, <2>1, <2>2, <2>4, <2>5 DEF Sftp!SizeKept
<1> QED BY <1>14, <1>15, <1>16, <1>17, <1>18, <1>19, <1>20, <1>21, <1>22, SftpCoreNext DEF SftpCore

LEMMA SftpTake == ASSUME Sftp!Inv, NEW r \in v6, Sftp!Take(r) PROVE Sftp!Inv'
<1> USE DEF Sftp!Take, Sftp!source, Sftp!target, Sftp!Going, Sftp!Becomes
<1>1. Sftp!TypeOK /\ Sftp!RequestsTrue /\ v5 = "wait" /\ ~v1
  BY DEF Sftp!Inv
<1>2. PICK k : k = r.start
  OBVIOUS
<1>3. /\ r \in Sftp!Requests /\ r.got <= r.len /\ (r.answer = "data" => r.got > 0)
      /\ v7 \in [DOMAIN v7 -> Sftp!Ranges] /\ v9 \in Nat \cup {None}
  BY <1>1 DEF Sftp!TypeOK
<1>4. /\ k \in DOMAIN v7 /\ r.offset + r.len = k + Chunk /\ r.offset \in Nat /\ r.len \in 1 .. Chunk /\ r.got \in Nat
      /\ v7[k] \in Sftp!Ranges /\ v7[k].data \in Seq(Nat) /\ k \in Nat /\ r.len \in Nat \ {0}
      /\ Chunk \in Nat /\ None \notin Nat
  <2>1. k \in DOMAIN v7 /\ r.offset + r.len = k + Chunk
    BY <1>1, <1>2 DEF Sftp!RequestsTrue
  <2>2. r.offset \in Nat /\ r.len \in 1 .. Chunk /\ r.got \in Nat
    BY <1>3 DEF Sftp!Requests
  <2>3. k \in Nat /\ Chunk \in Nat
    BY <1>1, <2>1, SftpConstants DEF Sftp!TypeOK
  <2>4. v7[k] \in Sftp!Ranges
    BY <1>3, <2>1
  <2> QED BY <2>1, <2>2, <2>3, <2>4, SftpConstants DEF Sftp!Ranges
<1>5. v7[k].data = v7[k].data \o Sftp!Bytes(r.offset, 0)
  <2>1. Sftp!Bytes(r.offset, 0) = <<>>
    BY DEF Sftp!Bytes
  <2> QED BY <1>4, <2>1, ConcatEmptySeq
<1>6. v7[k].error = None
  BY <1>2, <1>4 DEF Sftp!Inv, Sftp!RangesTrue
<1>7. CASE Sftp!TakesError(r)
  <2> DEFINE g == [v7[k] EXCEPT !.error = r.offset, !.complete = TRUE]
  <2>1. g \in Sftp!Ranges /\ g.data = v7[k].data /\ g.complete /\ g.error = r.offset
    BY <1>4 DEF Sftp!Ranges
  <2>2. v7' = [v7 EXCEPT ![k] = g] /\ v6' = (v6 \ {r}) \cup {} /\ v9' = v9
    BY <1>2, <1>7 DEF Sftp!TakesError
  <2>3. r.offset # None /\ r.offset + 0 = r.offset /\ 0 <= r.len
    BY <1>4
  <2> HIDE DEF g
  <2>3c. g.data = v7[k].data \o Sftp!Bytes(r.offset, 0)
    BY <1>5, <2>1, Zenon
  <2>3a. /\ ~(0 > 0) /\ 0 \in Nat
         /\ g.error # None => g.complete /\ g.error = r.offset + 0
         /\ ~(g.complete /\ g.error = None)
    BY <2>1, <2>3
  <2>3b. v9' \in Nat \cup {None} /\ (v9 # None => v9' # None /\ v9' <= v9)
    BY <1>3, <2>2
  <2>4. SftpTaking(r, k, 0, g, {})
    BY <1>1, <1>2, <1>3, <1>4, <2>1, <2>2, <2>3, <2>3a, <2>3b, <2>3c DEF SftpTaking
  <2>5. SftpRest(r, k, 0, {})
    BY <2>2 DEF SftpRest
  <2> QED BY <2>4, <2>5, SftpTakes
<1>8. CASE Sftp!TakesEnd(r)
  <2> DEFINE g == [v7[k] EXCEPT !.complete = TRUE]
  <2>1. g \in Sftp!Ranges /\ g.data = v7[k].data /\ g.complete /\ g.error = None
    BY <1>4, <1>6 DEF Sftp!Ranges
  <2>2. v7' = [v7 EXCEPT ![k] = g] /\ v6' = (v6 \ {r}) \cup {} /\ r.answer = "end"
    BY <1>2, <1>8 DEF Sftp!TakesEnd
  <2>3. /\ v9' \in Nat /\ v9' <= r.offset /\ (v9 # None => v9' <= v9) /\ (v9' # v9 => v9' = r.offset)
        /\ v9' # None
    BY <1>3, <1>4, <1>8 DEF Sftp!TakesEnd, Sftp!Least
  <2>4. r.offset + 0 = r.offset /\ 0 <= r.len
    BY <1>4
  <2> HIDE DEF g
  <2>4c. g.data = v7[k].data \o Sftp!Bytes(r.offset, 0)
    BY <1>5, <2>1, Zenon
  <2>4a. /\ ~(0 > 0) /\ 0 \in Nat
         /\ g.error = None /\ g.complete /\ r.offset + 0 >= v9'
    <3>1. r.offset + 0 >= v9'
      BY <1>4, <2>3, <2>4
    <3> QED BY <2>1, <3>1
  <2>5. SftpTaking(r, k, 0, g, {})
    BY <1>1, <1>2, <1>3, <1>4, <2>1, <2>2, <2>3, <2>4, <2>4a, <2>4c DEF SftpTaking
  <2>6. SftpRest(r, k, 0, {})
    BY <2>2 DEF SftpRest
  <2> QED BY <2>5, <2>6, SftpTakes
<1>9. CASE Sftp!TakesData(r)
  <2> DEFINE g == [v7[k] EXCEPT !.data = v7[k].data \o Sftp!Bytes(r.offset, r.got), !.complete = (r.got = r.len)]
             rest == IF r.got = r.len THEN {} ELSE {Sftp!Request(r.start, r.offset + r.got, r.len - r.got)}
  <2>1. /\ g \in Sftp!Ranges /\ g.data = v7[k].data \o Sftp!Bytes(r.offset, r.got) /\ (g.complete <=> r.got = r.len)
        /\ g.error = None
    <3>1. v7[k].data \o Sftp!Bytes(r.offset, r.got) \in Seq(Nat)
      <4>1. Sftp!Bytes(r.offset, r.got) \in Seq(Nat)
        BY <1>4, SftpBytes
      <4> QED BY <1>4, <4>1, ConcatProperties
    <3> QED BY <1>4, <1>6, <3>1 DEF Sftp!Ranges
  <2>2. v7' = [v7 EXCEPT ![k] = g] /\ v6' = (v6 \ {r}) \cup rest /\ r.answer = "data" /\ v9' = v9
    BY <1>2, <1>9 DEF Sftp!TakesData
  <2>3. /\ rest \in SUBSET Sftp!Requests
        /\ \A x, y \in rest : x = y
        /\ \A x \in rest : /\ x.start = k /\ x.answer = "none" /\ x.got = 0
                           /\ x.offset = r.offset + r.got /\ x.offset + x.len = k + Chunk
    <3>1. CASE r.got = r.len
      BY <3>1
    <3>2. CASE r.got # r.len
      <4> DEFINE x == Sftp!Request(r.start, r.offset + r.got, r.len - r.got)
      <4>1. r.len - r.got \in 1 .. Chunk /\ r.offset + r.got \in Nat /\ (r.offset + r.got) + (r.len - r.got) = k + Chunk
        BY <1>3, <1>4, <3>2
      <4>2. /\ x.start = k /\ x.answer = "none" /\ x.got = 0 /\ x.offset = r.offset + r.got
            /\ x.offset + x.len = k + Chunk /\ x \in Sftp!Requests
        BY <1>2, <1>4, <4>1 DEF Sftp!Request, Sftp!Requests
      <4>3. rest = {x}
        BY <3>2
      <4> HIDE DEF x
      <4> QED BY <4>2, <4>3
    <3> QED BY <3>1, <3>2
  <2>4. ~g.complete <=> rest # {}
    BY <2>1
  <2>5. g.complete => r.offset + r.got = k + Chunk
    BY <1>4, <2>1
  <2>6. v9 # None => v9 <= v9
    BY <1>3
  <2> HIDE DEF g, rest
  <2>7. SftpTaking(r, k, r.got, g, rest)
    BY <1>1, <1>2, <1>3, <1>4, <2>1, <2>2, <2>4, <2>5, <2>6 DEF SftpTaking
  <2>8. SftpRest(r, k, r.got, rest)
    BY <2>2, <2>3 DEF SftpRest
  <2> QED BY <2>7, <2>8, SftpTakes
<1> QED BY <1>7, <1>8, <1>9

(* What the first range holds is written: its end is then the end of the file, and the  *)
(* range stays, empty (g is what it becomes).                                           *)
SftpWriting(f, g) ==
  /\ v5 = "drain" /\ ~v1 /\ f = Sftp!First /\ DOMAIN v7 # {} /\ v10' = v10 \o v7[f].data
  /\ UNCHANGED <<v1, v2, v3, v4, v6, v8, v9, v11, v12, v13>>
  /\ g = [v7[f] EXCEPT !.data = <<>>]
LEMMA SftpWritten ==
  ASSUME Sftp!Inv, NEW f, NEW g, SftpWriting(f, g)
  PROVE  /\ f \in DOMAIN v7 /\ f \in Nat /\ Chunk \in Nat \ {0} /\ v2 \in Nat
         /\ v7 \in [DOMAIN v7 -> Sftp!Ranges] /\ DOMAIN v7 \subseteq Nat
         /\ v10' \in Seq(Nat) /\ Len(v10') = Sftp!Upto(f) /\ Sftp!Upto(f) \in Nat /\ Len(v10) <= Sftp!Upto(f)
         /\ f <= Sftp!Upto(f) /\ Sftp!Upto(f) <= f + Chunk
         /\ Sftp!InOrder'
         /\ v9 # None => /\ v9 \in Nat /\ Sftp!Upto(f) <= v9
                         /\ \E s \in DOMAIN v7 : v7[s].complete /\ v7[s].error = None /\ Sftp!Upto(s) = v9
         /\ v3 = 0 => Sftp!Upto(f) <= v2
<1>1. /\ v5 = "drain" /\ ~v1 /\ f = Sftp!First /\ DOMAIN v7 # {} /\ v10' = v10 \o v7[f].data
      /\ UNCHANGED <<v1, v2, v3, v4, v6, v8, v9, v11, v12, v13>>
  BY DEF SftpWriting
<1>2. /\ Sftp!TypeOK /\ Sftp!InOrder /\ Sftp!RangesInLine /\ Sftp!RangesTrue /\ Sftp!EndSeen /\ Sftp!SizeKept
  BY DEF Sftp!Inv
<1>3. /\ Chunk \in Nat \ {0} /\ v2 \in Nat /\ DOMAIN v7 \subseteq Nat /\ v7 \in [DOMAIN v7 -> Sftp!Ranges]
      /\ v10 \in Seq(Nat) /\ Len(v10) \in Nat /\ v9 \in Nat \cup {None}
  BY <1>2, SftpConstants DEF Sftp!TypeOK
<1>4. f \in DOMAIN v7 /\ f \in Nat
  BY <1>1, <1>3, SftpFirst
<1>5. \A s \in DOMAIN v7 : SftpAt(s)
  BY <1>1, <1>2, SftpPlaces
<1> DEFINE d == v7[f].data  n == Len(d)  u == Sftp!Upto(f)
<1>6. /\ d \in Seq(Nat) /\ n \in Nat /\ u = Len(v10) + n /\ u \in Nat /\ f <= Len(v10) /\ u <= f + Chunk
  BY <1>1, <1>4, <1>5 DEF SftpAt
<1>7. d = Sftp!Bytes(Len(v10), n)
  <2>1. Sftp!From(f) = Len(v10)
    BY <1>1 DEF Sftp!From
  <2> QED BY <1>1, <1>2, <1>4, <2>1 DEF Sftp!RangesTrue
<1>8. v10' = Sftp!Bytes(0, u)
  <2>1. v10 = Sftp!Bytes(0, Len(v10))
    BY <1>2 DEF Sftp!InOrder
  <2>2. Sftp!Bytes(0, Len(v10)) \o Sftp!Bytes(0 + Len(v10), n) = Sftp!Bytes(0, Len(v10) + n)
    BY <1>3, <1>6, SftpBytesJoined
  <2>3. 0 + Len(v10) = Len(v10)
    BY <1>3
  <2>4. v10' = v10 \o d
    BY <1>1
  <2>5. Sftp!Bytes(0, Len(v10)) \o Sftp!Bytes(Len(v10), n) = Sftp!Bytes(0, u)
    BY <1>6, <2>2, <2>3, Zenon
  <2> HIDE DEF u
  <2> QED BY <1>7, <2>1, <2>4, <2>5, Zenon
<1> HIDE DEF u, d
<1>9. v10' \in Seq(Nat) /\ Len(v10') = u
  BY <1>6, <1>8, SftpBytes
<1>10. Sftp!InOrder'
  BY <1>8, <1>9 DEF Sftp!InOrder
<1>11. ASSUME v9 # None
       PROVE  /\ v9 \in Nat /\ u <= v9
              /\ \E s \in DOMAIN v7 : v7[s].complete /\ v7[s].error = None /\ Sftp!Upto(s) = v9
  <2>1. PICK s \in DOMAIN v7 : v7[s].complete /\ v7[s].error = None /\ Sftp!Upto(s) = v9
    BY <1>1, <1>2, <1>11 DEF Sftp!EndSeen
  <2>2. u <= v9
    <3>1. CASE s = f
      BY <1>6, <2>1, <3>1 DEF u
    <3>2. CASE s # f
      <4>1. f + Chunk <= s /\ s <= Sftp!Upto(s) /\ s \in Nat
        <5>1. /\ s \in Nat /\ Sftp!From(s) = s /\ f + Chunk <= s
              /\ Sftp!Upto(s) = Sftp!From(s) + Len(v7[s].data) /\ Len(v7[s].data) \in Nat
          BY <1>1, <1>5, <3>2 DEF SftpAt
        <5> QED BY <5>1
      <4> QED BY <1>3, <1>4, <1>6, <1>11, <2>1, <4>1
    <3> QED BY <3>1, <3>2
  <2> QED BY <1>3, <1>11, <2>1, <2>2
<1>12. ASSUME v3 = 0 PROVE u <= v2
  <2>1. Len(v10) <= v2 /\ (d # <<>> => u <= v2)
    BY <1>1, <1>2, <1>4, <1>12 DEF Sftp!SizeKept, d, u
  <2>2. CASE d = <<>>
    <3>1. n = 0
      BY <2>2
    <3> QED BY <1>3, <1>6, <2>1, <3>1
  <2> QED BY <2>1, <2>2
<1> QED BY <1>3, <1>4, <1>6, <1>9, <1>10, <1>11, <1>12 DEF u

LEMMA SftpStays ==
  ASSUME Sftp!Inv, NEW f, NEW g, SftpWriting(f, g), v7' = [v7 EXCEPT ![f] = g],
         \/ v9 # None /\ Sftp!Upto(f) >= v9 /\ v5' = "flush" /\ v14' = v14
         \/ ~Sftp!Reached(Sftp!Upto(f)) /\ g.error # None /\ v5' = "cleanup" /\ v14' = "remote"
         \/ ~Sftp!Reached(Sftp!Upto(f)) /\ ~g.complete /\ v5' = "fill" /\ v14' = v14
  PROVE  Sftp!Inv'
<1>1. /\ Sftp!TypeOK /\ Sftp!InOrder /\ Sftp!WindowHeld /\ Sftp!ErrorIsNext /\ Sftp!NeverStarves /\ Sftp!RangesInLine
      /\ Sftp!RangesTrue /\ Sftp!RequestsTrue /\ Sftp!EndSeen /\ Sftp!WritesInLine /\ Sftp!SizeKept /\ Sftp!LoopHolds
  BY DEF Sftp!Inv
<1>2. /\ v5 = "drain" /\ ~v1 /\ f = Sftp!First /\ UNCHANGED <<v1, v2, v3, v4, v6, v8, v9, v11, v12, v13>>
  BY DEF SftpWriting
<1> DEFINE u == Sftp!Upto(f)
<1>3. /\ f \in DOMAIN v7 /\ f \in Nat /\ Chunk \in Nat \ {0} /\ v2 \in Nat /\ u \in Nat /\ f <= u /\ u <= f + Chunk
      /\ v7 \in [DOMAIN v7 -> Sftp!Ranges] /\ DOMAIN v7 \subseteq Nat
      /\ v10' \in Seq(Nat) /\ Len(v10') = u /\ Sftp!InOrder' /\ (v3 = 0 => u <= v2)
  BY SftpWritten
<1>4. v9 # None => /\ v9 \in Nat /\ u <= v9
                   /\ \E s \in DOMAIN v7 : v7[s].complete /\ v7[s].error = None /\ Sftp!Upto(s) = v9
  BY SftpWritten
<1>5. g \in Sftp!Ranges /\ g.data = <<>> /\ g.complete = v7[f].complete /\ g.error = v7[f].error
  <2>1. v7[f] \in Sftp!Ranges /\ g = [v7[f] EXCEPT !.data = <<>>]
    BY <1>3 DEF SftpWriting
  <2>2. g.data = <<>> /\ g.complete = v7[f].complete /\ g.error = v7[f].error
    BY <2>1 DEF Sftp!Ranges
  <2>3. g \in Sftp!Ranges
    <3>1. PICK e : e = <<>>
      OBVIOUS
    <3>2. e \in Seq(Nat)
      BY <3>1
    <3> QED BY <2>1, <3>1, <3>2 DEF Sftp!Ranges
  <2> QED BY <2>2, <2>3
<1>6. /\ DOMAIN v7' = DOMAIN v7 /\ v7'[f] = g /\ (\A s \in DOMAIN v7 : s # f => v7'[s] = v7[s])
      /\ v7' \in [DOMAIN v7' -> Sftp!Ranges]
  BY <1>3, <1>5
<1>7. Sftp!First' = f
  BY <1>2, <1>3, <1>6, SftpFirstKept
<1>8. Sftp!From(f)' = u /\ \A s \in DOMAIN v7 : s # f => Sftp!From(s)' = Sftp!From(s)
  BY <1>2, <1>3, <1>7 DEF Sftp!From
<1>9. \A s \in DOMAIN v7 : Sftp!Upto(s)' = Sftp!Upto(s)
  <2>1. Sftp!Upto(f)' = u
    <3>1. Len(v7'[f].data) = 0 /\ u + 0 = u
      BY <1>3, <1>5, <1>6
    <3> QED BY <1>8, <3>1 DEF Sftp!Upto
  <2>2. \A s \in DOMAIN v7 : s # f => Sftp!Upto(s)' = Sftp!Upto(s)
    BY <1>6, <1>8 DEF Sftp!Upto
  <2> QED BY <2>1, <2>2
<1> HIDE DEF u
<1>10. v14 = None /\ v14' \in {None, "remote"} /\ v5' \in {"flush", "cleanup", "fill"}
  BY <1>1, <1>2 DEF Sftp!LoopHolds
<1>11. Sftp!TypeOK'
  BY <1>1, <1>2, <1>3, <1>6, <1>10 DEF Sftp!TypeOK
<1>12. IsFiniteSet(Sftp!Slots') /\ Cardinality(Sftp!Slots') <= v4'
  BY <1>1, <1>2, <1>6, SftpFinite, SftpCardinality DEF Sftp!WindowHeld, Sftp!Slots
<1>13. Sftp!ErrorIsNext' /\ Sftp!NeverStarves'
  <2>1. Sftp!NeverStarves'
    BY <1>10, SftpConstants DEF Sftp!NeverStarves
  <2>2. ASSUME v14' = "remote"
        PROVE  DOMAIN v7' # {} /\ v7'[Sftp!First'].error = Len(v10') /\ ~Sftp!Reached(Len(v10))'
    <3>1. ~Sftp!Reached(u) /\ g.error # None
      BY <1>10, <2>2, SftpConstants DEF u
    <3>2. g.error = u
      BY <1>1, <1>2, <1>3, <1>5, <3>1 DEF Sftp!RangesTrue, u
    <3> QED BY <1>2, <1>3, <1>6, <1>7, <3>1, <3>2 DEF Sftp!Reached
  <2> QED BY <2>1, <2>2 DEF Sftp!ErrorIsNext
<1>14. Sftp!RangesInLine'
  <2>1. \A s \in DOMAIN v7 : s + Chunk <= v8 /\ s <= Sftp!From(s) /\ Sftp!Upto(s) <= s + Chunk
    BY <1>1, <1>2 DEF Sftp!RangesInLine
  <2>2. \A s \in DOMAIN v7 : s <= Sftp!From(s)'
    BY <1>3, <1>8, <2>1
  <2> QED BY <1>1, <1>2, <1>3, <1>6, <1>9, <2>1, <2>2 DEF Sftp!RangesInLine
<1>15. Sftp!RangesTrue'
  <2>1. ASSUME NEW s \in DOMAIN v7, s # f PROVE SftpRange(s)'
    <3>1. SftpRange(s)
      BY <1>1, <1>2, <2>1, SftpRanges
    <3> QED BY <1>2, <1>6, <1>8, <1>9, <2>1, <3>1 DEF SftpRange, Sftp!Reached
  <2>2. SftpRange(f)'
    <3>1. SftpRange(f)
      BY <1>1, <1>2, <1>3, SftpRanges
    <3>2. v7'[f].data = Sftp!Bytes(Sftp!From(f)', Len(v7'[f].data))
      BY <1>5, <1>6 DEF Sftp!Bytes
    <3> QED BY <1>2, <1>3, <1>5, <1>6, <1>9, <3>1, <3>2 DEF SftpRange, Sftp!Reached
  <2>3. (\A s \in DOMAIN v7 : SftpRange(s))'
    BY <1>6, <2>1, <2>2
  <2> QED BY <2>3, SftpRangesNext
<1>16. Sftp!RequestsTrue'
  BY <1>1, <1>2, <1>6, <1>9 DEF Sftp!RequestsTrue
<1>17. Sftp!EndSeen'
  <2> SUFFICES ASSUME v9 # None
               PROVE  Len(v10') <= v9 /\ \E s \in DOMAIN v7' : v7'[s].complete /\ v7'[s].error = None /\ Sftp!Upto(s)' = v9
    BY <1>2 DEF Sftp!EndSeen
  <2>1. PICK s \in DOMAIN v7 : v7[s].complete /\ v7[s].error = None /\ Sftp!Upto(s) = v9
    BY <1>4
  <2>2. v7'[s].complete /\ v7'[s].error = None /\ Sftp!Upto(s)' = v9
    BY <1>5, <1>6, <1>9, <2>1
  <2> QED BY <1>3, <1>4, <1>6, <2>2
<1>18. Sftp!WritesInLine'
  BY <1>2 DEF Sftp!WritesInLine
<1>19. Sftp!SizeKept'
  <2> SUFFICES ASSUME v3 = 0 PROVE Sftp!SizeKept'
    BY <1>2 DEF Sftp!SizeKept
  <2>1. \A s \in DOMAIN v7' : v7'[s].data # <<>> => Sftp!Upto(s)' <= v2
    BY <1>1, <1>2, <1>5, <1>6, <1>9 DEF Sftp!SizeKept
  <2> QED BY <1>1, <1>2, <1>3, <2>1 DEF Sftp!SizeKept
<1>20. Sftp!LoopHolds'
  <2>1. CASE v5' = "flush"
    <3>1. v9 # None /\ u >= v9 /\ v14' = v14
      BY <2>1 DEF u
    <3>2. Len(v10') = v9
      BY <1>3, <1>4, <3>1
    <3> QED BY <1>2, <1>10, <2>1, <3>1, <3>2 DEF Sftp!LoopHolds
  <2>2. CASE v5' = "cleanup"
    BY <1>2, <2>2, SftpConstants DEF Sftp!LoopHolds
  <2>3. CASE v5' = "fill"
    <3>1. ~g.complete /\ v14' = None
      BY <1>10, <2>3
    <3>2. v6 # {}
      BY <1>1, <1>2, <1>3, <1>5, <3>1 DEF Sftp!RangesTrue
    <3> QED BY <1>2, <2>3, <3>1, <3>2 DEF Sftp!LoopHolds
  <2> QED BY <1>10, <2>1, <2>2, <2>3
<1> QED BY <1>3, <1>11, <1>12, <1>13, <1>14, <1>15, <1>16, <1>17, <1>18, <1>19, <1>20, SftpCoreNext DEF SftpCore

(* A full range is dropped when it is written, and the next one is the first. *)
LEMMA SftpGoes ==
  ASSUME Sftp!Inv, NEW f, NEW g, SftpWriting(f, g), ~Sftp!Reached(Sftp!Upto(f)), v7[f].complete, v7[f].error = None,
         v7' = [s \in DOMAIN v7 \ {f} |-> v7[s]], v5' = "drain", v14' = v14
  PROVE  Sftp!Inv'
<1>1. /\ Sftp!TypeOK /\ Sftp!InOrder /\ Sftp!WindowHeld /\ Sftp!ErrorIsNext /\ Sftp!NeverStarves /\ Sftp!RangesInLine
      /\ Sftp!RangesTrue /\ Sftp!RequestsTrue /\ Sftp!EndSeen /\ Sftp!WritesInLine /\ Sftp!SizeKept /\ Sftp!LoopHolds
  BY DEF Sftp!Inv
<1>2. /\ v5 = "drain" /\ ~v1 /\ f = Sftp!First /\ UNCHANGED <<v1, v2, v3, v4, v6, v8, v9, v11, v12, v13>>
  BY DEF SftpWriting
<1> DEFINE u == Sftp!Upto(f)
<1>3. /\ f \in DOMAIN v7 /\ f \in Nat /\ Chunk \in Nat \ {0} /\ v2 \in Nat /\ u \in Nat
      /\ v7 \in [DOMAIN v7 -> Sftp!Ranges] /\ DOMAIN v7 \subseteq Nat
      /\ v10' \in Seq(Nat) /\ Len(v10') = u /\ Sftp!InOrder' /\ (v3 = 0 => u <= v2)
  BY SftpWritten
<1>4. v9 # None => /\ v9 \in Nat /\ u <= v9
                   /\ \E s \in DOMAIN v7 : v7[s].complete /\ v7[s].error = None /\ Sftp!Upto(s) = v9
  BY SftpWritten
<1>5. u = f + Chunk
  BY <1>1, <1>2, <1>3 DEF Sftp!RangesTrue
<1> HIDE DEF u
<1>6. /\ DOMAIN v7' = DOMAIN v7 \ {f} /\ (\A s \in DOMAIN v7' : v7'[s] = v7[s])
      /\ v7' \in [DOMAIN v7' -> Sftp!Ranges] /\ DOMAIN v7' \subseteq Nat
  BY <1>3
<1>7. \A s \in DOMAIN v7' : s \in DOMAIN v7 /\ f + Chunk <= s /\ Sftp!From(s) = s /\ s \in Nat /\ s + Chunk <= v8
  BY <1>1, <1>2, <1>6, SftpPlaces DEF SftpAt, Sftp!RangesInLine
<1>8. v8 \in Nat /\ (f + Chunk = v8 \/ f + Chunk \in DOMAIN v7')
  <2>1. f + Chunk = v8 \/ f + Chunk \in DOMAIN v7
    BY <1>1, <1>2, <1>3 DEF Sftp!RangesInLine
  <2>2. f + Chunk # f /\ v8 \in Nat
    BY <1>1, <1>3 DEF Sftp!TypeOK
  <2> QED BY <1>6, <2>1, <2>2
<1>9. \A s \in DOMAIN v7' : Sftp!From(s)' = s /\ Sftp!Upto(s)' = Sftp!Upto(s)
  <2> SUFFICES ASSUME NEW s \in DOMAIN v7' PROVE Sftp!From(s)' = s /\ Sftp!Upto(s)' = Sftp!Upto(s)
    OBVIOUS
  <2>1. f + Chunk \in DOMAIN v7'
    <3>1. CASE f + Chunk = v8
      <4>1. f + Chunk <= s /\ s + Chunk <= v8 /\ s \in Nat
        BY <1>7
      <4> QED BY <1>3, <1>8, <3>1, <4>1
    <3> QED BY <1>8, <3>1
  <2>2. Sftp!First' = f + Chunk
    BY <1>6, <1>7, <2>1, SftpFirstIs
  <2>3. Sftp!From(s)' = s
    BY <1>3, <1>5, <2>2 DEF Sftp!From
  <2> QED BY <1>6, <1>7, <2>3 DEF Sftp!Upto
<1>10. v14' = None
  BY <1>1, <1>2 DEF Sftp!LoopHolds
<1>11. Sftp!TypeOK'
  BY <1>1, <1>2, <1>3, <1>6, <1>10 DEF Sftp!TypeOK
<1>12. IsFiniteSet(Sftp!Slots') /\ Cardinality(Sftp!Slots') <= v4'
  <2>1. IsFiniteSet(DOMAIN v7) /\ Cardinality(DOMAIN v7) <= v4
    BY <1>1, <1>2, SftpFinite, SftpCardinality DEF Sftp!WindowHeld, Sftp!Slots
  <2>2. IsFiniteSet(DOMAIN v7') /\ Cardinality(DOMAIN v7') = Cardinality(DOMAIN v7) - 1
    BY <1>3, <1>6, <2>1, FS_RemoveElement
  <2>3. Cardinality(DOMAIN v7) \in Nat /\ v4 \in Nat /\ Sftp!Slots' = DOMAIN v7'
    BY <1>1, <1>2, <2>1, FS_CardinalityType DEF Sftp!TypeOK, Sftp!Slots
  <2> QED BY <1>2, <2>1, <2>2, <2>3
<1>13. Sftp!ErrorIsNext' /\ Sftp!NeverStarves' /\ Sftp!LoopHolds' /\ Sftp!WritesInLine'
  BY <1>2, <1>10, SftpConstants DEF Sftp!ErrorIsNext, Sftp!NeverStarves, Sftp!LoopHolds, Sftp!WritesInLine
<1>14. Sftp!RangesInLine'
  <2>1. \A s \in DOMAIN v7' : s + Chunk = v8 \/ s + Chunk \in DOMAIN v7'
    <3> SUFFICES ASSUME NEW s \in DOMAIN v7' PROVE s + Chunk = v8 \/ s + Chunk \in DOMAIN v7'
      OBVIOUS
    <3>1. s + Chunk # f
      <4>1. f + Chunk <= s /\ s \in Nat
        BY <1>7
      <4> QED BY <1>3, <4>1
    <3>2. s + Chunk = v8 \/ s + Chunk \in DOMAIN v7
      BY <1>1, <1>2, <1>7 DEF Sftp!RangesInLine
    <3> QED BY <1>6, <3>1, <3>2
  <2>2. \A s, t \in DOMAIN v7' : s < t => s + Chunk <= t
    BY <1>1, <1>2, <1>6 DEF Sftp!RangesInLine
  <2>3. \A s \in DOMAIN v7' : s + Chunk <= v8 /\ s <= Sftp!From(s)' /\ Sftp!Upto(s)' <= s + Chunk
    BY <1>1, <1>2, <1>7, <1>9 DEF Sftp!RangesInLine
  <2>4. DOMAIN v7' = {} => Len(v10') = v8
    BY <1>3, <1>5, <1>8
  <2> QED BY <1>2, <2>1, <2>2, <2>3, <2>4 DEF Sftp!RangesInLine
<1>15. Sftp!RangesTrue'
  <2>1. ASSUME NEW s \in DOMAIN v7' PROVE SftpRange(s)'
    <3>1. SftpRange(s)
      BY <1>1, <1>2, <1>7, SftpRanges
    <3>2. Sftp!From(s)' = Sftp!From(s) /\ Sftp!Upto(s)' = Sftp!Upto(s) /\ v7'[s] = v7[s]
      BY <1>6, <1>7, <1>9
    <3> QED BY <1>2, <3>1, <3>2 DEF SftpRange, Sftp!Reached
  <2>2. (\A s \in DOMAIN v7 : SftpRange(s))'
    BY <2>1
  <2> QED BY <2>2, SftpRangesNext
<1>16. Sftp!RequestsTrue'
  <2>1. \A x \in v6 : x.start # f
    BY <1>1, <1>2, <1>3 DEF Sftp!RangesTrue
  <2>2. \A x \in v6 : x.start \in DOMAIN v7'
    BY <1>1, <1>2, <1>6, <2>1 DEF Sftp!RequestsTrue
  <2> QED BY <1>1, <1>2, <1>9, <2>2 DEF Sftp!RequestsTrue
<1>17. Sftp!EndSeen'
  <2> SUFFICES ASSUME v9 # None
               PROVE  Len(v10') <= v9 /\ \E s \in DOMAIN v7' : v7'[s].complete /\ v7'[s].error = None /\ Sftp!Upto(s)' = v9
    BY <1>2 DEF Sftp!EndSeen
  <2>1. PICK s \in DOMAIN v7 : v7[s].complete /\ v7[s].error = None /\ Sftp!Upto(s) = v9
    BY <1>4
  <2>2. s # f
    <3>1. v9 \in Nat
      BY <1>4
    <3> QED BY <2>1, <3>1 DEF Sftp!Reached
  <2>3. s \in DOMAIN v7' /\ v7'[s] = v7[s] /\ Sftp!Upto(s)' = v9
    BY <1>6, <1>9, <2>1, <2>2
  <2> QED BY <1>3, <1>4, <2>1, <2>3
<1>18. Sftp!SizeKept'
  <2> SUFFICES ASSUME v3 = 0 PROVE Sftp!SizeKept'
    BY <1>2 DEF Sftp!SizeKept
  <2>1. \A s \in DOMAIN v7' : v7'[s].data # <<>> => Sftp!Upto(s)' <= v2
    BY <1>1, <1>2, <1>6, <1>9 DEF Sftp!SizeKept
  <2> QED BY <1>1, <1>2, <1>3, <2>1 DEF Sftp!SizeKept
<1> QED BY <1>3, <1>11, <1>12, <1>13, <1>14, <1>15, <1>16, <1>17, <1>18, SftpCoreNext DEF SftpCore

LEMMA SftpDrain == ASSUME Sftp!Inv, Sftp!Drain PROVE Sftp!Inv'
<1> USE DEF Sftp!Drain, Sftp!source, Sftp!Going, Sftp!Fail, Sftp!Becomes
<1>1. Sftp!TypeOK /\ Sftp!LoopHolds /\ Sftp!RangesInLine /\ Sftp!EndSeen /\ Sftp!NeverStarves
  BY DEF Sftp!Inv
<1>2. v5 = "drain" /\ ~v1
  BY <1>1 DEF Sftp!LoopHolds
<1>3. CASE Sftp!AllDrained
  <2>1. v9 = None /\ v5' = "fill"
    BY <1>1, <1>2, <1>3 DEF Sftp!AllDrained, Sftp!EndSeen, Sftp!Reached
  <2>2. UNCHANGED <<v1, v2, v3, v4, v6, v7, v8, v9, v10, v11, v12, v13, v14>> /\ DOMAIN v7 = {}
    BY <1>3 DEF Sftp!AllDrained
  <2>3. Sftp!LoopHolds'
    BY <1>1, <1>2, <2>1, <2>2 DEF Sftp!LoopHolds
  <2>4. v13' \in BOOLEAN /\ v4' \in 1 .. MaxDepth /\ v14' \in {None, "setup", "remote", "broken", "cancelled"}
    BY <1>1, <2>2 DEF Sftp!TypeOK, Sftp!NeverStarves
  <2> QED BY <1>2, <2>1, <2>2, <2>3, <2>4, SftpQuiet
<1>4. CASE DOMAIN v7 # {} /\ Sftp!DrainsFirst(v7[Sftp!First])
  <2>1. PICK f : f = Sftp!First
    OBVIOUS
  <2>2. PICK g : g = [v7[f] EXCEPT !.data = <<>>]
    OBVIOUS
  <2>3. SftpWriting(f, g)
    BY <1>2, <1>4, <2>1, <2>2 DEF SftpWriting, Sftp!DrainsFirst
  <2>4. Len(v10') = Sftp!Upto(f) /\ f \in DOMAIN v7 /\ v7 \in [DOMAIN v7 -> Sftp!Ranges]
    BY <2>3, SftpWritten
  <2>5. g.error = v7[f].error /\ g.complete = v7[f].complete
    BY <2>2, <2>4 DEF Sftp!Ranges
  <2>6. Sftp!Reached(Len(v10')) <=> Sftp!Reached(Sftp!Upto(f))
    BY <2>4
  <2> DEFINE R == Sftp!Reached(Len(v10'))
  <2>7. \/ R /\ v7' = [v7 EXCEPT ![f] = g] /\ v5' = "flush" /\ v14' = v14
        \/ ~R /\ v7[f].error # None /\ v7' = [v7 EXCEPT ![f] = g] /\ v5' = "cleanup" /\ v14' = "remote"
        \/ ~R /\ ~v7[f].complete /\ v7' = [v7 EXCEPT ![f] = g] /\ v5' = "fill" /\ v14' = v14
        \/ /\ ~R /\ v7[f].complete /\ v7[f].error = None
           /\ v7' = [s \in DOMAIN v7 \ {f} |-> v7[s]] /\ v5' = "drain" /\ v14' = v14
    BY <1>4, <2>1, <2>2 DEF Sftp!DrainsFirst, Sftp!Reached
  <2> HIDE DEF R
  <2>8. CASE /\ ~R /\ v7[f].complete /\ v7[f].error = None
             /\ v7' = [s \in DOMAIN v7 \ {f} |-> v7[s]] /\ v5' = "drain" /\ v14' = v14
    BY <2>3, <2>6, <2>8, SftpGoes DEF R
  <2>9. CASE R /\ v7' = [v7 EXCEPT ![f] = g] /\ v5' = "flush" /\ v14' = v14
    <3>1. v9 # None /\ Sftp!Upto(f) >= v9
      BY <2>6, <2>9 DEF R, Sftp!Reached
    <3> QED BY <2>3, <2>9, <3>1, SftpStays
  <2>10. CASE ~R /\ v7[f].error # None /\ v7' = [v7 EXCEPT ![f] = g] /\ v5' = "cleanup" /\ v14' = "remote"
    BY <2>3, <2>5, <2>6, <2>10, SftpStays DEF R
  <2>11. CASE ~R /\ ~v7[f].complete /\ v7' = [v7 EXCEPT ![f] = g] /\ v5' = "fill" /\ v14' = v14
    BY <2>3, <2>5, <2>6, <2>11, SftpStays DEF R
  <2> QED BY <2>7, <2>8, <2>9, <2>10, <2>11
<1> QED BY <1>3, <1>4

(***************************************************************************)
(* An upload                                                               *)
(***************************************************************************)
LEMMA SftpNoDownload == ASSUME v1', v10' = <<>>, DOMAIN v7' = {}
  PROVE Sftp!InOrder' /\ Sftp!RangesInLine' /\ Sftp!RangesTrue' /\ Sftp!EndSeen' /\ Sftp!ErrorIsNext'
BY DEF Sftp!InOrder, Sftp!RangesInLine, Sftp!RangesTrue, Sftp!EndSeen, Sftp!ErrorIsNext, Sftp!Bytes

LEMMA SftpSends ==
  ASSUME Sftp!Inv, v5 = "fill", v1, Cardinality(v6) < v4, v9 = None,
         NEW n \in 1 .. Chunk, NEW m, m = v8, v3 = 0 => m + n <= v2,
         v6' = v6 \cup {Sftp!Request(m, m, n)}, v8' = m + n,
         UNCHANGED <<v1, v2, v3, v4, v5, v7, v9, v10, v11, v12, v13, v14>>
  PROVE  Sftp!Inv'
<1> DEFINE q == Sftp!Request(m, m, n)
<1>1. /\ Sftp!TypeOK /\ Sftp!WindowHeld /\ Sftp!NeverStarves /\ Sftp!RequestsTrue /\ Sftp!WritesInLine /\ Sftp!SizeKept
      /\ Sftp!LoopHolds
  BY DEF Sftp!Inv
<1>2. m \in Nat /\ v8 \in Nat /\ v12 \in Nat /\ n \in Nat /\ n > 0 /\ v6 \subseteq Sftp!Requests /\ Chunk \in Nat
  BY <1>1, SftpConstants DEF Sftp!TypeOK
<1>3. /\ q \in Sftp!Requests /\ q.start = m /\ q.offset = m /\ q.len = n /\ q.answer = "none" /\ q.got = 0
  BY <1>2 DEF Sftp!Request, Sftp!Requests
<1>4. v6' = v6 \cup {q}
  OBVIOUS
<1> HIDE DEF q
<1>5. /\ DOMAIN v7 = {} /\ v10 = <<>> /\ v11 \subseteq 0 .. m - 1 /\ 0 .. v12 - 1 \subseteq v11
      /\ \A x, y \in v6 : x.start < y.start => x.start + x.len <= y.start
      /\ v14 = None => v12 = m \/ \E x \in v6 : x.start = v12
  BY <1>1 DEF Sftp!WritesInLine
<1>6. \A x \in v6 : /\ x.offset = x.start /\ v12 <= x.start /\ x.start + x.len <= m
                    /\ x.answer \notin {"none", "error"} => Sftp!Covers(x) \subseteq v11
                    /\ x.start + x.len = m \/ \E y \in v6 : y.start = x.start + x.len
  BY <1>1 DEF Sftp!WritesInLine
<1>7. \A x \in v6 : x.start < m /\ x.start \in Nat /\ x.len \in Nat \ {0}
  <2> SUFFICES ASSUME NEW x \in v6 PROVE x.start < m /\ x.start \in Nat /\ x.len \in Nat \ {0}
    OBVIOUS
  <2>1. x.start \in Nat /\ x.len \in 1 .. Chunk /\ x.start + x.len <= m
    BY <1>2, <1>6 DEF Sftp!Requests
  <2> QED BY <1>2, <2>1
<1>8. v12 <= m
  <2>1. CASE v12 = 0
    BY <1>2, <2>1
  <2>2. CASE v12 > 0
    <3>1. v12 - 1 \in 0 .. v12 - 1
      BY <1>2, <2>2
    <3>2. v12 - 1 \in 0 .. m - 1
      BY <1>5, <3>1
    <3> QED BY <1>2, <3>2
  <2> QED BY <1>2, <2>1, <2>2
<1>9. Sftp!TypeOK'
  <2>1. v6' \subseteq Sftp!Requests /\ \A x \in v6' : x.got <= x.len /\ (x.answer = "data" => x.got > 0)
    BY <1>1, <1>2, <1>3, <1>4 DEF Sftp!TypeOK
  <2>2. v8' \in Nat
    BY <1>2
  <2> QED BY <1>1, <2>1, <2>2 DEF Sftp!TypeOK
<1>10. IsFiniteSet(Sftp!Slots') /\ Cardinality(Sftp!Slots') <= v4'
  <2>1. IsFiniteSet(v6) /\ q \notin v6
    BY <1>1, <1>3, <1>7, SftpFinite DEF Sftp!WindowHeld, Sftp!Slots
  <2>2. IsFiniteSet(v6') /\ Cardinality(v6') = Cardinality(v6) + 1
    BY <1>4, <2>1, FS_AddElement
  <2>3. Cardinality(v6) \in Nat /\ v4 \in Nat
    BY <1>1, <2>1, FS_CardinalityType DEF Sftp!TypeOK
  <2> QED BY <2>2, <2>3 DEF Sftp!Slots
<1>11. Sftp!RequestsTrue'
  <2>1. \A x, y \in v6' : x.start = y.start => x = y
    BY <1>1, <1>3, <1>4, <1>7 DEF Sftp!RequestsTrue
  <2> QED BY <2>1 DEF Sftp!RequestsTrue
<1>12. Sftp!WritesInLine'
  <2>1. v11 \subseteq 0 .. v8' - 1
    <3>1. \A i \in 0 .. m - 1 : i \in 0 .. v8' - 1
      BY <1>2
    <3> QED BY <1>5, <3>1
  <2>2. ASSUME NEW x \in v6'
        PROVE  /\ x.offset = x.start /\ v12 <= x.start /\ x.start + x.len <= v8'
               /\ x.answer \notin {"none", "error"} => Sftp!Covers(x) \subseteq v11
               /\ x.start + x.len = v8' \/ \E y \in v6' : y.start = x.start + x.len
    <3>1. CASE x = q
      <4>1. m + n <= m + n
        BY <1>2
      <4> QED BY <1>3, <1>8, <3>1, <4>1
    <3>2. CASE x \in v6
      <4>1. x.start + x.len <= v8'
        BY <1>2, <1>6, <1>7, <3>2
      <4>2. x.start + x.len = m \/ \E y \in v6' : y.start = x.start + x.len
        BY <1>4, <1>6, <3>2
      <4> QED BY <1>3, <1>4, <1>6, <3>2, <4>1, <4>2
    <3> QED BY <1>4, <3>1, <3>2
  <2>3. \A x, y \in v6' : x.start < y.start => x.start + x.len <= y.start
    <3>1. ASSUME NEW x \in v6 PROVE ~(m < x.start) /\ x.start + x.len <= m
      BY <1>2, <1>6, <1>7
    <3>2. ~(m < m)
      BY <1>2
    <3> QED BY <1>3, <1>4, <1>5, <3>1, <3>2
  <2>4. v14 = None => v12 = v8' \/ \E x \in v6' : x.start = v12
    BY <1>3, <1>4, <1>5
  <2> QED BY <1>5, <2>1, <2>2, <2>3, <2>4 DEF Sftp!WritesInLine, Sftp!Covers
<1>13. Sftp!SizeKept' /\ Sftp!LoopHolds' /\ Sftp!NeverStarves'
  BY <1>1 DEF Sftp!SizeKept, Sftp!LoopHolds, Sftp!NeverStarves
<1> QED BY <1>5, <1>9, <1>10, <1>11, <1>12, <1>13, SftpNoDownload, SftpCoreNext DEF SftpCore

LEMMA SftpFillWrite == ASSUME Sftp!Inv, Sftp!FillWrite PROVE Sftp!Inv'
<1> USE DEF Sftp!FillWrite, Sftp!source, Sftp!target
<1>1. /\ Sftp!TypeOK /\ Sftp!WindowHeld /\ Sftp!NeverStarves /\ Sftp!RequestsTrue /\ Sftp!WritesInLine /\ Sftp!SizeKept
      /\ Sftp!LoopHolds /\ v5 = "fill" /\ v1
  BY DEF Sftp!Inv
<1>2. /\ v8 \in Nat /\ v2 \in Nat /\ Chunk \in Nat \ {0} /\ Sftp!Cardinality(v6) = Cardinality(v6)
      /\ UNCHANGED <<v1, v2, v3, v4, v7, v10, v11, v12, v13, v14>>
  BY <1>1, SftpCardinality, SftpConstants DEF Sftp!TypeOK
<1> DEFINE n == IF v8 < v2 THEN Sftp!Least(Chunk, v2 - v8) ELSE 0
<1>3. CASE v9 = None /\ Cardinality(v6) < v4 /\ n = 0
  <2>1. v8 >= v2 /\ v9' = v8 /\ UNCHANGED <<v5, v6, v8>>
    <3>1. v8 >= v2
      BY <1>2, <1>3 DEF Sftp!Least
    <3> QED BY <1>2, <1>3, <3>1
  <2>2. Sftp!TypeOK'
    BY <1>1, <1>2, <2>1 DEF Sftp!TypeOK
  <2>3. IsFiniteSet(Sftp!Slots') /\ Cardinality(Sftp!Slots') <= v4'
    BY <1>1, <1>2, <2>1, SftpFinite, SftpCardinality DEF Sftp!WindowHeld, Sftp!Slots
  <2>4. Sftp!SizeKept'
    BY <1>1, <1>2, <2>1 DEF Sftp!SizeKept
  <2>5. Sftp!WritesInLine' /\ DOMAIN v7' = {} /\ v10' = <<>>
    BY <1>1, <1>2, <2>1 DEF Sftp!WritesInLine, Sftp!Covers
  <2>6. Sftp!LoopHolds' /\ Sftp!NeverStarves' /\ Sftp!RequestsTrue'
    BY <1>1, <1>2, <2>1 DEF Sftp!LoopHolds, Sftp!NeverStarves, Sftp!RequestsTrue
  <2> QED BY <1>1, <1>2, <2>2, <2>3, <2>4, <2>5, <2>6, SftpNoDownload, SftpCoreNext DEF SftpCore
<1>4. CASE v9 = None /\ Cardinality(v6) < v4 /\ n # 0
  <2>1. n \in 1 .. Chunk /\ v8 + n <= v2
    BY <1>2, <1>4 DEF Sftp!Least
  <2>2. PICK m : m = v8
    OBVIOUS
  <2>3. v6' = v6 \cup {Sftp!Request(m, m, n)} /\ v8' = m + n /\ UNCHANGED <<v5, v9>>
    BY <1>2, <1>4, <2>2
  <2>4. PICK k : k = n
    OBVIOUS
  <2> HIDE DEF n
  <2> QED BY <1>1, <1>2, <1>4, <2>1, <2>2, <2>3, <2>4, SftpSends
<1>5. CASE ~(v9 = None /\ Cardinality(v6) < v4)
  <2>1. v5' = "wait" /\ UNCHANGED <<v6, v8, v9>>
    BY <1>2, <1>5
  <2>2. v6 = {} => v9 # None
    <3>1. Cardinality({}) = 0 /\ v4 \in 1 .. MaxDepth
      BY <1>1, FS_EmptySet DEF Sftp!TypeOK
    <3> QED BY <1>5, <3>1
  <2>3. Sftp!LoopHolds'
    BY <1>1, <1>2, <2>1, <2>2 DEF Sftp!LoopHolds
  <2>4. v13' \in BOOLEAN /\ v4' \in 1 .. MaxDepth /\ v14' \in {None, "setup", "remote", "broken", "cancelled"}
    BY <1>1, <1>2 DEF Sftp!TypeOK, Sftp!NeverStarves
  <2> QED BY <1>1, <1>2, <2>1, <2>3, <2>4, SftpQuiet
<1> QED BY <1>3, <1>4, <1>5

LEMMA SftpAcknowledged == ASSUME Sftp!Inv, NEW r \in v6, Sftp!Acknowledged(r) PROVE Sftp!Inv'
<1> USE DEF Sftp!Going, Sftp!Fail, Sftp!source
<1>1. /\ Sftp!TypeOK /\ Sftp!WindowHeld /\ Sftp!NeverStarves /\ Sftp!RequestsTrue /\ Sftp!WritesInLine /\ Sftp!SizeKept
      /\ Sftp!LoopHolds
  BY DEF Sftp!Inv
<1>2. /\ v5 = "wait" /\ v1 /\ r.answer # "none" /\ v6' = v6 \ {r} /\ \A q \in v6 : r.start <= q.start
      /\ UNCHANGED <<v1, v2, v3, v4, v7, v8, v9, v10, v11, v13>>
      /\ \/ r.answer = "error" /\ v5' = "cleanup" /\ v14' = "remote" /\ v12' = v12
         \/ r.answer # "error" /\ v5' = "fill" /\ v14' = v14 /\ v12' = v12 + r.len
  BY DEF Sftp!Acknowledged
<1>3. /\ r \in Sftp!Requests /\ r.start \in Nat /\ r.len \in Nat \ {0} /\ v8 \in Nat /\ v12 \in Nat
      /\ v6 \subseteq Sftp!Requests
  <2>1. r \in Sftp!Requests /\ v8 \in Nat /\ v12 \in Nat /\ v6 \subseteq Sftp!Requests /\ Chunk \in Nat
    BY <1>1, SftpConstants DEF Sftp!TypeOK
  <2>2. r.start \in Nat /\ r.len \in 1 .. Chunk
    BY <2>1 DEF Sftp!Requests
  <2> QED BY <2>1, <2>2
<1>4. v14 = None
  BY <1>1, <1>2 DEF Sftp!LoopHolds
<1>5. \A x \in v6 : /\ x.offset = x.start /\ v12 <= x.start /\ x.start + x.len <= v8 /\ x.start \in Nat /\ x.len \in Nat
                    /\ x.answer \notin {"none", "error"} => Sftp!Covers(x) \subseteq v11
                    /\ x.start + x.len = v8 \/ \E y \in v6 : y.start = x.start + x.len
  <2>1. \A x \in v6 : x.start \in Nat /\ x.len \in Nat
    BY <1>3, SftpConstants DEF Sftp!Requests
  <2> QED BY <1>1, <1>2, <2>1 DEF Sftp!WritesInLine
<1>6. /\ DOMAIN v7 = {} /\ v10 = <<>> /\ v11 \subseteq 0 .. v8 - 1 /\ 0 .. v12 - 1 \subseteq v11
      /\ \A x, y \in v6 : x.start < y.start => x.start + x.len <= y.start
      /\ v12 = v8 \/ \E x \in v6 : x.start = v12
  BY <1>1, <1>2, <1>4 DEF Sftp!WritesInLine
<1>7. \A x \in v6' : x \in v6 /\ r.start < x.start /\ r.start + r.len <= x.start
  <2> SUFFICES ASSUME NEW x \in v6' PROVE x \in v6 /\ r.start < x.start
    BY <1>6
  <2>1. x \in v6 /\ x # r /\ r.start <= x.start /\ x.start \in Nat
    BY <1>2, <1>5
  <2>2. r.start # x.start
    BY <1>1, <2>1 DEF Sftp!RequestsTrue
  <2> QED BY <1>3, <2>1, <2>2
<1>8. r.start = v12
  <2>1. v12 <= r.start /\ r.start + r.len <= v8
    BY <1>5
  <2>2. PICK x \in v6 : x.start = v12
    BY <1>3, <1>6, <2>1
  <2> QED BY <1>2, <1>3, <2>1, <2>2
<1>9. v12' \in Nat /\ v14' \in {None, "remote"} /\ v5' \in {"cleanup", "fill"} /\ v12' <= r.start + r.len
  BY <1>2, <1>3, <1>4, <1>8
<1>10. Sftp!TypeOK'
  <2>1. v6' \subseteq Sftp!Requests /\ \A x \in v6' : x.got <= x.len /\ (x.answer = "data" => x.got > 0)
    BY <1>1, <1>7 DEF Sftp!TypeOK
  <2> QED BY <1>1, <1>2, <1>9, <2>1 DEF Sftp!TypeOK
<1>11. IsFiniteSet(Sftp!Slots') /\ Cardinality(Sftp!Slots') <= v4'
  <2>1. IsFiniteSet(v6) /\ Cardinality(v6) <= v4 /\ Sftp!Slots' = v6'
    BY <1>1, <1>2, SftpFinite, SftpCardinality DEF Sftp!WindowHeld, Sftp!Slots
  <2>2. IsFiniteSet(v6') /\ Cardinality(v6') = Cardinality(v6) - 1
    BY <1>2, <2>1, FS_RemoveElement
  <2>3. Cardinality(v6) \in Nat /\ v4 \in Nat
    BY <1>1, <2>1, FS_CardinalityType DEF Sftp!TypeOK
  <2> QED BY <1>2, <2>1, <2>2, <2>3
<1>12. Sftp!RequestsTrue' /\ Sftp!SizeKept'
  BY <1>1, <1>2, <1>7 DEF Sftp!RequestsTrue, Sftp!SizeKept
<1>13. Sftp!LoopHolds' /\ Sftp!NeverStarves'
  BY <1>2, <1>4, SftpConstants DEF Sftp!LoopHolds, Sftp!NeverStarves
<1>14. Sftp!WritesInLine'
  <2>1. 0 .. v12' - 1 \subseteq v11
    <3>1. CASE v12' = v12
      BY <1>6, <3>1
    <3>2. CASE r.answer # "error" /\ v12' = v12 + r.len
      <4>1. Sftp!Covers(r) \subseteq v11
        BY <1>2, <1>5, <3>2
      <4>2. r.offset = v12 /\ v12 \in Nat /\ r.len \in Nat
        BY <1>3, <1>5, <1>8
      <4>3. \A i \in 0 .. (v12 + r.len) - 1 : i \in 0 .. v12 - 1 \/ \E j \in 0 .. r.len - 1 : i = v12 + j
        <5> SUFFICES ASSUME NEW i \in 0 .. (v12 + r.len) - 1, ~(i \in 0 .. v12 - 1)
                     PROVE  i - v12 \in 0 .. r.len - 1 /\ i = v12 + (i - v12)
          OBVIOUS
        <5> QED BY <4>2
      <4>4. \A i \in 0 .. (v12 + r.len) - 1 : i \in 0 .. v12 - 1 \/ i \in Sftp!Covers(r)
        BY <4>2, <4>3 DEF Sftp!Covers
      <4> QED BY <1>6, <3>2, <4>1, <4>4
    <3> QED BY <1>2, <3>1, <3>2
  <2>2. ASSUME NEW x \in v6'
        PROVE  /\ x.offset = x.start /\ v12' <= x.start /\ x.start + x.len <= v8
               /\ x.answer \notin {"none", "error"} => Sftp!Covers(x) \subseteq v11
               /\ x.start + x.len = v8 \/ \E y \in v6' : y.start = x.start + x.len
    <3>1. v12' <= x.start
      <4>1. r.start + r.len <= x.start /\ x.start \in Nat
        BY <1>5, <1>7
      <4> QED BY <1>3, <1>9, <4>1
    <3>2. x.start + x.len = v8 \/ \E y \in v6' : y.start = x.start + x.len
      <4> SUFFICES ASSUME NEW y \in v6, y.start = x.start + x.len PROVE y \in v6'
        BY <1>5, <1>7
      <4>1. r.start < x.start /\ x.start \in Nat /\ x.len \in Nat
        BY <1>5, <1>7
      <4>2. y.start # r.start
        BY <1>3, <4>1
      <4> QED BY <1>2, <4>2
    <3> QED BY <1>5, <1>7, <3>1, <3>2
  <2>3. \A x, y \in v6' : x.start < y.start => x.start + x.len <= y.start
    BY <1>6, <1>7
  <2>4. v14' = None => v12' = v8 \/ \E x \in v6' : x.start = v12'
    <3> SUFFICES ASSUME v14' = None PROVE v12' = v8 \/ \E x \in v6' : x.start = v12'
      OBVIOUS
    <3>1. v12' = r.start + r.len
      BY <1>2, <1>8, SftpConstants
    <3>2. r.start + r.len = v8 \/ \E y \in v6 : y.start = r.start + r.len
      BY <1>5
    <3>3. \A y \in v6 : y.start = r.start + r.len => y # r
      BY <1>3
    <3> QED BY <1>2, <3>1, <3>2, <3>3
  <2> QED BY <1>2, <1>6, <2>1, <2>2, <2>3, <2>4 DEF Sftp!WritesInLine, Sftp!Covers
<1> QED BY <1>2, <1>6, <1>10, <1>11, <1>12, <1>13, <1>14, SftpNoDownload, SftpCoreNext DEF SftpCore

LEMMA SftpNext == Sftp!Inv /\ [Sftp!Next]_(Sftp!vars) => Sftp!Inv'
<1> SUFFICES ASSUME Sftp!Inv, [Sftp!Next]_(Sftp!vars) PROVE Sftp!Inv'
  OBVIOUS
<1>1. CASE Sftp!Steps
  <2>1. CASE \E r \in v6 : Sftp!Take(r) \/ Sftp!Acknowledged(r)
    BY <2>1, SftpTake, SftpAcknowledged
  <2> QED BY <1>1, <2>1, SftpQuietSteps, SftpFillReads, SftpDrain, SftpFillWrite DEF Sftp!Steps
<1>2. CASE \E n \in Sizes : Sftp!Resize(n)
  BY <1>2, SftpResize
<1> QED BY <1>1, <1>2, SftpQuietSteps, SftpAnswers DEF Sftp!Next

(***************************************************************************)
(* The parts together                                                      *)
(***************************************************************************)
LEMMA FilesStart == Init => OutcomesAreTrue
<1> SUFFICES ASSUME Init PROVE OutcomesAreTrue
  OBVIOUS
<1>1. /\ part = "ftp" => Ftp!Init
      /\ part = "sftp" => Sftp!Init
      /\ part = "moves" => Moves!Init
  BY DEF Init
<1> QED BY <1>1, FtpInit, SftpInit, MovesInit DEF OutcomesAreTrue

LEMMA FilesStep == OutcomesAreTrue /\ [Next]_vars => OutcomesAreTrue'
<1> SUFFICES ASSUME OutcomesAreTrue, [Next]_vars PROVE OutcomesAreTrue'
  OBVIOUS
<1>1. part' = part
  BY DEF Next, vars
<1>2. ASSUME part = "ftp" PROVE Ftp!Inv'
  <2>1. [Ftp!Next]_(Ftp!vars)
    BY <1>2 DEF Next, vars, Ftp!vars, Ftp!panelVars, Ftp!queueVars
  <2> QED BY <1>2, <2>1, FtpNext DEF OutcomesAreTrue
<1>3. ASSUME part = "sftp" PROVE Sftp!Inv'
  <2>1. [Sftp!Next]_(Sftp!vars)
    BY <1>3 DEF Next, vars, Sftp!vars, Sftp!source, Sftp!window, Sftp!target
  <2> QED BY <1>3, <2>1, SftpNext DEF OutcomesAreTrue
<1>4. ASSUME part = "moves" PROVE Moves!Inv'
  <2>1. [Moves!Next]_(Moves!vars)
    BY <1>4 DEF Next, vars, Moves!vars
  <2> QED BY <1>4, <2>1, MovesNext DEF OutcomesAreTrue
<1> QED BY <1>1, <1>2, <1>3, <1>4 DEF OutcomesAreTrue

(* The outcome that is told is the true one, whatever is moved or transferred: the      *)
(* two-panel view runs one FTP transfer at a time and shows it the outcome of its own    *)
(* run; an SFTP transfer writes every byte in its place, in whatever order the server    *)
(* answers, and ends well only when all has moved; and no move, failure or retry of      *)
(* file_move.rs leaves a file in none of its places.                                     *)
THEOREM FilesOutcomes == Spec => []OutcomesAreTrue
<1> QED BY FilesStart, FilesStep, PTL DEF Spec
=============================================================================
