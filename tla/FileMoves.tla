------------------------------ MODULE FileMoves ------------------------------
(***************************************************************************)
(* Moving files into another directory: executeMove of the remote panel,   *)
(* move_file_items of commands.rs and file_move.rs. The names that exist   *)
(* in the target are asked about first; what is overwritten is renamed     *)
(* away, put back when the move fails, and removed when it worked. Every   *)
(* step may fail, and the connection or the app may go at any point.       *)
(* Items are files; someone else may create one in the target meanwhile.   *)
(***************************************************************************)
EXTENDS Naturals

CONSTANTS
  Names,      \* the items of a move are 1 .. Names
  Taken,      \* items whose name exists in the target at first
  MaxRuns,    \* bound: calls of move_file_items
  MaxOthers,  \* bound: files that someone else creates in the target
  None

Items == 1 .. Names
Contents == {"new", "old", "other"}

VARIABLES
  src, dst,   \* item -> what its source and its destination hold
  kept,       \* item -> the backups in the target directory: the run that made it, what it holds
  backup,     \* what this item's move renamed away, None if nothing
  runs, overwrite,
  pc,         \* "idle", "check", "ask", or a step of the item's move
  item,       \* the item being looked at or moved
  conflicts,  \* items found in the target by the check
  results,    \* item -> result of the last run: None, "ok" or "error"
  warned,     \* history: items whose move was reported as failed, or whose run was cut short
  agreed,     \* history: items the user was shown as conflicts before agreeing to overwrite
  others
vars == <<src, dst, kept, backup, runs, overwrite, pc, item, conflicts, results, warned, agreed, others>>
files == <<src, dst, kept>>
flags == <<runs, overwrite, conflicts, agreed, others>>

Init ==
  /\ src = [i \in Items |-> "new"] /\ dst = [i \in Items |-> IF i \in Taken THEN "old" ELSE None]
  /\ kept = [i \in Items |-> {}] /\ backup = None
  /\ runs = 0 /\ overwrite = FALSE /\ pc = "idle" /\ item = 1 /\ conflicts = {}
  /\ results = [i \in Items |-> None] /\ warned = {} /\ agreed = {} /\ others = 0

Enters(w) ==
  /\ runs < MaxRuns /\ runs' = runs + 1 /\ overwrite' = w
  /\ pc' = "check" /\ item' = 1 /\ conflicts' = {} /\ backup' = None
  /\ results' = [i \in Items |-> None]
(* A drop, or the dialog's confirmation. *)
Start == pc = "idle" /\ Enters(FALSE) /\ UNCHANGED <<files, warned, agreed, others>>
Confirm ==
  /\ pc = "ask" /\ Enters(TRUE) /\ agreed' = agreed \cup conflicts
  /\ UNCHANGED <<files, warned, others>>
Dismiss ==
  /\ pc = "ask" /\ pc' = "idle"
  /\ UNCHANGED <<files, backup, item, results, warned, flags>>

FirstStep == IF overwrite THEN "preserve" ELSE "move"
(* One name is looked up after the other; one that exists, without overwrite, moves nothing. *)
Check_EachAlone ==
  /\ pc = "check" /\ conflicts' = conflicts \cup {i \in {item} : dst[i] # None}
  /\ IF item < Names THEN item' = item + 1 /\ UNCHANGED pc
     ELSE /\ item' = 1
          /\ pc' = IF ~overwrite /\ conflicts' = Items THEN "ask" ELSE FirstStep
  /\ UNCHANGED <<files, backup, runs, overwrite, agreed, others, results, warned>>
Check ==
  /\ pc = "check" /\ conflicts' = conflicts \cup {i \in {item} : dst[i] # None}
  /\ IF item < Names THEN item' = item + 1 /\ UNCHANGED pc
     ELSE /\ item' = 1
          /\ pc' = IF ~overwrite /\ conflicts' # {} THEN "ask" ELSE FirstStep
  /\ UNCHANGED <<files, backup, runs, overwrite, agreed, others, results, warned>>

Reports(result) ==
  /\ results' = [results EXCEPT ![item] = result] /\ backup' = None
  /\ warned' = IF result = "error" THEN warned \cup {item} ELSE warned
  /\ IF item < Names THEN item' = item + 1 /\ pc' = FirstStep ELSE item' = 1 /\ pc' = "idle"
Goes(l) == pc' = l /\ UNCHANGED <<item, results, warned>>

(* The name of a backup has a nonce: two runs never make the same. *)
Backup(content) == [run |-> runs, holds |-> content]
Preserve ==
  /\ pc = "preserve" /\ UNCHANGED <<src, flags>>
  /\ \/ dst[item] = None /\ Goes("move") /\ UNCHANGED <<dst, kept, backup>>
     \/ /\ dst[item] # None /\ Goes("move") /\ backup' = dst[item]
        /\ kept' = [kept EXCEPT ![item] = @ \cup {Backup(dst[item])}] /\ dst' = [dst EXCEPT ![item] = None]
     \/ dst[item] # None /\ Reports("error") /\ UNCHANGED <<dst, kept>>
(* rename and mv replace a file that is there. *)
Move ==
  /\ pc = "move" /\ UNCHANGED <<kept, flags>>
  /\ \/ /\ src[item] # None
        /\ dst' = [dst EXCEPT ![item] = src[item]] /\ src' = [src EXCEPT ![item] = None]
        /\ IF backup = None THEN Reports("ok") ELSE Goes("discard") /\ UNCHANGED backup
     \/ /\ UNCHANGED <<src, dst>>
        /\ IF backup = None THEN Reports("error") ELSE Goes("restore") /\ UNCHANGED backup
(* The backup is put back; a failure of that is not told apart. *)
Restore ==
  /\ pc = "restore" /\ Reports("error") /\ UNCHANGED <<src, flags>>
  /\ \/ UNCHANGED <<dst, kept>>
     \/ /\ dst' = [dst EXCEPT ![item] = backup] /\ kept' = [kept EXCEPT ![item] = @ \ {Backup(backup)}]
Discard ==
  /\ pc = "discard" /\ UNCHANGED <<src, dst, flags>>
  /\ \/ Reports("ok") /\ kept' = [kept EXCEPT ![item] = @ \ {Backup(backup)}]
     \/ Reports("error") /\ UNCHANGED kept
(* The connection goes, and its shell with it, or the app quits: the rest is not done. *)
Cut ==
  /\ pc \notin {"idle", "ask"} /\ pc' = "idle" /\ item' = 1 /\ backup' = None
  /\ warned' = Items /\ results' = [i \in Items |-> IF results[i] = None THEN "error" ELSE results[i]]
  /\ UNCHANGED <<files, flags>>
Other ==
  /\ others < MaxOthers /\ others' = others + 1
  /\ \E i \in Items : dst[i] = None /\ dst' = [dst EXCEPT ![i] = "other"]
  /\ UNCHANGED <<src, kept, backup, runs, overwrite, pc, item, conflicts, results, warned, agreed>>

Next == Start \/ Confirm \/ Dismiss \/ Check \/ Preserve \/ Move \/ Restore \/ Discard \/ Cut \/ Other
Spec == Init /\ [][Next]_vars

-----------------------------------------------------------------------------
TypeOK ==
  /\ src \in [Items -> {"new", None}] /\ dst \in [Items -> Contents \cup {None}]
  /\ kept \in [Items -> SUBSET [run : 1 .. MaxRuns, holds : Contents]] /\ backup \in Contents \cup {None}
  /\ runs \in 0 .. MaxRuns /\ others \in 0 .. MaxOthers /\ overwrite \in BOOLEAN
  /\ pc \in {"idle", "check", "ask", "preserve", "move", "restore", "discard"}
  /\ item \in Items /\ results \in [Items -> {None, "ok", "error"}]
  /\ conflicts \cup warned \cup agreed \subseteq Items
Waits == pc \in {"idle", "check", "ask"}
Held(i, content) == \E b \in kept[i] : b.holds = content
(* Whatever fails, and wherever it is cut short: the file that is moved is in one place, *)
(* its source, its destination, or the backup of a move that replaces it again; and one  *)
(* that was there before is still there or in a backup, unless the user agreed to        *)
(* overwrite it and it has been replaced.                                                *)
NothingLost ==
  \A i \in Items :
    /\ "new" \in {src[i], dst[i]} \/ Held(i, "new")
    /\ src[i] = "new" => dst[i] # "new" /\ ~Held(i, "new")
    /\ dst[i] = "new" => ~Held(i, "new")
    /\ i \in Taken => dst[i] = "old" \/ Held(i, "old") \/ (i \in agreed /\ src[i] = None)
(* A backup is left in the target only with a failure that tells of it. *)
LeftoversAreTold ==
  \A i \in Items : kept[i] # {} /\ (Waits \/ i # item) => i \in warned
(* What is reported as moved has arrived. *)
MovedIsThere == \A i \in Items : results[i] = "ok" => dst[i] = "new" /\ src[i] = None

(* The point a run has reached says what it knows. A name found is asked about before a *)
(* file moves, so that a run overwrites only what the user saw; and while an item moves *)
(* its destination is free, or the moved file is there, and its backup is in the target. *)
Shown ==
  /\ pc = "check" => \A i \in 1 .. item - 1 : dst[i] = "old" => i \in conflicts
  /\ pc = "ask" => \A i \in Items : dst[i] = "old" => i \in conflicts
  /\ ~Waits => \A i \in Items : dst[i] = "old" => overwrite
  /\ overwrite /\ pc # "idle" => \A i \in Items : dst[i] = "old" => i \in agreed
  /\ pc = "ask" => ~overwrite
Backed ==
  /\ pc # "idle" => runs > 0
  /\ Waits => backup = None
  /\ pc = "preserve" => overwrite /\ backup = None
  /\ pc \in {"restore", "discard"} => backup # None
  /\ backup # None => overwrite /\ Backup(backup) \in kept[item]
  /\ backup = "old" => item \in agreed
Placed ==
  /\ pc \in {"move", "restore"} => dst[item] # "old" /\ (overwrite => dst[item] # "new")
  /\ pc = "discard" => dst[item] = "new" /\ src[item] = None
OneIsNew == \A i \in Items : \A b, d \in kept[i] : b.holds = "new" /\ d.holds = "new" => b = d
OwnBackup == \A b \in kept[item] : item \in warned \/ (backup # None /\ b = Backup(backup))
Pending ==
  /\ pc \in {"check", "ask"} => \A i \in Items : results[i] = None
  /\ ~Waits => \A i \in item .. Names : results[i] = None
Inv ==
  /\ TypeOK /\ NothingLost /\ LeftoversAreTold /\ MovedIsThere
  /\ Shown /\ Backed /\ Placed /\ OneIsNew /\ OwnBackup /\ Pending
=============================================================================
