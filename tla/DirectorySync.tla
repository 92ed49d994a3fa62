---------------------------- MODULE DirectorySync ----------------------------
(***************************************************************************)
(* The two dialogs that work through a directory tree: the synchronization *)
(* of sync-dialog.tsx (configure, compare, review, sync) and the transfer  *)
(* of a whole directory of directory-transfer-dialog.tsx, which starts by  *)
(* itself.  Both run an asynchronous loop that looks at the scope of       *)
(* transfer-progress.ts, and at a cancel flag shared by all the loops of   *)
(* the dialog, between one operation and the next.                         *)
(*                                                                         *)
(* The tree has a directory "d", a file "d/f" in it, and a file "g".  What *)
(* a closed or re-targeted dialog left running goes on until its operation *)
(* answers, and the operation still lands.                                 *)
(***************************************************************************)
EXTENDS Naturals, Sequences

CONSTANTS
  Dialogs,     \* the dialogs that are followed, of "sync" and "directory"
  Configs,     \* the configurations the user chooses from
  Trees,       \* the pairs of trees [local, remote] to start from
  MaxScopes,   \* bound: times the dialog is closed, opened or re-targeted
  MaxRuns,     \* bound: loops started in one scope
  Dir,         \* the contents of a directory
  None

Items == {"d", "d/f", "g"}
Contents == {None, Dir} \cup [size : Nat, time : {"first", "up", "down"}]

VARIABLES
  dialog,    \* which dialog this is
  tree,      \* the two trees
  open, scope, config,
  phase,     \* progress.phase; the directory dialog's "enumerating" is "comparing", "transferring" is "syncing"
  entries,   \* the comparison: item -> [action, checked], or None
  cancel,    \* cancelRef
  runs,      \* the loops at work: [scope, todo, bad], the head of todo being awaited
  started,   \* loops started in this scope
  report,    \* what the last loop that went through said: None, "clean" or "errors"
  basis      \* history: the configuration of the last listing, whether no loop of an earlier
             \* scope was still at work then, and whether the last Sync had everything checked

vars == <<dialog, tree, open, scope, config, phase, entries, cancel, runs, started, report, basis>>
Busy == phase \in {"comparing", "syncing"}
From(c) == IF c.dir = "up" THEN "local" ELSE "remote"
To(c) == IF c.dir = "up" THEN "remote" ELSE "local"
IsFile(x) == x \notin {None, Dir}
Parent(i) == IF i = "d/f" THEN "d" ELSE None

(***************************************************************************)
(* The comparison                                                          *)
(***************************************************************************)
Listed(c) == IF c.recursive THEN Items ELSE Items \ {"d/f"}
Differ(c, l, r) ==
  \/ c.criteria # "modified" /\ l.size # r.size
  \/ c.criteria # "size" /\ l.time # r.time
Copy(c) == IF c.dir = "up" THEN "upload" ELSE "download"
(* The action for an item, of its local and remote contents; None leaves it out. *)
Action(c, l, r) ==
  CASE l # None /\ r = None -> IF c.dir = "down" THEN None ELSE IF l = Dir THEN "create-dir" ELSE "upload"
    [] IsFile(l) /\ IsFile(r) -> IF Differ(c, l, r) THEN Copy(c) ELSE "skip"
    [] l = r /\ ~IsFile(l) -> None
    [] l = None /\ r # None -> IF c.orphans /\ c.dir = "up" THEN "delete-remote" ELSE None
    [] OTHER -> "conflict"
Compared(c) ==
  LET act(i) == Action(c, tree["local"][i], tree["remote"][i])
  IN [i \in {j \in Listed(c) : act(j) # None} |->
        [action |-> act(i), checked |-> act(i) \notin {"skip", "conflict", "delete-remote"}]]

(***************************************************************************)
(* The plans of the loops                                                  *)
(***************************************************************************)
Op(i, action, c) ==
  [item |-> i, action |-> action, to |-> IF action \in {"create-dir", "delete-remote"} THEN "remote" ELSE To(c)]
Those(i, s) == IF i \in s THEN <<i>> ELSE <<>>
InOrder(s) == Those("d", s) \o Those("d/f", s) \o Those("g", s)
(* Directories are created before what they hold, and deleted after it. *)
Sorted(s) ==
  IF "d" \in s /\ entries["d"].action = "delete-remote"
  THEN Those("d/f", s) \o Those("d", s) \o Those("g", s) ELSE InOrder(s)
(* A conflict that was checked has no case of its own: it passes without an await. *)
SyncPlan ==
  LET order == Sorted({i \in DOMAIN entries : entries[i].checked /\ entries[i].action \notin {"skip", "conflict"}})
  IN [n \in DOMAIN order |->
        Op(order[n], entries[order[n]].action,
           [dir |-> IF entries[order[n]].action = "download" THEN "down" ELSE "up"])]
(* The root, then the directories, then the files, whatever the destination has. *)
WalkPlan(c) ==
  LET source == tree[From(c)]
      dirs == InOrder({i \in Items : source[i] = Dir})
      files == InOrder({i \in Items : IsFile(source[i])})
  IN <<Op(None, "root", c)>> \o [n \in DOMAIN dirs |-> Op(dirs[n], "mkdir", c)]
     \o [n \in DOMAIN files |-> Op(files[n], Copy(c), c)]

(* Whether the backend can do an operation on the trees as they are, and what it   *)
(* does.  A copy has the time of the copying.                                      *)
HasParent(t, i) == \A p \in Items : p = Parent(i) => t[p] = Dir
Possible(o) ==
  LET t == tree[o.to]
  IN CASE o.action = "root" -> TRUE
       [] o.action \in {"create-dir", "mkdir"} -> t[o.item] = None /\ HasParent(t, o.item)
       [] o.action = "upload" -> IsFile(tree["local"][o.item]) /\ t[o.item] # Dir /\ HasParent(t, o.item)
       [] o.action = "download" -> IsFile(tree["remote"][o.item]) /\ t[o.item] # Dir /\ HasParent(t, o.item)
       [] OTHER -> t[o.item] # None /\ \A i \in Items : Parent(i) = o.item => t[i] = None
Done(o) ==
  CASE o.action = "root" -> tree
    [] o.action \in {"create-dir", "mkdir"} -> [tree EXCEPT ![o.to][o.item] = Dir]
    [] o.action = "upload" -> [tree EXCEPT !["remote"][o.item] = [tree["local"][o.item] EXCEPT !.time = "up"]]
    [] o.action = "download" -> [tree EXCEPT !["local"][o.item] = [tree["remote"][o.item] EXCEPT !.time = "down"]]
    [] OTHER -> [tree EXCEPT !["remote"][o.item] = None]

(***************************************************************************)
(* The loops                                                               *)
(***************************************************************************)
Loop(at, todo) == [scope |-> at, todo |-> todo, bad |-> FALSE]
Compare0 == <<[item |-> None, action |-> "compare", to |-> "local"]>>
List0 == <<[item |-> None, action |-> "list", to |-> "local"]>>
Awaits(r) == Head(r.todo).action

(* To the next operation, or to the end, where it is told whether there were errors. *)
Proceed(r, todo, bad) ==
  IF todo = <<>>
  THEN runs' = runs \ {r} /\ phase' = "completed" /\ report' = IF bad THEN "errors" ELSE "clean"
  ELSE /\ runs' = (runs \ {r}) \cup {[r EXCEPT !.todo = todo, !.bad = bad]}
       /\ phase' = "syncing" /\ UNCHANGED report
(* Between two awaits: a loop of an older scope ends unseen, a cancelled one says so. *)
Turn_CancelledIsError(r, todo, bad, cancelled) ==
  IF r.scope # scope THEN runs' = runs \ {r} /\ UNCHANGED <<phase, cancel, report>>
  ELSE Proceed(r, todo, bad) /\ UNCHANGED cancel
Turn(r, todo, bad, cancelled) ==
  IF r.scope # scope THEN runs' = runs \ {r} /\ UNCHANGED <<phase, cancel, report>>
  ELSE IF cancel \/ cancelled
  THEN runs' = runs \ {r} /\ phase' = "cancelled" /\ cancel' = TRUE /\ UNCHANGED report
  ELSE Proceed(r, todo, bad) /\ UNCHANGED cancel

Init ==
  /\ dialog \in Dialogs /\ tree \in Trees /\ open = FALSE /\ scope = 0 /\ config \in Configs
  /\ phase = "idle" /\ entries = None /\ cancel = FALSE /\ runs = {} /\ started = 0
  /\ report = None /\ basis = None

(* The scope changes when the dialog opens or closes, when the panels' paths or the  *)
(* connection change under it, and when the view goes.  The directory dialog starts  *)
(* at once if it is open then.                                                       *)
Rescope(shown) ==
  /\ scope < MaxScopes /\ scope' = scope + 1 /\ open' = shown
  /\ entries' = None /\ report' = None /\ basis' = None /\ UNCHANGED <<dialog, tree, config>>
  /\ IF dialog = "directory" /\ shown
     THEN runs' = runs \cup {Loop(scope + 1, List0)} /\ phase' = "comparing" /\ cancel' = FALSE /\ started' = 1
     ELSE phase' = "idle" /\ started' = 0 /\ UNCHANGED <<runs, cancel>>
Open == ~open /\ Rescope(TRUE)
Close == open /\ ~Busy /\ Rescope(FALSE)
Retarget == open /\ Rescope(TRUE)
ViewGoes == open /\ Busy /\ Rescope(FALSE)

Configure ==
  /\ open /\ dialog = "sync" /\ ~Busy /\ config' \in Configs \ {config}
  /\ UNCHANGED <<dialog, tree, open, scope, phase, entries, cancel, runs, started, report, basis>>
Compare ==
  /\ open /\ dialog = "sync" /\ ~Busy /\ started < MaxRuns /\ started' = started + 1
  /\ cancel' = FALSE /\ entries' = None /\ phase' = "comparing" /\ report' = None /\ basis' = None
  /\ runs' = runs \cup {Loop(scope, Compare0)} /\ UNCHANGED <<dialog, tree, open, scope, config>>
Check ==   \* one entry, or all of them at once
  /\ open /\ entries # None /\ ~Busy
  /\ \E s \in SUBSET {i \in DOMAIN entries : entries[i].action # "skip"} :
       entries' = [i \in DOMAIN entries |-> [entries[i] EXCEPT !.checked = i \in s]]
  /\ UNCHANGED <<dialog, tree, open, scope, config, phase, cancel, runs, started, report, basis>>
AllChecked == \A i \in DOMAIN entries : entries[i].action # "skip" => entries[i].checked /\ entries[i].action # "conflict"
Sync ==
  /\ open /\ entries # None /\ ~Busy /\ \E i \in DOMAIN entries : entries[i].checked
  /\ started < MaxRuns /\ started' = started + 1 /\ cancel' = FALSE
  /\ IF SyncPlan = <<>>
     THEN phase' = "completed" /\ report' = "clean" /\ UNCHANGED runs
     ELSE phase' = "syncing" /\ report' = None /\ runs' = runs \cup {Loop(scope, SyncPlan)}
  /\ basis' = [basis EXCEPT !.all = AllChecked] /\ UNCHANGED <<dialog, tree, open, scope, config, entries>>
Cancel ==
  /\ open /\ Busy /\ ~cancel /\ cancel' = TRUE
  /\ UNCHANGED <<dialog, tree, open, scope, config, phase, entries, runs, started, report, basis>>

(* Both trees are listed. *)
Basis(r) == basis' = [config |-> config, alone |-> runs = {r}, all |-> FALSE]
Compares(r) ==
  /\ Awaits(r) = "compare" /\ UNCHANGED <<dialog, tree, open, scope, config, started, report>>
  /\ IF r.scope = scope /\ ~cancel
     THEN /\ entries' = Compared(config) /\ phase' = "completed" /\ Basis(r)
          /\ runs' = runs \ {r} /\ UNCHANGED cancel
     ELSE /\ runs' = runs \ {r} /\ phase' = (IF r.scope = scope THEN "cancelled" ELSE phase)
          /\ UNCHANGED <<entries, basis, cancel>>
Lists(r) ==
  /\ Awaits(r) = "list" /\ Turn(r, WalkPlan(config), FALSE, FALSE)
  /\ (IF r.scope = scope THEN Basis(r) ELSE UNCHANGED basis)
  /\ UNCHANGED <<dialog, tree, open, scope, config, entries, started>>
ListingFails_Silent(r) ==
  /\ Awaits(r) \in {"compare", "list"} /\ runs' = runs \ {r}
  /\ phase' = (IF r.scope # scope \/ cancel THEN phase ELSE "error")
  /\ UNCHANGED <<dialog, tree, open, scope, config, entries, cancel, started, report, basis>>
ListingFails(r) ==
  /\ Awaits(r) \in {"compare", "list"} /\ runs' = runs \ {r}
  /\ phase' = (IF r.scope # scope THEN phase ELSE IF cancel THEN "cancelled" ELSE "error")
  /\ UNCHANGED <<dialog, tree, open, scope, config, entries, cancel, started, report, basis>>

Working(r) == Awaits(r) \notin {"compare", "list"}
Lands(r) ==
  /\ Working(r) /\ Possible(Head(r.todo)) /\ tree' = Done(Head(r.todo))
  /\ Turn(r, Tail(r.todo), r.bad, FALSE)
  /\ UNCHANGED <<dialog, open, scope, config, entries, started, basis>>
(* create_remote_directory resolves with success: false where the server refuses, which *)
(* the directory dialog does not look at; nor does it count a directory that exists.    *)
Unseen_AnyFailure(o) == o.action \notin {"create-dir", "delete-remote"}
Unseen(o) ==
  \/ o.action = "root"
  \/ o.action = "mkdir" /\ (o.to = "remote" \/ tree[o.to][o.item] # None)
Fails(r) ==
  /\ Working(r) /\ UNCHANGED tree
  /\ \E seen \in BOOLEAN :
       (~seen => Unseen(Head(r.todo))) /\ Turn(r, Tail(r.todo), r.bad \/ seen, FALSE)
  /\ UNCHANGED <<dialog, open, scope, config, entries, started, basis>>
(* In the transfer list, or by the signal of a cancelled or replaced loop. *)
TransferCancelled(r) ==
  /\ Awaits(r) \in {"upload", "download"} /\ Turn(r, Tail(r.todo), r.bad, TRUE)
  /\ UNCHANGED <<dialog, tree, open, scope, config, entries, started, basis>>

Answer(r) ==
  \/ Compares(r) \/ Lists(r) \/ ListingFails(r) \/ Lands(r) \/ Fails(r) \/ TransferCancelled(r)
Next ==
  \/ Open \/ Close \/ Retarget \/ ViewGoes \/ Configure \/ Compare \/ Check \/ Sync \/ Cancel
  \/ \E r \in runs : Answer(r)

(* The backend answers every command, and the queue settles every transfer. *)
Progress == \E r \in runs : r.scope = scope /\ Answer(r)
Fairness == WF_vars(Progress)
Spec == Init /\ [][Next]_vars /\ Fairness

(***************************************************************************)
(* Properties                                                              *)
(***************************************************************************)
Ops == [item : Items \cup {None}, to : {"local", "remote"},
        action : {"compare", "list", "root", "mkdir", "create-dir", "upload", "download", "delete-remote"}]
TypeOK ==
  /\ dialog \in Dialogs /\ tree \in [{"local", "remote"} -> [Items -> Contents]]
  /\ open \in BOOLEAN /\ scope \in 0..MaxScopes /\ config \in Configs /\ cancel \in BOOLEAN
  /\ phase \in {"idle", "comparing", "syncing", "completed", "cancelled", "error"}
  /\ entries # None => DOMAIN entries \subseteq Items
  /\ runs \subseteq [scope : 0..scope, todo : Seq(Ops) \ {<<>>}, bad : BOOLEAN]
  /\ report \in {None, "clean", "errors"}

(* A dialog is busy exactly while one loop of its present scope is at work: no       *)
(* spinner turns for ever after a close or a change of path, and no two loops share  *)
(* cancelRef within a scope.                                                         *)
BusyIsOneLoop ==
  LET own == {r \in runs : r.scope = scope}
  IN IF Busy THEN \E r \in own : own = {r} ELSE own = {}

(* After a cancel, or once the paths or the connection it works for are replaced, a  *)
(* loop begins no further operation on either tree.                                  *)
GoesOnUncancelled == \A r \in runs' \ runs : r.scope = scope' /\ ~cancel'

(* What "Sync complete" without an error promises when everything that differs was   *)
(* checked and no loop of an earlier scope was still at work: files are equal in     *)
(* size on both sides and, towards the remote, nothing is missing there and, if      *)
(* asked for, nothing is left over.                                                  *)
Complete == report = "clean" /\ basis # None /\ basis.alone
SameSize(i) == IsFile(tree["local"][i]) /\ IsFile(tree["remote"][i]) /\ tree["local"][i].size = tree["remote"][i].size
SyncedMatches ==
  dialog = "sync" /\ Complete /\ basis.all /\ basis.config.criteria # "modified" =>
    \A i \in Listed(basis.config) :
      LET l == tree["local"][i]
          r == tree["remote"][i]
      IN /\ IsFile(l) /\ IsFile(r) => SameSize(i)
         /\ basis.config.dir = "up" => /\ IsFile(l) => SameSize(i)
                                       /\ l = Dir => r = Dir
                                       /\ basis.config.orphans /\ l = None => r = None

(* When a directory transfer completes without an error, every file of the source is *)
(* at the destination, although failures to create directories may go unnoticed.     *)
FilesArrive ==
  dialog = "directory" /\ Complete =>
    \A i \in Items : IsFile(tree[From(basis.config)][i]) => SameSize(i)

(* Types and invariants together. *)
Inv == TypeOK /\ BusyIsOneLoop /\ SyncedMatches /\ FilesArrive
=============================================================================
