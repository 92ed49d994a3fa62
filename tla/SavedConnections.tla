-------------------------- MODULE SavedConnections --------------------------
(***************************************************************************)
(* The saved connections and their folders in localStorage                 *)
(* (connection-storage.ts, connection-order.ts), the secrets of theirs in  *)
(* the Keychain (credential-storage.ts), and the operations of the         *)
(* connection manager, of the connection form and of the start of the app  *)
(* on both.  localStorage is read and written at once; every call of the   *)
(* Keychain is awaited, and anything may run meanwhile.                    *)
(*                                                                         *)
(* A folder is its path, a sequence of names: the root is <<>>, and the    *)
(* parent is the path without its last name.  All the secrets of one       *)
(* connection are one entry of the Keychain, its hasStored* flags one flag.*)
(***************************************************************************)
EXTENDS Naturals, SequencesExt

CONSTANTS
  Ids,       \* connections that may ever be saved
  Fresh,     \* those among them the user has yet to save
  Old,       \* saved before there was a Keychain, with their secrets
  Names,     \* names of folders
  MaxDepth,  \* bound: names in a path
  MaxFolders,\* bound: folders beside the root when one is created or renamed
  MaxEdits,  \* bound: operations the user begins
  None
VARIABLES
  conns,     \* 'skd-connections': sequence of [id, folder, stored, plain]
  folders,   \* 'skd-connection-folders': sequence of paths, the root included
  bookmarks, \* connections that have port-forward bookmarks
  keychain,  \* connections that have secrets in the Keychain
  swept,     \* KEYCHAIN_MIGRATION_FLAG
  sweep,     \* the migration in flight: what it read, the secrets to store, one failed
  ops,       \* awaiting operations
  edits,     \* operations begun
  torn       \* history: connections an operation left half done, or overwrote with old data

vars == <<conns, folders, bookmarks, keychain, swept, sweep, ops, edits, torn>>
stores == <<keychain, swept, sweep, ops>>

IdsOf(cs) == {cs[k].id : k \in DOMAIN cs}
Saved(id) == conns[CHOOSE k \in DOMAIN conns : conns[k].id = id]
Paths == UNION {[1..n -> Names] : n \in 0..MaxDepth}
Parent(p) == IF p = <<>> THEN None ELSE Front(p)
Within(p, q) == IsPrefix(q, p)

(* sanitizeConnectionForStorage: whatever is written loses its plaintext secrets. *)
Sanitized(cs) == [k \in DOMAIN cs |-> [cs[k] EXCEPT !.plain = FALSE]]
Persist(cs) == conns' = Sanitized(cs)

(* The migration works on what the app finds when it starts. *)
Sweep(cs) == [was |-> cs, left |-> {c.id : c \in {x \in ToSet(cs) : x.plain}}, failed |-> FALSE]
SweepFor(done, cs) == IF done THEN None ELSE Sweep(cs)

Init ==
  /\ conns = LET had == SetToSeq(Ids \ Fresh) IN
             [k \in DOMAIN had |-> [id |-> had[k], folder |-> <<>>, stored |-> had[k] \notin Old, plain |-> had[k] \in Old]]
  /\ folders = << <<>> >> \o SetToSeq({<<n>> : n \in Names})
  /\ bookmarks = {} /\ keychain = (Ids \ Fresh) \ Old
  /\ swept = (Old = {}) /\ sweep = SweepFor(swept, conns)
  /\ ops = {} /\ edits = 0 /\ torn = {}

Begin == edits < MaxEdits /\ edits' = edits + 1

(***************************************************************************)
(* The order of connections and folders: pure operators                    *)
(***************************************************************************)
(* spliceGroup: the members of a group, in a new order, where the first of them was. *)
SpliceGroup(items, group, In(_)) ==
  LET k == IF \E j \in DOMAIN items : In(items[j])
           THEN CHOOSE j \in DOMAIN items : In(items[j]) /\ \A i \in 1..(j-1) : ~In(items[i])
           ELSE Len(items) + 1
      Out(x) == ~In(x)
  IN  SubSeq(items, 1, k - 1) \o group \o SelectSeq(SubSeq(items, k, Len(items)), Out)

(* A member put before or after another one, or last when there is none. *)
PutBeside(group, x, k, after) == InsertAt(group, IF after THEN k + 1 ELSE k, x)

WithoutConn(cs, id) == SelectSeq(cs, LAMBDA c : c.id # id)
MovedConn(cs, id, f) ==   \* moveConnectionToFolder
  LET at == CHOOSE k \in DOMAIN cs : cs[k].id = id
      In(c) == c.folder = f
      rest == WithoutConn(cs, id)
  IN  IF id \notin IdsOf(cs) \/ cs[at].folder = f THEN cs
      ELSE SpliceGroup(rest, Append(SelectSeq(rest, In), [cs[at] EXCEPT !.folder = f]), In)
PlacedConn(cs, id, target, after) ==   \* reorderConnections, into the folder of the target
  LET at == CHOOSE k \in DOMAIN cs : cs[k].id = id
      f  == cs[CHOOSE k \in DOMAIN cs : cs[k].id = target].folder
      In(c) == c.folder = f
      rest == WithoutConn(cs, id)
      group == SelectSeq(rest, In)
      to == CHOOSE k \in DOMAIN group : group[k].id = target
  IN  SpliceGroup(rest, PutBeside(group, [cs[at] EXCEPT !.folder = f], to, after), In)
PlacedFolder(fs, p, target, after) ==   \* reorderSiblingFolders
  LET In(q) == Parent(q) = Parent(p)
      rest  == SelectSeq(fs, LAMBDA q : q # p)
      group == SelectSeq(rest, In)
      to    == CHOOSE k \in DOMAIN group : group[k] = target
  IN  SpliceGroup(rest, PutBeside(group, p, to, after), In)

Created(fs, p) == IF p \in ToSet(fs) THEN fs ELSE Append(fs, p)
Relocate(p, from, to) == IF Within(p, from) THEN to \o SubSeq(p, Len(from) + 1, Len(p)) ELSE p
(* The folder moved goes behind the last folder of its new parent, its subfolders stay put. *)
Relocated(fs, from, to) ==
  LET rest == SelectSeq([k \in DOMAIN fs |-> Relocate(fs[k], from, to)], LAMBDA q : q # to)
      last == {k \in DOMAIN rest : Parent(rest[k]) = Parent(to)}
      at   == IF last = {} THEN Len(rest) + 1 ELSE 1 + CHOOSE k \in last : \A j \in last : j <= k
  IN  InsertAt(rest, at, to)

(***************************************************************************)
(* The connection manager: what it does at once                            *)
(***************************************************************************)
(* Dragging a row; the row that is over decides what a drop does. *)
Arranges == Begin /\ UNCHANGED <<bookmarks, stores, torn>>
DropInside(parent, target) == parent # target
DropBeside(parent, other) == parent = other
Collides(p, to) == \E q \in ToSet(folders) : ~Within(q, p) /\ Within(q, to)

MoveConn(id, f) ==
  /\ Arranges /\ DropInside(Saved(id).folder, f) /\ Persist(MovedConn(conns, id, f)) /\ UNCHANGED folders
PlaceConn(id, target, after) ==
  LET next == PlacedConn(conns, id, target, after)
  IN  Arranges /\ id # target /\ next # conns /\ Persist(next) /\ UNCHANGED folders
PlaceFolder(p, q, after) ==
  LET next == PlacedFolder(folders, p, q, after)
  IN  Arranges /\ p # q /\ p # <<>> /\ DropBeside(Parent(p), Parent(q)) /\ next # folders /\ folders' = next /\ UNCHANGED conns

Room == Len(folders) <= MaxFolders
CreateFolder(p) ==
  /\ Arranges /\ Room /\ p \notin ToSet(folders) /\ folders' = Created(folders, p) /\ UNCHANGED conns

MoveFolder(p, target) ==   \* with its whole subtree; a write that fails is undone
  /\ Arranges /\ p # <<>> /\ DropInside(Parent(p), target) /\ ~Within(target, p)
  /\ LET to == Append(target, Last(p)) IN
       /\ ~Collides(p, to)
       /\ \A q \in ToSet(folders) : Within(q, p) => Len(Relocate(q, p, to)) <= MaxDepth
       /\ \/ /\ folders' = Relocated(folders, p, to)
             /\ Persist([k \in DOMAIN conns |-> [conns[k] EXCEPT !.folder = Relocate(@, p, to)]])
          \/ UNCHANGED <<folders, conns>>

(* Removing the folder's subtree, with the connections and the bookmarks in it; no secret. *)
Pruned(fs, p) == SelectSeq(fs, LAMBDA q : ~Within(q, p))
Emptied(cs, p) == SelectSeq(cs, LAMBDA c : ~Within(c.folder, p))
DeleteFolder(p) ==
  /\ Begin /\ p # <<>> /\ folders' = Pruned(folders, p) /\ Persist(Emptied(conns, p))
  /\ bookmarks' = bookmarks \ (IdsOf(conns) \ IdsOf(Emptied(conns, p)))
  /\ UNCHANGED <<stores, torn>>

(* Renaming creates the folder and its subfolders anew, moves the connections one by one, *)
(* and deletes the old folder with whatever is still in it.                               *)
RenamedTree(p, to) == FoldLeft(LAMBDA fs, q : Created(fs, Relocate(q, p, to)), folders,
                               <<p>> \o SelectSeq(folders, LAMBDA q : Within(q, p) /\ q # p))
RenamedConns(p, to) == FoldLeft(LAMBDA cs, c : MovedConn(cs, c.id, Relocate(c.folder, p, to)), conns,
                                SelectSeq(conns, LAMBDA c : Within(c.folder, p)))
RenameFolder_TopOnly(p, n) ==
  LET to == Append(Parent(p), n) IN
  /\ Begin /\ p # <<>> /\ Room /\ folders' = Pruned(Created(folders, to), p)
  /\ Persist(Emptied(RenamedConns(p, to), p))
  /\ bookmarks' = bookmarks \ {c.id : c \in {x \in ToSet(RenamedConns(p, to)) : Within(x.folder, p)}}
  /\ UNCHANGED <<stores, torn>>
RenameFolder(p, n) ==
  LET to == Append(Parent(p), n) IN
  /\ Begin /\ p # <<>> /\ Room
  /\ folders' = Pruned(RenamedTree(p, to), p) /\ Persist(Emptied(RenamedConns(p, to), p))
  /\ bookmarks' = bookmarks \ {c.id : c \in {x \in ToSet(RenamedConns(p, to)) : Within(x.folder, p)}}
  /\ UNCHANGED <<stores, torn>>

Bookmark(id) ==   \* the port-forward dialog of a saved connection
  Begin /\ id \notin bookmarks /\ bookmarks' = bookmarks \cup {id} /\ UNCHANGED <<conns, folders, stores, torn>>

(***************************************************************************)
(* Operations that await the Keychain.  pc is the call awaited, "clear" or *)
(* "put" (or "read", of the connection that is copied), or "write": its    *)
(* answer is here and localStorage is next.                                *)
(***************************************************************************)
Op(kind, id, pc, folder, flag) == [kind |-> kind, id |-> id, pc |-> pc, folder |-> folder, flag |-> flag]
Form == \E o \in ops : o.kind \in {"save", "update"}   \* there is one connection form
Begins(o) == Begin /\ o.id \notin {x.id : x \in {y \in ops : y.kind = o.kind}} /\ ops' = ops \cup {o}
             /\ UNCHANGED <<conns, folders, bookmarks, keychain, swept, sweep, torn>>
Unused == Fresh \ (IdsOf(conns) \cup {o.id : o \in ops} \cup torn \cup IF sweep = None THEN {} ELSE IdsOf(sweep.was))

Save(f, keep) ==      \* saveConnectionWithCredentials, of a new connection
  ~Form /\ Unused # {} /\ Begins(Op("save", CHOOSE i \in Unused : TRUE, "clear", f, keep))
UpdateSecrets(id, keep) == Op("update", id, IF keep THEN "put" ELSE "clear", None, keep)
Update(id, keep) ==   \* updateConnectionWithCredentials, with a new secret, or remembering none
  ~Form /\ Begins(UpdateSecrets(id, keep))
Delete(id) == Begins(Op("delete", id, "clear", None, FALSE))
Copy(id) ==           \* handleDuplicate: the new connection's folder, and then its secrets, are read first
  /\ Unused # {}
  /\ Begins([Op("copy", CHOOSE i \in Unused : TRUE, "read", Saved(id).folder, Saved(id).stored) EXCEPT !.pc = id])

Next1(o, x) == ops' = (ops \ {o}) \cup {x}
Raced(o) == torn' = IF sweep = None THEN torn ELSE torn \cup {o.id}   \* the migration will write older flags
Cleared_NoStore(o) ==
  /\ o.pc = "clear" /\ keychain' = keychain \ {o.id} /\ Next1(o, [o EXCEPT !.pc = "write"])
  /\ Raced(o) /\ UNCHANGED <<conns, folders, bookmarks, swept, sweep, edits>>
Cleared(o) ==   \* delete_connection_secrets, which storeConnectionSecrets begins with
  /\ o.pc = "clear" /\ keychain' = keychain \ {o.id}
  /\ Next1(o, [o EXCEPT !.pc = IF o.flag THEN "put" ELSE "write"])
  /\ Raced(o) /\ UNCHANGED <<conns, folders, bookmarks, swept, sweep, edits>>
Put(o) ==       \* store_connection_secret
  /\ o.pc = "put" /\ keychain' = keychain \cup {o.id} /\ Next1(o, [o EXCEPT !.pc = "write"])
  /\ UNCHANGED <<conns, folders, bookmarks, swept, sweep, edits, torn>>
Copied(o) ==    \* getConnectionWithCredentials has read the secrets: the copy is saved before they are stored
  /\ o.kind = "copy" /\ o.pc \in Ids /\ (o.flag => o.pc \in keychain)
  /\ Next1(o, [o EXCEPT !.pc = "clear"])
  /\ Persist(Append(conns, [id |-> o.id, folder |-> o.folder, stored |-> o.flag, plain |-> FALSE]))
  /\ torn' = IF o.folder \in ToSet(folders) THEN torn ELSE torn \cup {o.id}
  /\ UNCHANGED <<folders, bookmarks, keychain, swept, sweep, edits>>
Fails(o) ==     \* the Keychain refuses: the handler ends
  /\ o.pc # "write" /\ ops' = ops \ {o}
  /\ torn' = IF o.kind = "copy" /\ o.pc \notin Ids THEN torn \cup {o.id} ELSE torn
  /\ UNCHANGED <<conns, folders, bookmarks, keychain, swept, sweep, edits>>

Flagged(cs, id, flag) == [k \in DOMAIN cs |-> IF cs[k].id = id THEN [cs[k] EXCEPT !.stored = flag] ELSE cs[k]]
Written(o) ==
  /\ o.pc = "write" /\ ops' = ops \ {o}
  /\ Persist(CASE o.kind = "save" -> Append(conns, [id |-> o.id, folder |-> o.folder, stored |-> o.flag, plain |-> FALSE])
               [] o.kind = "delete" -> WithoutConn(conns, o.id)
               [] OTHER -> Flagged(conns, o.id, o.flag))
  /\ bookmarks' = IF o.kind = "delete" THEN bookmarks \ {o.id} ELSE bookmarks
  /\ torn' = IF o.kind = "save" /\ o.folder \notin ToSet(folders) THEN torn \cup {o.id} ELSE torn
  /\ UNCHANGED <<folders, keychain, swept, sweep, edits>>

(***************************************************************************)
(* The migration of plaintext secrets, and the end of the app              *)
(***************************************************************************)
Merged(id) ==
  /\ sweep # None /\ id \in sweep.left /\ sweep' = [sweep EXCEPT !.left = @ \ {id}]
  /\ keychain' = keychain \cup {id}
  /\ UNCHANGED <<conns, folders, bookmarks, swept, ops, edits, torn>>
MergeFails(id) ==
  /\ sweep # None /\ id \in sweep.left /\ sweep' = [sweep EXCEPT !.left = @ \ {id}, !.failed = TRUE]
  /\ UNCHANGED <<conns, folders, bookmarks, keychain, swept, ops, edits, torn>>
(* replaceAllConnections: what was read, with flags for what was stored. *)
Replacement == [k \in DOMAIN sweep.was |-> [sweep.was[k] EXCEPT !.stored = @ \/ sweep.was[k].plain]]
Overwritten == {id \in IdsOf(conns) \cup IdsOf(sweep.was) :
                  ~\E c \in ToSet(conns) : c.id = id /\ [c EXCEPT !.plain = FALSE] \in ToSet(Sanitized(sweep.was))}
SweepEnds ==
  /\ sweep # None /\ sweep.left = {} /\ sweep' = None
  /\ IF sweep.failed THEN UNCHANGED <<conns, swept, torn>>
     ELSE Persist(Replacement) /\ swept' = TRUE /\ torn' = torn \cup Overwritten
  /\ UNCHANGED <<folders, bookmarks, keychain, ops, edits>>

Quit ==   \* and start again
  /\ torn' = torn \cup {o.id : o \in ops} /\ ops' = {} /\ sweep' = SweepFor(swept, conns)
  /\ UNCHANGED <<conns, folders, bookmarks, keychain, swept, edits>>

Folders == ToSet(folders)
Entries == {c.id : c \in {x \in ToSet(conns) : x.folder \in Folders}}   \* buildConnectionTree: what has a row;
           \ {o.id : o \in {x \in ops : x.kind = "copy"}}                \* a copy gets its row when it is done
Arrange ==
  \/ \E id \in Entries : \/ \E f \in Folders : MoveConn(id, f)
                         \/ \E target \in Entries, after \in BOOLEAN : PlaceConn(id, target, after)
  \/ \E p, q \in Folders : MoveFolder(p, q) \/ \E after \in BOOLEAN : PlaceFolder(p, q, after)
Next ==
  \/ /\ edits < MaxEdits   \* what the user does
     /\ \/ Arrange
        \/ \E p \in Paths \ {<<>>} : Parent(p) \in Folders /\ CreateFolder(p)
        \/ \E p \in Folders : DeleteFolder(p) \/ \E n \in Names : RenameFolder(p, n)
        \/ \E f \in Folders, keep \in BOOLEAN : Save(f, keep)
        \/ \E id \in Entries : Bookmark(id) \/ Delete(id) \/ Copy(id) \/ \E keep \in BOOLEAN : Update(id, keep)
  \/ \E o \in ops : Cleared(o) \/ Put(o) \/ Copied(o) \/ Written(o) \/ Fails(o)
  \/ \E id \in Ids : Merged(id) \/ MergeFails(id)
  \/ SweepEnds
  \/ Quit

Spec == Init /\ [][Next]_vars

(***************************************************************************)
(* Properties                                                              *)
(***************************************************************************)
(* The types of the stores; no path and no id is stored twice. *)
TypeOK ==
  /\ conns \in Seq([id : Ids, folder : Paths, stored : BOOLEAN, plain : BOOLEAN])
  /\ folders \in Seq(Paths) /\ IsInjective(folders) /\ IsInjective([k \in DOMAIN conns |-> conns[k].id])
  /\ bookmarks \subseteq Ids /\ keychain \subseteq Ids /\ torn \subseteq Ids /\ edits \in 0..MaxEdits

(* The tree the user sees, which is built from the root downwards, shows every folder,  *)
(* and every connection except one that an operation saved into a folder removed in the *)
(* meantime: moving, renaming and deleting subtrees keeps the two lists in step.        *)
AllShown ==
  /\ <<>> \in Folders /\ \A p \in Folders \ {<<>>} : Parent(p) \in Folders
  /\ \A c \in ToSet(conns) : c.folder \in Folders \/ c.id \in torn

(* Rearranging by dragging loses and invents nothing: the rows of every folder, but for *)
(* the connection or the folder that was dragged, stay in the order they were in.       *)
Rows(cs, f, id) == LET row == SelectSeq(cs, LAMBDA c : c.folder = f /\ c.id # id) IN [k \in DOMAIN row |-> row[k].id]
Children(fs, f, p) == SelectSeq(fs, LAMBDA q : Parent(q) = f /\ ~Within(q, p))
RowsStay ==
  /\ folders' = folders /\ Len(conns') = Len(conns) /\ IdsOf(conns') = IdsOf(conns)
  /\ \E id \in Ids : \A f \in Folders : Rows(conns', f, id) = Rows(conns, f, id)
FoldersStay ==
  /\ Len(folders') = Len(folders)
  /\ [k \in DOMAIN conns' |-> conns'[k].id] = [k \in DOMAIN conns |-> conns[k].id]
  /\ \E p \in Folders, to \in ToSet(folders') : \A f \in Folders :
       Within(f, p) \/ SelectSeq(Children(folders', f, p), LAMBDA q : q # to) = Children(folders, f, p)
DragIsLocal == ~UNCHANGED <<stores, bookmarks>> \/ RowsStay \/ FoldersStay \/ ~Arrange

(* A connection marked as having stored secrets has them, unless an operation on it is    *)
(* awaiting the Keychain, or one was cut off or overwrote it with what it had read before. *)
FlagIsBacked ==
  \A c \in ToSet(conns) : c.stored => c.id \in keychain \cup torn \/ \E o \in ops : o.id = c.id

(* No bookmark outlives its connection. *)
BookmarksOwned == bookmarks \subseteq IdsOf(conns) \cup torn

(* What the comments of handleRenameFolder promise: all connections move to the new paths. *)
RenameKeepsAll == [][\A p \in Folders, n \in Names : RenameFolder(p, n) => IdsOf(conns') = IdsOf(conns)]_vars

(* Types and invariants together. *)
Inv == TypeOK /\ AllShown /\ BookmarksOwned
=============================================================================
