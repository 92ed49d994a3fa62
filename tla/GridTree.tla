------------------------------ MODULE GridTree ------------------------------
(***************************************************************************)
(* The split trees of the workspace: the tree helpers of                   *)
(* terminal-group-reducer.ts, and the components of grid-renderer.tsx that  *)
(* draw the live page's tree and report the user's resizing.               *)
(*                                                                         *)
(* A component is identified by its key path: the stable keys (smallest    *)
(* pane of the subtree) from the root down.  A drag of a divider reaches    *)
(* the reducer one animation frame later, with the index path the          *)
(* component had when the frame was requested.  TerminalGroups has the      *)
(* groups and pages; here a pane is its number.                             *)
(***************************************************************************)
EXTENDS Integers, FiniteSets, Functions, SequencesExt

CONSTANTS
  MaxPane,    \* bound: panes ever made
  Shares      \* bound: pairs of percentages a divider is dragged to

VARIABLES
  grid,       \* page -> tree
  live,       \* the page shown
  nextPane,   \* nextGroupId
  frames      \* key path -> [path, sizes]: the frame its component waits for

vars == <<grid, live, nextPane, frames>>

Leaf(g) == [pane |-> g]
Branch(dir, kids, sizes) == [dir |-> dir, kids |-> kids, sizes |-> sizes]
IsLeaf(t) == "pane" \in DOMAIN t
Even == <<50, 50>>

(* A tree has fewer levels of dividers than panes were ever made. *)
TreesTo[n \in Nat] ==
  [pane : Nat] \cup
  IF n = 0 THEN {} ELSE [dir : {"horizontal", "vertical"}, kids : Seq(TreesTo[n - 1]), sizes : Seq(Nat)]
Trees == TreesTo[MaxPane]

collectLeafIds[t \in Trees] ==
  IF IsLeaf(t) THEN <<t.pane>> ELSE FlattenSeq([i \in DOMAIN t.kids |-> collectLeafIds[t.kids[i]]])
Panes(t) == ToSet(collectLeafIds[t])

insertSplit(tree, g, new, dir) ==
  LET split == Branch(IF dir \in {"left", "right"} THEN "horizontal" ELSE "vertical",
                      IF dir \in {"right", "down"} THEN <<Leaf(g), Leaf(new)>> ELSE <<Leaf(new), Leaf(g)>>, Even)
      in[t \in Trees] ==
        IF ~IsLeaf(t) THEN [t EXCEPT !.kids = [i \in DOMAIN @ |-> in[@[i]]]]
        ELSE IF t.pane = g THEN split ELSE t
  IN  in[tree]

normalizeSizes(sizes) ==
  LET sum == FoldSeq(+, 0, sizes)
  IN [i \in DOMAIN sizes |-> IF sum = 0 THEN 100 \div Len(sizes) ELSE (sizes[i] * 100) \div sum]
(* An emptied tree is <<>>, for null. *)
removeLeaf(tree, g) ==
  LET rest[t \in Trees] ==
        IF IsLeaf(t) THEN IF t.pane = g THEN <<>> ELSE t
        ELSE LET cut  == [i \in DOMAIN t.kids |-> rest[t.kids[i]]]
                 kept == SelectSeq([i \in DOMAIN cut |-> i], LAMBDA i : cut[i] # <<>>)
             IN IF kept = <<>> THEN <<>>
                ELSE IF cut = t.kids THEN t
                ELSE Branch(t.dir, [j \in DOMAIN kept |-> cut[kept[j]]],
                            normalizeSizes([j \in DOMAIN kept |-> t.sizes[kept[j]]]))
  IN  rest[tree]
simplifyTree[t \in Trees] ==
  IF IsLeaf(t) THEN t
  ELSE LET kids == [i \in DOMAIN t.kids |-> simplifyTree[t.kids[i]]]
       IN IF Len(kids) = 1 THEN kids[1] ELSE [t EXCEPT !.kids = kids]
Without_Unsimplified(t, g) == removeLeaf(t, g)
Without(t, g) == simplifyTree[removeLeaf(t, g)]

updateSizes(tree, path, sizes) ==
  LET at[t \in Trees, p \in Seq(Nat)] ==
        IF IsLeaf(t) THEN t
        ELSE IF p = <<>> THEN [t EXCEPT !.sizes = sizes]
        ELSE IF Head(p) \notin DOMAIN t.kids THEN t
        ELSE [t EXCEPT !.kids[Head(p)] = at[@, Tail(p)]]
  IN  at[tree, path]

(* minLeafGroupId: the least pane of a subtree names it *)
getStableKey_First(t) == Head(collectLeafIds[t])
getStableKey(t) == LET panes == Panes(t) IN CHOOSE g \in panes : \A h \in panes : g <= h
(* Every component GridRenderer and GridRendererChild make for a tree *)
Nodes[t \in Trees] ==
  {[keys |-> <<>>, path |-> <<>>, node |-> t]} \cup
  IF IsLeaf(t) THEN {}
  ELSE UNION {{[keys |-> <<getStableKey(t.kids[i])>> \o n.keys, path |-> <<i>> \o n.path, node |-> n.node]
                 : n \in Nodes[t.kids[i]]} : i \in DOMAIN t.kids}
KeyPaths(t) == {n.keys : n \in Nodes[t]}

Init ==
  /\ grid = <<Leaf(1), Leaf(2)>> /\ live = 1 /\ nextPane = 3 /\ frames = <<>>

(* A component that is no longer drawn cancels its frame. *)
Shows(trees, page) ==
  /\ grid' = trees /\ live' = page
  /\ frames' = Restrict(frames, DOMAIN frames \cap KeyPaths(trees[page]))

Split ==
  /\ nextPane <= MaxPane /\ nextPane' = nextPane + 1
  /\ \E g \in Panes(grid[live]), dir \in {"left", "right", "up", "down"} :
       Shows([grid EXCEPT ![live] = insertSplit(@, g, nextPane, dir)], live)
(* A pane closes, on the page shown or another.  A page's last pane takes the page    *)
(* along, which TerminalGroups has.                                                   *)
Close ==
  \E p \in DOMAIN grid : \E g \in Panes(grid[p]) :
    /\ ~IsLeaf(grid[p]) /\ Shows([grid EXCEPT ![p] = Without(@, g)], live)
    /\ UNCHANGED nextPane
(* The only session of g is dragged to the edge of `at`: a new pane, and g goes. *)
Move ==
  /\ nextPane <= MaxPane /\ nextPane' = nextPane + 1
  /\ \E p \in DOMAIN grid, at \in Panes(grid[live]), dir \in {"left", "down"} : \E g \in Panes(grid[p]) :
       /\ ~IsLeaf(grid[p])
       /\ LET split == [grid EXCEPT ![live] = insertSplit(@, at, nextPane, dir)]
          IN Shows([split EXCEPT ![p] = Without(@, g)], live)
ShowPage == \E p \in DOMAIN grid \ {live} : Shows(grid, p) /\ UNCHANGED nextPane

Dividers == {n \in Nodes[grid[live]] : ~IsLeaf(n.node)}
handleLayout ==
  \E n \in Dividers, sizes \in Shares :
    /\ n.node.sizes # sizes
    /\ frames' = [k \in DOMAIN frames \cup {n.keys} |->
         [path |-> IF k \in DOMAIN frames THEN frames[k].path ELSE n.path,
          sizes |-> IF k = n.keys THEN sizes ELSE frames[k].sizes]]
    /\ UNCHANGED <<grid, live, nextPane>>
Frame ==
  \E k \in DOMAIN frames :
    /\ grid' = [grid EXCEPT ![live] = updateSizes(@, frames[k].path, frames[k].sizes)]
    /\ frames' = Restrict(frames, DOMAIN frames \ {k})
    /\ UNCHANGED <<live, nextPane>>
handleDoubleClick ==
  \E n \in Dividers :
    /\ grid' = [grid EXCEPT ![live] = updateSizes(@, n.path, Even)]
    /\ UNCHANGED <<live, nextPane, frames>>

Next == Split \/ Close \/ Move \/ ShowPage \/ handleLayout \/ Frame \/ handleDoubleClick
Spec == Init /\ [][Next]_vars

TypeOK == live \in DOMAIN grid /\ nextPane \in 3 .. (MaxPane + 1)
(* Whatever splits, closes, moves and late resizes did, every divider has two sides,   *)
(* their shares fill the space, and no pane is drawn twice: a frame that comes after   *)
(* the tree changed, with the path of another divider or of none, harms no shape.      *)
TreesAreSound ==
  /\ \A p \in DOMAIN grid : \A n \in Nodes[grid[p]] :
       ~IsLeaf(n.node) => /\ Len(n.node.kids) = 2 /\ Len(n.node.sizes) = 2
                          /\ FoldSeq(+, 0, n.node.sizes) = 100
  /\ IsInjective(collectLeafIds[grid[1]] \o collectLeafIds[grid[2]])
(* A split keeps every component that was drawn: the comment on getStableKey relies    *)
(* on panes made later having larger numbers, in whichever direction they split.       *)
SplitKeepsComponents ==
  nextPane' = nextPane \/ KeyPaths(grid[live]) \subseteq KeyPaths(grid'[live]) \/ ~Split

(* Types and invariants together. *)
Inv == TypeOK /\ TreesAreSound
=============================================================================
