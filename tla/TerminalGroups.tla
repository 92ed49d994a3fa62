-------------------------- MODULE TerminalGroups --------------------------
(***************************************************************************)
(* The workspace layout of src/lib/terminal-group-reducer.ts: sessions     *)
(* (tabs) live in groups (panes), the panes of a page form its grid, and   *)
(* the titlebar shows one segment per page.  React runs the reducer on one *)
(* action at a time, so one dispatch is one step.                          *)
(*                                                                         *)
(* A grid is kept as the sequence of its leaves in collectLeafIds order:   *)
(* that order, not the nesting, decides every fallback of the reducer.     *)
(* What the trees themselves guarantee is module GridTree's subject.       *)
(* Group and page ids are numbers, as the code counts them; Object.keys    *)
(* lists integer keys in ascending order, so its first key is the minimum. *)
(***************************************************************************)
EXTENDS Naturals, FiniteSets, SequencesExt

CONSTANTS
  Tabs,       \* session ids
  NoTab,      \* null activeTabId
  MaxGroup,   \* bound: group ids ever given out
  MaxPage     \* bound: page ids ever given out

VARIABLE layout   \* TerminalGroupState

(* On the leaf order "up" acts as "left" and "down" as "right". *)
Directions == {"left", "right"}

Group(tabs, active) == [tabs |-> tabs, activeTabId |-> active]
Page(id, grid, active) == [id |-> id, gridLayout |-> grid, activeGroupId |-> active]

DefaultState ==
  [groups |-> [g \in {1} |-> Group(<<>>, NoTab)], activeGroupId |-> 1, gridLayout |-> <<1>>,
   nextGroupId |-> 2, tabToGroupMap |-> <<>>,
   pages |-> <<Page(1, <<1>>, 1)>>, activePageId |-> 1, nextPageId |-> 2]

OpenTabs(s) == UNION {ToSet(s.groups[g].tabs) : g \in DOMAIN s.groups}
GroupIds(s) == DOMAIN s.groups
PageIds(s)  == {p.id : p \in ToSet(s.pages)}

Drop(f, S) == Restrict(f, DOMAIN f \ S)
With(f, x, v) == [y \in DOMAIN f \cup {x} |-> IF y = x THEN v ELSE f[y]]
SetGroup(s, g, r) == [s EXCEPT !.groups = With(@, g, r)]
At(seq, e) == SelectInSeq(seq, LAMBDA x : x = e)
(* The filter by which the code takes e out of seq, which holds it once. *)
Minus(seq, e) == RemoveAt(seq, At(seq, e))
PageAt(s, id) == SelectInSeq(s.pages, LAMBDA p : p.id = id)
InsertBeside(grid, g, new, dir) ==
  IF ~Contains(grid, g) THEN grid
  ELSE InsertAt(grid, At(grid, g) + (IF dir = "right" THEN 1 ELSE 0), new)

(* rememberActivePage: the live grid and focus written onto the active page *)
Remember(s) ==
  [s EXCEPT !.pages = [i \in DOMAIN @ |->
     IF @[i].id = s.activePageId THEN Page(@[i].id, s.gridLayout, s.activeGroupId) ELSE @[i]]]

(* pickAdjacentTab after the tab at index i left: right neighbour, else the last *)
Adjacent(tabs, i) == IF tabs = <<>> THEN NoTab
                     ELSE IF i <= Len(tabs) THEN tabs[i] ELSE Last(tabs)
Without(r, t) ==
  LET rest == Minus(r.tabs, t)
  IN  Group(rest, IF r.activeTabId = t THEN Adjacent(rest, At(r.tabs, t)) ELSE r.activeTabId)

(* gridOwningGroup: index of the page whose grid holds the group, 0 for none *)
Owner_LiveOnly(s, g) == IF Contains(s.gridLayout, g) THEN PageAt(s, s.activePageId) ELSE 0
Owner(s, g) ==
  IF Contains(s.gridLayout, g) /\ s.activePageId \in PageIds(s) THEN PageAt(s, s.activePageId)
  ELSE SelectInSeq(s.pages, LAMBDA p : p.id # s.activePageId /\ Contains(p.gridLayout, g))

GridOf(s, i) == IF s.pages[i].id = s.activePageId THEN s.gridLayout ELSE s.pages[i].gridLayout

(* removeGroupFromState: the pane leaves its grid; an emptied page goes and *)
(* the page that takes its place in the titlebar becomes the live one.      *)
DropGroup(s, g) ==
  LET rest == [s EXCEPT !.groups = Drop(@, {g}),
                        !.tabToGroupMap = Drop(@, ToSet(s.groups[g].tabs))]
      i    == Owner(s, g)
      live == i # 0 /\ s.pages[i].id = s.activePageId
      grid == Minus(GridOf(s, i), g)
      kept == RemoveAt(s.pages, i)
      next == kept[IF i <= Len(kept) THEN i ELSE Len(kept)]
      focus == IF s.pages[i].activeGroupId = g THEN Head(grid) ELSE s.pages[i].activeGroupId
  IN  IF i = 0 THEN
        [rest EXCEPT !.activeGroupId = IF @ = g THEN Min(DOMAIN rest.groups) ELSE @]
      ELSE IF grid # <<>> THEN
        IF live THEN [rest EXCEPT !.gridLayout = grid,
                                  !.activeGroupId = IF @ = g THEN focus ELSE @]
        ELSE [rest EXCEPT !.pages[i] = Page(@.id, grid, focus)]
      ELSE IF kept = <<>> THEN
        LET left == Min(DOMAIN rest.groups)
        IN  [rest EXCEPT !.gridLayout = <<left>>, !.activeGroupId = left,
                         !.pages = <<Page(s.pages[i].id, <<left>>, left)>>,
                         !.activePageId = s.pages[i].id]
      ELSE IF ~live THEN [rest EXCEPT !.pages = kept]
      ELSE [rest EXCEPT !.pages = kept, !.activePageId = next.id, !.gridLayout = next.gridLayout,
              !.activeGroupId = IF next.activeGroupId \in DOMAIN rest.groups
                                THEN next.activeGroupId ELSE Head(next.gridLayout)]

(* maybeRemoveEmptyGroup *)
DropIfEmpty_EvenFull(s, g) == IF Cardinality(GroupIds(s)) <= 1 THEN s ELSE DropGroup(s, g)
DropIfEmpty(s, g) ==
  IF s.groups[g].tabs # <<>> \/ Cardinality(GroupIds(s)) <= 1 THEN s ELSE DropGroup(s, g)

(***************************************************************************)
(* The reducer's cases.  Each yields the unchanged state where the code    *)
(* returns early.                                                          *)
(***************************************************************************)
SPLIT_GROUP(s, g, dir) ==
  LET new == s.nextGroupId IN
  IF g \notin GroupIds(s) \/ ~Contains(s.gridLayout, g) THEN s
  ELSE [SetGroup(s, new, Group(<<>>, NoTab)) EXCEPT
          !.gridLayout = InsertBeside(@, g, new, dir), !.nextGroupId = new + 1,
          !.activeGroupId = new]

REMOVE_GROUP(s, g) ==
  IF g \notin GroupIds(s) THEN s
  ELSE IF Cardinality(GroupIds(s)) > 1 THEN DropGroup(s, g)
  ELSE [SetGroup(s, g, Group(<<>>, NoTab)) EXCEPT
          !.tabToGroupMap = Drop(@, ToSet(s.groups[g].tabs))]

ShowPage(s, i, focus) ==
  [Remember(s) EXCEPT !.activePageId = s.pages[i].id, !.gridLayout = s.pages[i].gridLayout,
                      !.activeGroupId = focus]

ACTIVATE_GROUP(s, g) ==
  LET i == Owner(s, g) IN
  IF g \notin GroupIds(s) THEN s
  ELSE IF i # 0 /\ s.pages[i].id # s.activePageId THEN ShowPage(s, i, g)
  ELSE [s EXCEPT !.activeGroupId = g]

ACTIVATE_PAGE(s, id) ==
  LET i == PageAt(s, id)
      p == s.pages[i]
  IN  IF i = 0 \/ id = s.activePageId THEN s
      ELSE ShowPage(s, i, IF p.activeGroupId \in GroupIds(s) THEN p.activeGroupId
                          ELSE Head(p.gridLayout))

REORDER_PAGE(s, id, target, placement) ==
  LET from   == PageAt(s, id)
      insert == PageAt(s, target) + (IF placement = "after" THEN 1 ELSE 0)
      to     == insert - (IF from < insert THEN 1 ELSE 0)
  IN  IF 0 \in {from, PageAt(s, target)} \/ id = target \/ from = to THEN s
      ELSE [s EXCEPT !.pages = InsertAt(RemoveAt(@, from), to, s.pages[from])]

ADD_TAB(s, t) ==
  LET g == s.activeGroupId
      new == s.nextGroupId
      saved == Remember(s)
  IN  IF g \notin GroupIds(s) THEN s
      ELSE IF s.groups[g].tabs = <<>>
      THEN [SetGroup(s, g, Group(<<t>>, t)) EXCEPT !.tabToGroupMap = With(@, t, g)]
      ELSE [SetGroup(saved, new, Group(<<t>>, t)) EXCEPT
              !.tabToGroupMap = With(@, t, new), !.gridLayout = <<new>>, !.activeGroupId = new,
              !.nextGroupId = new + 1, !.nextPageId = @ + 1, !.activePageId = s.nextPageId,
              !.pages = Append(@, Page(s.nextPageId, <<new>>, new))]

Holds(s, g, t) == g \in GroupIds(s) /\ Contains(s.groups[g].tabs, t)

REMOVE_TAB(s, g, t) ==
  IF ~Holds(s, g, t) THEN s
  ELSE DropIfEmpty([SetGroup(s, g, Without(s.groups[g], t)) EXCEPT
                      !.tabToGroupMap = Drop(@, {t})], g)

ACTIVATE_TAB(s, g, t) ==
  IF ~Holds(s, g, t) THEN s ELSE [s EXCEPT !.groups[g].activeTabId = t]

(* The i-th place of the target's tabs, or its end *)
MOVE_TAB(s, src, dst, t, i) ==
  LET left == Without(s.groups[src], t)
      into == IF src = dst THEN left.tabs ELSE s.groups[dst].tabs
      tabs == InsertAt(into, IF i <= Len(into) THEN i ELSE Len(into) + 1, t)
  IN  IF ~Holds(s, src, t) \/ dst \notin GroupIds(s) THEN s
      ELSE IF src = dst THEN SetGroup(s, src, Group(tabs, t))
      ELSE DropIfEmpty([SetGroup(SetGroup(s, src, left), dst, Group(tabs, t)) EXCEPT
                          !.tabToGroupMap = With(@, t, dst)], src)

REORDER_TAB(s, g, from, to) ==
  LET tabs == s.groups[g].tabs IN
  IF g \notin GroupIds(s) \/ from \notin DOMAIN tabs \/ to \notin DOMAIN tabs THEN s
  ELSE [s EXCEPT !.groups[g].tabs = InsertAt(RemoveAt(tabs, from), to, tabs[from])]

(* CLOSE_OTHER_TABS, CLOSE_TABS_TO_RIGHT and CLOSE_TABS_TO_LEFT keep a run of  *)
(* tabs around the pivot t.                                                   *)
CloseTabs(s, g, t, keep(_)) ==
  LET r    == s.groups[g]
      tabs == keep(At(r.tabs, t))
  IN  IF ~Holds(s, g, t) THEN s
      ELSE [SetGroup(s, g, Group(tabs, IF Contains(tabs, r.activeTabId) THEN r.activeTabId ELSE t))
              EXCEPT !.tabToGroupMap = Drop(@, ToSet(r.tabs) \ ToSet(tabs))]
CLOSE_OTHER_TABS(s, g, t)    == CloseTabs(s, g, t, LAMBDA i : <<t>>)
CLOSE_TABS_TO_RIGHT(s, g, t) == CloseTabs(s, g, t, LAMBDA i : SubSeq(s.groups[g].tabs, 1, i))
CLOSE_TABS_TO_LEFT(s, g, t)  ==
  CloseTabs(s, g, t, LAMBDA i : SubSeq(s.groups[g].tabs, i, Len(s.groups[g].tabs)))

MOVE_TAB_TO_NEW_GROUP(s, g, t, dir, at) ==
  LET new == s.nextGroupId IN
  IF ~Holds(s, g, t) \/ at \notin GroupIds(s) \/ ~Contains(s.gridLayout, at) THEN s
  ELSE DropIfEmpty(
         [SetGroup(SetGroup(s, g, Without(s.groups[g], t)), new, Group(<<t>>, t)) EXCEPT
            !.gridLayout = InsertBeside(@, at, new, dir), !.nextGroupId = new + 1,
            !.activeGroupId = new, !.tabToGroupMap = With(@, t, new)], g)

(***************************************************************************)
(* Dispatches.  terminalGroupReducer ends every action by writing the live *)
(* grid back onto its page.  The views name groups, tabs and pages of the  *)
(* state they were drawn from; a stale name is an early return above.      *)
(***************************************************************************)
Dispatch(s) == layout' = Remember(s)

Init == layout = DefaultState

SplitGroup    == \E g \in GroupIds(layout), dir \in Directions :
                   layout.nextGroupId <= MaxGroup /\ Dispatch(SPLIT_GROUP(layout, g, dir))
RemoveGroup   == \E g \in GroupIds(layout) : Dispatch(REMOVE_GROUP(layout, g))
ActivateGroup == \E g \in GroupIds(layout) : Dispatch(ACTIVATE_GROUP(layout, g))
ActivatePage  == \E id \in PageIds(layout) : Dispatch(ACTIVATE_PAGE(layout, id))
ReorderPage   == \E id, target \in PageIds(layout), placement \in {"before", "after"} :
                   Dispatch(REORDER_PAGE(layout, id, target, placement))
AddTab        == \E t \in Tabs \ OpenTabs(layout) :
                   /\ layout.nextGroupId <= MaxGroup /\ layout.nextPageId <= MaxPage
                   /\ Dispatch(ADD_TAB(layout, t))
TabsOf(g)     == ToSet(layout.groups[g].tabs)
RemoveTab     == \E g \in GroupIds(layout) : \E t \in TabsOf(g) : Dispatch(REMOVE_TAB(layout, g, t))
ActivateTab   == \E g \in GroupIds(layout) : \E t \in TabsOf(g) : Dispatch(ACTIVATE_TAB(layout, g, t))
MoveTab       == \E src, dst \in GroupIds(layout) :
                   \E t \in TabsOf(src), i \in 1..(Len(layout.groups[dst].tabs) + 1) :
                     Dispatch(MOVE_TAB(layout, src, dst, t, i))
ReorderTab    == \E g \in GroupIds(layout) :
                   \E from, to \in DOMAIN layout.groups[g].tabs : Dispatch(REORDER_TAB(layout, g, from, to))
CloseSome     == \E g \in GroupIds(layout) : \E t \in TabsOf(g) :
                   \/ Dispatch(CLOSE_OTHER_TABS(layout, g, t))
                   \/ Dispatch(CLOSE_TABS_TO_RIGHT(layout, g, t))
                   \/ Dispatch(CLOSE_TABS_TO_LEFT(layout, g, t))
MoveTabToNewGroup ==
  \E g, at \in GroupIds(layout), dir \in Directions : \E t \in TabsOf(g) :
    layout.nextGroupId <= MaxGroup /\ Dispatch(MOVE_TAB_TO_NEW_GROUP(layout, g, t, dir, at))

Arrange == \/ SplitGroup \/ ActivateGroup \/ ActivatePage \/ ReorderPage \/ ActivateTab
           \/ MoveTab \/ ReorderTab \/ MoveTabToNewGroup
Next == Arrange \/ AddTab \/ RemoveGroup \/ RemoveTab \/ CloseSome

Spec == Init /\ [][Next]_layout

----------------------------------------------------------------------------
Focused(p) == Contains(p.gridLayout, p.activeGroupId)
NoRepeats(seq) == IsInjective(seq)

(* The layout is a record of the declared shape, with ids below the counters. *)
TypeOK ==
  /\ GroupIds(layout) \subseteq 1..(layout.nextGroupId - 1)
  /\ PageIds(layout) \subseteq 1..(layout.nextPageId - 1)
  /\ \A g \in GroupIds(layout) : ToSet(layout.groups[g].tabs) \subseteq Tabs
  /\ DOMAIN layout.tabToGroupMap \subseteq Tabs

(* Every pane belongs to exactly one page and has exactly one place in its grid, *)
(* and no grid shows a pane that no longer exists: a pane removed from, split on *)
(* or dragged to a page in the background must not stay behind on another.       *)
PanesPlacedOnce ==
  /\ \A g \in GroupIds(layout) :
       \E i \in DOMAIN layout.pages : \A j \in DOMAIN layout.pages :
         Contains(layout.pages[j].gridLayout, g) <=> j = i
  /\ \A p \in ToSet(layout.pages) :
       NoRepeats(p.gridLayout) /\ ToSet(p.gridLayout) \subseteq GroupIds(layout)

(* A session is in one pane only, and tabToGroupMap, through which status updates *)
(* and the terminal surface find it, names that pane; closed sessions are gone    *)
(* from the map.                                                                  *)
SessionsIndexed ==
  /\ DOMAIN layout.tabToGroupMap = OpenTabs(layout)
  /\ \A g \in GroupIds(layout) :
       /\ NoRepeats(layout.groups[g].tabs)
       /\ \A t \in ToSet(layout.groups[g].tabs) : layout.tabToGroupMap[t] = g

(* The keyboard focus is on a pane the window shows, and every page remembers a *)
(* pane of its own to return to, however panes were closed or moved meanwhile.  *)
FocusIsShown ==
  /\ layout.activePageId \in PageIds(layout)
  /\ Contains(layout.gridLayout, layout.activeGroupId)
  /\ \A p \in ToSet(layout.pages) : Focused(p)

(* A pane with sessions shows one of its own. *)
ShownTabIsOwn ==
  \A g \in GroupIds(layout) :
    LET r == layout.groups[g] IN
    IF r.tabs = <<>> THEN r.activeTabId = NoTab ELSE Contains(r.tabs, r.activeTabId)

(* The titlebar (pages) and the workspace (gridLayout) agree on the live page. *)
LiveGridRemembered ==
  LET p == layout.pages[PageAt(layout, layout.activePageId)] IN
  p.gridLayout = layout.gridLayout /\ p.activeGroupId = layout.activeGroupId

(* Splitting, focusing, dragging and reordering never end a session: each keeps *)
(* a running shell that only a close may end.                                   *)
ArrangingKeepsSessions ==
  OpenTabs(layout') = OpenTabs(layout) \/ ~Arrange

(* Only the panes a close empties disappear with it: a session closed on one page *)
(* takes no other session along, and the focus moves only if its pane went.       *)
ClosesOne ==
  OpenTabs(layout') # OpenTabs(layout) /\ RemoveTab => \E t \in Tabs :
    /\ OpenTabs(layout) \ {t} = OpenTabs(layout')
    /\ layout.activeGroupId \in GroupIds(layout') => layout'.activeGroupId = layout.activeGroupId

(* Types and invariants together. *)
Inv == TypeOK /\ PanesPlacedOnce /\ SessionsIndexed /\ FocusIsShown /\ ShownTabIsOwn /\ LiveGridRemembered
=============================================================================
