---------------------------- MODULE FileBrowser ----------------------------
(***************************************************************************)
(* The file panel under the terminal (integrated-file-browser.tsx) in its  *)
(* remote mode.  One component serves every SSH tab: when another tab      *)
(* becomes active only its connection id changes, and a module-level cache *)
(* brings the directory back.                                              *)
(*                                                                         *)
(* An event, the render it causes and the effects of that render are one   *)
(* action; an answer of the backend is another.  Every asynchronous        *)
(* function keeps the state of the render that created it: a request       *)
(* carries the connection and the path it closed over.                     *)
(***************************************************************************)
EXTENDS Naturals, Sequences

CONSTANTS
  Sessions,   \* connection ids of the SSH tabs
  MaxLoads,   \* bound: calls of loadFiles before the last event
  MaxHistory, \* bound: entries of the history a navigation adds to
  None

Paths == {"/home", "/"}   \* "/home": where every session starts and falls back to
Gens == 1..MaxLoads + 3   \* one event is followed by at most three more calls

VARIABLES
  session, avail,    \* sessionKey of the panel; session -> isAvailable
  path, files,       \* currentPath; the listing shown: session and path it was read from
  selected,          \* something is selected
  hist, idx,         \* navHistory and navIndex
  cache,             \* sessionStateCache: session -> currentPath, None without one
  loads, gen,        \* requests by generation; loadGenRef
  isLoading,
  answered,          \* history: the generation whose answer is shown
  follow, cwd,       \* followTerminalCwd; session -> directory its terminal reported
  settled,           \* what the onItemSettled listener closed over
  op                 \* an operation in flight

viewVars == <<path, files, selected, hist, idx>>
loadVars == <<loads, gen, isLoading, answered>>
vars == <<session, avail, viewVars, cache, loadVars, follow, cwd, settled, op>>

Request(s, at, target, keep) == [s |-> s, at |-> at, target |-> target, keep |-> keep]
Shown(s) == [s |-> s, ok |-> avail[s], at |-> path]

Init ==
  /\ session = (CHOOSE s \in Sessions : TRUE) /\ avail \in [Sessions -> BOOLEAN]
  /\ path = "/home" /\ files = None /\ selected = FALSE /\ hist = <<"/home">> /\ idx = 1
  /\ cache = [s \in Sessions |-> IF s = session THEN "/home" ELSE None]
  /\ loads = [g \in Gens |-> IF g = 1 /\ avail[session]
                             THEN Request(session, "/home", "/home", FALSE) ELSE None]
  /\ gen = (IF avail[session] THEN 1 ELSE 0) /\ isLoading = avail[session] /\ answered = 0
  /\ follow = TRUE /\ cwd = [s \in Sessions |-> None]
  /\ settled = Shown(session) /\ op = None

(* Every call of loadFiles takes a generation of its own. *)
Issue(reqs) ==
  /\ gen + Len(reqs) <= MaxLoads /\ gen' = gen + Len(reqs)
  /\ loads' = [g \in Gens |-> IF g \in gen + 1 .. gen' THEN reqs[g - gen] ELSE loads[g]]
  /\ isLoading' = (isLoading \/ reqs # <<>>)

(* The effect that follows the terminal, in a session whose path is about to be p. *)
Followed(s, at, p) ==
  IF follow' /\ avail'[s] /\ cwd'[s] \notin {None, p} THEN <<Request(s, at, cwd'[s], TRUE)>> ELSE <<>>
(* The effect on currentPath. *)
Reload(s, p) == IF avail'[s] THEN <<Request(s, p, p, FALSE)>> ELSE <<>>
Cached(p) == cache' = [cache EXCEPT ![session] = p]

(***************************************************************************)
(* The active tab, its connection and its terminal                         *)
(***************************************************************************)
(* With a cached path no state is set: only the load of that path is started.  A   *)
(* session without one starts clean, and its path is loaded once more.             *)
Switch(s) ==
  LET fresh == cache[s] = None
      back  == IF fresh THEN "/home" ELSE cache[s]
  IN /\ s # session /\ session' = s /\ settled' = Shown(s)
     /\ UNCHANGED <<avail, follow, cwd, answered, op>>
     /\ Issue((IF avail[s] THEN <<Request(s, path, back, FALSE)>> ELSE <<>>) \o Followed(s, path, back)
              \o (IF fresh /\ path # "/home" THEN Reload(s, "/home") ELSE <<>>))
     /\ IF fresh
        THEN /\ path' = "/home" /\ files' = None /\ selected' = FALSE
             /\ hist' = <<"/home">> /\ idx' = 1 /\ cache' = [cache EXCEPT ![s] = "/home"]
        ELSE UNCHANGED <<viewVars, cache>>

(* The panel is hidden and shown again: a new component, whose first save       *)
(* overwrites the cached path before the load of it has answered.               *)
Remount ==
  LET reqs == (IF avail[session] THEN <<Request(session, "/home", cache[session], FALSE)>> ELSE <<>>)
              \o Followed(session, "/home", cache[session])
  IN /\ UNCHANGED <<session, avail, answered, follow, cwd>> /\ op' = None
     /\ path' = "/home" /\ files' = None /\ selected' = FALSE /\ hist' = <<"/home">> /\ idx' = 1
     /\ Cached("/home") /\ settled' = [Shown(session) EXCEPT !.at = "/home"]
     /\ gen + Len(reqs) <= MaxLoads /\ gen' = gen + Len(reqs) /\ isLoading' = avail[session]
     /\ loads' = [g \in Gens |-> IF g \in gen + 1 .. gen' THEN reqs[g - gen] ELSE None]

Connected(s) ==
  /\ ~avail[s] /\ avail' = [avail EXCEPT ![s] = TRUE] /\ UNCHANGED <<follow, cwd>>
  /\ Issue(IF s = session THEN Reload(s, path) \o Reload(s, path) \o Followed(s, path, path) ELSE <<>>)
  /\ UNCHANGED <<session, viewVars, cache, answered, settled, op>>
Disconnected(s) ==
  /\ avail[s] /\ avail' = [avail EXCEPT ![s] = FALSE]
  /\ UNCHANGED <<session, viewVars, cache, loadVars, follow, cwd, settled, op>>

Cd(s, p) ==
  /\ cwd[s] # p /\ cwd' = [cwd EXCEPT ![s] = p] /\ UNCHANGED <<avail, follow>>
  /\ Issue(IF s = session THEN Followed(s, path, path) ELSE <<>>)
  /\ UNCHANGED <<session, viewVars, cache, answered, settled, op>>
ToggleFollow ==
  /\ avail[session] /\ follow' = ~follow /\ UNCHANGED <<avail, cwd>> /\ Issue(Followed(session, path, path))
  /\ UNCHANGED <<session, viewVars, cache, answered, settled, op>>

(***************************************************************************)
(* Navigation and selection                                                *)
(***************************************************************************)
GoTo(p) ==
  /\ path' = p /\ selected' = FALSE /\ Cached(p)
  /\ UNCHANGED <<session, avail, files, answered, follow, cwd, settled, op>>
  /\ Issue(IF p = path THEN <<>> ELSE Reload(session, p))
Navigate(p) ==
  /\ avail[session] /\ p # path /\ idx < MaxHistory
  /\ hist' = Append(SubSeq(hist, 1, idx), p) /\ idx' = idx + 1 /\ GoTo(p)
Back ==
  /\ avail[session] /\ idx > 1 /\ idx' = idx - 1 /\ GoTo(hist[idx']) /\ UNCHANGED hist
Forward ==
  /\ avail[session] /\ idx < Len(hist) /\ idx' = idx + 1 /\ GoTo(hist[idx']) /\ UNCHANGED hist
Refresh ==
  /\ avail[session] /\ Issue(<<Request(session, path, path, FALSE)>>)
  /\ UNCHANGED <<session, avail, viewVars, cache, answered, follow, cwd, settled, op>>
Select ==   \* a selection or a search saves the state under the active session
  /\ avail[session] /\ files # None /\ selected' \in BOOLEAN /\ Cached(path)
  /\ UNCHANGED <<session, avail, path, files, hist, idx, loadVars, follow, cwd, settled, op>>

(***************************************************************************)
(* Answers                                                                 *)
(***************************************************************************)
Answer(g) == [loads EXCEPT ![g] = None]
Stale_Never(g) == loads[g] = None
Stale(g) == g # gen
Dropped(g) ==
  /\ loads[g] # None /\ Stale(g) /\ loads' = Answer(g)
  /\ UNCHANGED <<session, avail, viewVars, cache, gen, isLoading, answered, follow, cwd, settled, op>>

(* setFiles, and the path too when the request left the one it closed over; the     *)
(* effect on currentPath then loads again.                                          *)
Listed(g) ==
  LET l == loads[g]  moved == l.at # l.target
      again == moved /\ path # l.target /\ avail[session]
  IN /\ l # None /\ ~Stale(g) /\ files' = [s |-> l.s, p |-> l.target] /\ answered' = g
     /\ path' = (IF moved THEN l.target ELSE path) /\ selected' = (selected /\ ~moved)
     /\ hist' = (IF moved THEN <<l.target>> ELSE hist) /\ idx' = (IF moved THEN 1 ELSE idx)
     /\ Cached(path') /\ (again => gen + 1 \in Gens)
     /\ gen' = (IF again THEN gen + 1 ELSE gen) /\ isLoading' = again
     /\ loads' = [h \in Gens |-> IF again /\ h = gen'
                                 THEN Request(session, l.target, l.target, FALSE) ELSE Answer(g)[h]]
     /\ UNCHANGED <<session, avail, follow, cwd, settled, op>>

(* A directory that cannot be listed, after its retries: "/home" is tried instead,  *)
(* unless the terminal was followed.                                                *)
Falls(l) == ~l.keep /\ l.target # "/home"
FallBack(g) ==
  /\ loads[g] # None /\ ~Stale(g) /\ Falls(loads[g])
  /\ gen + 1 \in Gens /\ gen' = gen + 1
  /\ loads' = [Answer(g) EXCEPT ![gen'] = Request(loads[g].s, loads[g].at, "/home", FALSE)]
  /\ UNCHANGED <<session, avail, viewVars, cache, isLoading, answered, follow, cwd, settled, op>>
Fails(g) ==
  /\ loads[g] # None /\ ~Stale(g) /\ ~Falls(loads[g])
  /\ loads' = Answer(g) /\ isLoading' = FALSE
  /\ files' = (IF loads[g].keep THEN files ELSE None) /\ Cached(path)
  /\ UNCHANGED <<session, avail, path, selected, hist, idx, gen, answered, follow, cwd, settled, op>>

(***************************************************************************)
(* Operations on files, and transfers                                      *)
(***************************************************************************)
(* Deleting, renaming, pasting, moving, a new folder or file: the handler keeps the  *)
(* connection and the path it started with, and refreshes them when it succeeds.  A  *)
(* move that meets a conflict ends with a question and starts again from its answer. *)
Operate ==
  /\ avail[session] /\ op = None /\ op' = [s |-> session, at |-> path]
  /\ UNCHANGED <<session, avail, viewVars, cache, loadVars, follow, cwd, settled>>
OpDone ==
  /\ op # None /\ op' = None /\ Issue(<<Request(op.s, op.at, op.at, FALSE)>>)
  /\ selected' \in {selected, FALSE} /\ Cached(path)
  /\ UNCHANGED <<session, avail, path, files, hist, idx, answered, follow, cwd, settled>>
OpFails ==
  /\ op # None /\ op' = None
  /\ UNCHANGED <<session, avail, viewVars, cache, loadVars, follow, cwd, settled>>

(* A transfer of the panel's connection has completed.  The listener was made when  *)
(* the connection id last changed, and refreshes what the panel showed then.        *)
TransferDone ==
  /\ settled.ok /\ Issue(<<Request(settled.s, settled.at, settled.at, FALSE)>>)
  /\ UNCHANGED <<session, avail, viewVars, cache, answered, follow, cwd, settled, op>>

Answers(g) == Dropped(g) \/ Listed(g) \/ FallBack(g) \/ Fails(g)
Next ==
  \/ \E s \in Sessions : Switch(s) \/ Connected(s) \/ Disconnected(s) \/ \E p \in Paths : Cd(s, p)
  \/ Remount \/ ToggleFollow \/ (\E p \in Paths : Navigate(p)) \/ Back \/ Forward \/ Refresh \/ Select
  \/ \E g \in Gens : Answers(g)
  \/ Operate \/ OpDone \/ OpFails \/ TransferDone

(* The backend answers every request, if only with an error. *)
Progress == \E g \in Gens : Answers(g)
Fairness == WF_vars(Progress)
Spec == Init /\ [][Next]_vars /\ Fairness

(***************************************************************************)
(* Properties                                                              *)
(***************************************************************************)
TypeOK ==
  /\ session \in Sessions /\ avail \in [Sessions -> BOOLEAN] /\ path \in Paths
  /\ files \in {None} \cup [s : Sessions, p : Paths] /\ selected \in BOOLEAN
  /\ hist \in Seq(Paths) /\ idx \in 1..Len(hist)
  /\ cache \in [Sessions -> Paths \cup {None}]
  /\ loads \in [Gens -> {None} \cup [s : Sessions, at : Paths, target : Paths, keep : BOOLEAN]]
  /\ gen \in 0..MaxLoads + 3 /\ isLoading \in BOOLEAN /\ answered \in 0..gen
  /\ follow \in BOOLEAN /\ cwd \in [Sessions -> Paths \cup {None}]
  /\ settled \in [s : Sessions, ok : BOOLEAN, at : Paths]
  /\ op \in {None} \cup [s : Sessions, at : Paths]

(* The panel shows that it is loading exactly while the newest request is open: no  *)
(* older answer hides the spinner, and none leaves it turning.                      *)
SpinnerIsNewest == isLoading <=> gen > 0 /\ loads[gen] # None

(* The listing on show never gives way to the answer of an older request, whatever  *)
(* tab, path or refresh asked for it.                                               *)
NeverOlder == answered' >= answered

(* The current history entry is the directory shown, so back and forward lead where *)
(* the panel really was.                                                            *)
HistoryPointsAtPath == idx \in DOMAIN hist /\ hist[idx] = path

(* Names selected in one directory are never still selected in another: a delete    *)
(* would hit the namesakes.                                                         *)
SelectionStaysBehind == path' # path => ~selected'

(* Every load comes to an end, with a listing, the fallback's, or an error. *)
Busy == isLoading

(* Why a remount finds a directory to go back to: the active session always has one. *)
ActiveIsCached == cache[session] # None

(* Types and invariants together. *)
Inv == TypeOK /\ SpinnerIsNewest /\ HistoryPointsAtPath /\ ActiveIsCached
=============================================================================
