---------------------------- MODULE SshSessions ----------------------------
(***************************************************************************)
(* SSH terminal tabs: the connect handlers of App.tsx (open a saved        *)
(* connection, duplicate, quick connect, reconnect, close), the form of    *)
(* connection-dialog.tsx, the attempt of ssh-connect.ts they share, and    *)
(* the terminal that terminal-group-view.tsx mounts over the session.      *)
(*                                                                         *)
(* JavaScript runs to its next await: what stands between two awaits is    *)
(* one action.  Nothing can cancel an SSH attempt in the backend: the form *)
(* and the prompt dialog call ssh_cancel_connect with a misnamed argument, *)
(* so the call is rejected, and ssh_disconnect leaves pending ones alone.  *)
(***************************************************************************)
EXTENDS Naturals, FiniteSets

CONSTANTS
  Ids,           \* session ids
  MaxAttempts,   \* bound: connect attempts
  Serial,        \* TRUE: the user starts one attempt of a session at a time
  None

Attempts == 1..MaxAttempts
Kinds == {"open", "quick", "reconnect", "form"}

VARIABLES
  tab,         \* id -> connectionStatus of its tab, "none" without one
  closing,     \* ids whose handleTabClose awaits ssh_disconnect
  progress,    \* id -> status in the attempt store, "none" without one
  pty,         \* id -> its PtyTerminal: "none", "starting", "up", "dead"
  of, kind,    \* attempt -> session id and handler
  at,          \* attempt -> where its async function stands
  call,        \* attempt -> ssh_connect in the backend
  live,        \* connections: id -> the attempt that inserted it
  retried,     \* attempts run again by a trust dialog
  question,    \* trust dialogs: "app" (App.tsx), "form" -> the retry they hold
  shown,       \* trust dialogs that are open
  trusting,    \* trust dialogs awaiting trust_host_key
  connecting,  \* the form's connectionIdRef and isConnecting: its attempt
  stopped      \* history: form attempts the user cancelled

uiVars   == <<tab, closing, progress, pty>>
dlgVars  == <<question, shown, trusting>>
formVars == <<connecting, stopped>>
attVars  == <<of, kind>>
vars == <<uiVars, attVars, at, call, live, retried, dlgVars, formVars>>

Dialogs == {"app", "form"}
DialogOf(a) == IF kind[a] = "form" THEN "form" ELSE "app"
Over(a) == at[a] \in {"none", "trust", "done"}
Idle(s) == s \notin closing /\ trusting = {} /\ \A a \in Attempts : of[a] = s => Over(a)

Init ==
  /\ tab = [s \in Ids |-> "none"] /\ closing = {} /\ progress = [s \in Ids |-> "none"]
  /\ pty = [s \in Ids |-> "none"]
  /\ of = [a \in Attempts |-> None] /\ kind = [a \in Attempts |-> "open"]
  /\ at = [a \in Attempts |-> "none"] /\ call = [a \in Attempts |-> "none"]
  /\ live = [s \in Ids |-> None] /\ retried = {}
  /\ question = [d \in Dialogs |-> None] /\ shown = {} /\ trusting = {}
  /\ connecting = None /\ stopped = {}

(* UPDATE_TAB_STATUS does nothing for a tab that is gone. *)
Status_Always(s, status) == [tab EXCEPT ![s] = status]
Status(s, status) == [tab EXCEPT ![s] = IF @ = "none" THEN "none" ELSE status]
Stored(s, status) == [progress EXCEPT ![s] = status]
Move(a, to) == at' = [at EXCEPT ![a] = to]

(***************************************************************************)
(* The handlers up to the call of ssh_connect                              *)
(***************************************************************************)
(* An open question and a connecting form are modal. *)
Start(a, s, k) ==
  /\ at[a] = "none" /\ (a > 1 => at[a - 1] # "none")
  /\ (Serial => Idle(s)) /\ shown = {} /\ connecting = None
  /\ k \in {"open", "quick"} => tab[s] = "none"
  /\ k = "reconnect" => tab[s] # "none"
  /\ of' = [of EXCEPT ![a] = s] /\ kind' = [kind EXCEPT ![a] = k] /\ Move(a, "credentials")
  /\ connecting' = IF k = "form" THEN a ELSE connecting
  /\ UNCHANGED <<uiVars, call, live, retried, dlgVars, stopped>>

(* getConnectionWithCredentials; what follows shows the tab as pending. *)
Show(a) ==
  /\ at[a] = "credentials" /\ kind[a] # "form"
  /\ IF kind[a] = "reconnect"
     THEN tab' = Status(of[a], "pending") /\ Move(a, "dropping")
     ELSE tab' = [tab EXCEPT ![of[a]] = "pending"] /\ Move(a, "key")
  /\ UNCHANGED <<closing, progress, pty, attVars, call, live, retried, dlgVars, formVars>>
NoCredentials(a) ==
  /\ at[a] = "credentials" /\ kind[a] # "form" /\ Move(a, "done")
  /\ UNCHANGED <<uiVars, attVars, call, live, retried, dlgVars, formVars>>

(* handleReconnect awaits ssh_disconnect of the old session. *)
Drop(a) ==
  /\ at[a] = "dropping" /\ live' = [live EXCEPT ![of[a]] = None] /\ Move(a, "key")
  /\ UNCHANGED <<uiVars, attVars, call, retried, dlgVars, formVars>>

(* buildAuthRequest; it throws when the key file cannot be read. *)
BeginAttempt(a) ==
  /\ at[a] = "key" /\ Move(a, "listening") /\ progress' = Stored(of[a], "connecting")
  /\ UNCHANGED <<tab, closing, pty, attVars, call, live, retried, dlgVars, formVars>>
NoKey(a) ==
  /\ at[a] = "key" /\ Move(a, "done") /\ tab' = Status(of[a], "disconnected")
  /\ UNCHANGED <<closing, progress, pty, attVars, call, live, retried, dlgVars, formVars>>

(* The form validates its fields, the key and the stored secrets, then connects. *)
Submit(a) ==
  /\ at[a] = "credentials" /\ kind[a] = "form"
  /\ Move(a, "listening") /\ progress' = Stored(of[a], "connecting")
  /\ UNCHANGED <<tab, closing, pty, attVars, call, live, retried, dlgVars, formVars>>
Invalid(a) ==
  /\ at[a] = "credentials" /\ kind[a] = "form" /\ Move(a, "done") /\ connecting' = None
  /\ UNCHANGED <<uiVars, attVars, call, live, retried, dlgVars, stopped>>

(* ensureReady and listenConnectProgress, then the command is invoked. *)
Call(a) ==
  /\ at[a] = "listening" /\ Move(a, "calling") /\ call' = [call EXCEPT ![a] = "sent"]
  /\ UNCHANGED <<uiVars, attVars, live, retried, dlgVars, formVars>>

(* The backend reports stages while it dials, then inserts the session or fails. *)
Stage(a) ==
  /\ call[a] = "sent" /\ call' = [call EXCEPT ![a] = "dialing"]
  /\ progress' = Stored(of[a], "connecting")
  /\ UNCHANGED <<tab, closing, pty, attVars, at, live, retried, dlgVars, formVars>>
Dial(a) ==
  /\ call[a] = "dialing"
  /\ \/ call' = [call EXCEPT ![a] = "ok"] /\ live' = [live EXCEPT ![of[a]] = a]
     \/ \E r \in {"failed", "hostKey"} : call' = [call EXCEPT ![a] = r] /\ UNCHANGED live
  /\ UNCHANGED <<uiVars, attVars, at, retried, dlgVars, formVars>>

(***************************************************************************)
(* The answer, for the handlers of App.tsx                                 *)
(***************************************************************************)
Answered_Tab(a, r) == at[a] = "calling" /\ call[a] = r /\ tab[of[a]] # "none"
Answered(a, r) == at[a] = "calling" /\ call[a] = r
(* onTrusted drops the retry whose answer is not another question. *)
Forget(a) ==
  question' = IF a \in retried THEN [question EXCEPT ![DialogOf(a)] = None] ELSE question

(* RECONNECT_TAB changes the key of PtyTerminal, so a mounted one is replaced. *)
Success(a) ==
  /\ Answered(a, "ok") /\ kind[a] # "form" /\ Move(a, "done") /\ Forget(a)
  /\ tab' = Status(of[a], "connecting") /\ pty' = [pty EXCEPT ![of[a]] = "none"]
  /\ UNCHANGED <<closing, progress, attVars, call, live, retried, shown, trusting, formVars>>
Failure(a) ==
  /\ Answered(a, "failed") /\ kind[a] # "form" /\ Move(a, "done") /\ Forget(a)
  /\ progress' = Stored(of[a], "failed")
  /\ tab' = IF a \in retried /\ kind[a] # "quick" THEN tab ELSE Status(of[a], "disconnected")
  /\ UNCHANGED <<closing, pty, attVars, call, live, retried, shown, trusting, formVars>>

(* A first unknown key is asked about; the answer of a retry is not.  Opening a *)
(* saved connection shows its tab as disconnected meanwhile.                    *)
Unknown(a) ==
  /\ Answered(a, "hostKey") /\ kind[a] # "form" /\ progress' = Stored(of[a], "awaitingHostKey")
  /\ IF a \in retried
     THEN /\ Move(a, "done") /\ Forget(a) /\ UNCHANGED shown
          /\ tab' = IF kind[a] = "quick" THEN Status(of[a], "disconnected") ELSE tab
     ELSE /\ Move(a, "trust") /\ question' = [question EXCEPT !["app"] = a]
          /\ shown' = shown \cup {"app"}
          /\ tab' = IF kind[a] = "open" THEN Status(of[a], "disconnected") ELSE tab
  /\ UNCHANGED <<closing, pty, attVars, call, live, retried, trusting, formVars>>

(***************************************************************************)
(* The answer, for the form                                                *)
(***************************************************************************)
FormSuccess(a) ==
  /\ Answered(a, "ok") /\ kind[a] = "form" /\ Move(a, "saving")
  /\ UNCHANGED <<uiVars, attVars, call, live, retried, dlgVars, formVars>>
FormFailure(a) ==
  /\ Answered(a, "failed") /\ kind[a] = "form" /\ Move(a, "done")
  /\ progress' = IF connecting = None THEN progress ELSE Stored(of[connecting], "failed")
  /\ connecting' = None
  /\ UNCHANGED <<tab, closing, pty, attVars, call, live, retried, dlgVars, stopped>>
FormUnknown(a) ==
  /\ Answered(a, "hostKey") /\ kind[a] = "form" /\ Move(a, "trust")
  /\ progress' = IF connecting = None THEN progress ELSE Stored(of[connecting], "awaitingHostKey")
  /\ question' = [question EXCEPT !["form"] = a] /\ shown' = shown \cup {"form"}
  /\ UNCHANGED <<tab, closing, pty, attVars, call, live, retried, trusting, formVars>>

(* completeSuccessfulConnect: the connection is saved, then App.tsx activates or   *)
(* adds the tab as connecting, without remounting a terminal that is there.        *)
Saved(a) ==
  /\ at[a] = "saving" /\ Move(a, "done") /\ connecting' = None
  /\ tab' = [tab EXCEPT ![of[a]] = "connecting"]
  /\ UNCHANGED <<closing, progress, pty, attVars, call, live, retried, dlgVars, stopped>>
SaveFails(a) ==
  /\ at[a] = "saving" /\ Move(a, "done")
  /\ IF a \in retried THEN UNCHANGED <<progress, connecting>>
     ELSE progress' = Stored(of[a], "failed") /\ connecting' = None
  /\ UNCHANGED <<tab, closing, pty, attVars, call, live, retried, dlgVars, stopped>>

(* Stop, or closing the form: the cancel is rejected and the form is reset. *)
Stop ==
  /\ connecting # None /\ shown = {} /\ stopped' = stopped \cup {connecting} /\ connecting' = None
  /\ UNCHANGED <<uiVars, attVars, at, call, live, retried, dlgVars>>

(***************************************************************************)
(* The trust dialogs                                                       *)
(***************************************************************************)
Trust(d) ==
  /\ d \in shown /\ d \notin trusting /\ trusting' = trusting \cup {d}
  /\ UNCHANGED <<uiVars, attVars, at, call, live, retried, question, shown, formVars>>
Hide(d) ==   \* Escape while the key is being trusted
  /\ d \in shown \cap trusting /\ shown' = shown \ {d}
  /\ UNCHANGED <<uiVars, attVars, at, call, live, retried, question, trusting, formVars>>
TrustFails(d) ==
  /\ d \in trusting /\ trusting' = trusting \ {d}
  /\ UNCHANGED <<uiVars, attVars, at, call, live, retried, question, shown, formVars>>
Trusted(d) ==
  /\ d \in trusting /\ trusting' = trusting \ {d} /\ shown' = shown \ {d}
  /\ IF question[d] # None /\ at[question[d]] = "trust"
     THEN Move(question[d], "listening") /\ retried' = retried \cup {question[d]}
     ELSE UNCHANGED <<at, retried>>
  /\ UNCHANGED <<uiVars, attVars, call, live, question, formVars>>

(* Quick connect removes its tab from the group that was active when it started; *)
(* the tab may have opened on a page of its own, and then stays.                 *)
Distrust ==
  /\ "app" \in shown \ trusting /\ shown' = shown \ {"app"}
  /\ question' = [question EXCEPT !["app"] = None]
  /\ LET a == question["app"] IN
     IF a = None THEN UNCHANGED <<at, tab, progress>>
     ELSE /\ IF at[a] = "trust" THEN Move(a, "done") ELSE UNCHANGED at
          /\ IF kind[a] = "quick"
             THEN tab' \in {tab, [tab EXCEPT ![of[a]] = "none"]} /\ UNCHANGED progress
             ELSE tab' = Status(of[a], "disconnected") /\ progress' = Stored(of[a], "none")
  /\ UNCHANGED <<closing, pty, attVars, call, live, retried, trusting, formVars>>
FormDistrust ==
  /\ "form" \in shown \ trusting /\ shown' = shown \ {"form"} /\ connecting' = None
  /\ at' = [a \in Attempts |-> IF a = question["form"] /\ at[a] = "trust" THEN "done" ELSE at[a]]
  /\ progress' = IF connecting = None THEN progress ELSE Stored(of[connecting], "none")
  /\ UNCHANGED <<tab, closing, pty, attVars, call, live, retried, question, trusting, stopped>>

(***************************************************************************)
(* Closing the tab, and its terminal                                       *)
(***************************************************************************)
Close(s) ==
  /\ tab[s] # "none" /\ s \notin closing
  /\ closing' = closing \cup {s} /\ progress' = Stored(s, "none")
  /\ UNCHANGED <<tab, pty, attVars, at, call, live, retried, dlgVars, formVars>>
Closed(s) ==
  /\ s \in closing /\ closing' = closing \ {s}
  /\ live' = [live EXCEPT ![s] = None] /\ tab' = [tab EXCEPT ![s] = "none"]
  /\ UNCHANGED <<progress, pty, attVars, at, call, retried, dlgVars, formVars>>

(* TerminalTabSurface mounts PtyTerminal unless the tab is pending or the failure *)
(* view stands in its place.                                                      *)
Surface(s) == tab[s] \notin {"none", "pending"} /\ progress[s] # "failed"
Render(s) ==
  /\ pty' = [pty EXCEPT ![s] = IF ~Surface(s) THEN "none" ELSE IF @ = "none" THEN "starting" ELSE @]
  /\ pty' # pty
  /\ UNCHANGED <<tab, closing, progress, attVars, at, call, live, retried, dlgVars, formVars>>

(* StartPty: PtyStarted, a refusal that ends the retries, or ptyCreateFailed. *)
StartPty(s) ==
  /\ pty[s] = "starting" /\ Surface(s)
  /\ IF live[s] = None
     THEN /\ pty' = [pty EXCEPT ![s] = "dead"] /\ tab' = Status(s, "disconnected")
          /\ UNCHANGED progress
     ELSE \/ /\ pty' = [pty EXCEPT ![s] = "up"] /\ tab' = Status(s, "connected")
             /\ progress' = Stored(s, "connected")
          \/ /\ pty' = [pty EXCEPT ![s] = "dead"] /\ tab' = Status(s, "disconnected")
             /\ progress' = Stored(s, "failed")
  /\ UNCHANGED <<closing, attVars, at, call, live, retried, dlgVars, formVars>>
SessionLost(s) ==
  /\ pty[s] = "up" /\ Surface(s) /\ live[s] = None
  /\ pty' = [pty EXCEPT ![s] = "dead"] /\ tab' = Status(s, "disconnected")
  /\ UNCHANGED <<closing, progress, attVars, at, call, live, retried, dlgVars, formVars>>

Step(a) ==
  \/ Show(a) \/ NoCredentials(a) \/ Drop(a) \/ BeginAttempt(a) \/ NoKey(a) \/ Submit(a)
  \/ Invalid(a) \/ Call(a) \/ Stage(a) \/ Dial(a) \/ Success(a) \/ Failure(a) \/ Unknown(a)
  \/ FormSuccess(a) \/ FormFailure(a) \/ FormUnknown(a) \/ Saved(a) \/ SaveFails(a)
Terminal(s) == Render(s) \/ StartPty(s) \/ SessionLost(s)
User == \/ \E a \in Attempts, s \in Ids, k \in Kinds : Start(a, s, k)
        \/ Stop \/ Distrust \/ FormDistrust \/ \E d \in Dialogs : Trust(d) \/ Hide(d)
        \/ \E s \in Ids : Close(s)
Progress == \/ \E a \in Attempts : Step(a)
            \/ \E d \in Dialogs : Trusted(d) \/ TrustFails(d)
            \/ \E s \in Ids : Closed(s) \/ Terminal(s)
Next == User \/ Progress

(* Commands answer, time out or fail, awaited code runs, and React renders; the *)
(* user need not do anything.                                                   *)
Fairness == WF_vars(Progress)
Spec == Init /\ [][Next]_vars /\ Fairness

(***************************************************************************)
(* Properties                                                              *)
(***************************************************************************)
(* Every variable holds what the tabs, refs, stores and maps of the code can hold. *)
TypeOK ==
  /\ tab \in [Ids -> {"none", "pending", "connecting", "connected", "disconnected"}]
  /\ progress \in [Ids -> {"none", "connecting", "awaitingHostKey", "failed", "connected"}]
  /\ pty \in [Ids -> {"none", "starting", "up", "dead"}] /\ closing \subseteq Ids
  /\ of \in [Attempts -> Ids \cup {None}] /\ kind \in [Attempts -> Kinds]
  /\ at \in [Attempts -> {"none", "credentials", "dropping", "key", "listening", "calling",
                         "saving", "trust", "done"}]
  /\ call \in [Attempts -> {"none", "sent", "dialing", "ok", "failed", "hostKey"}]
  /\ live \in [Ids -> Attempts \cup {None}] /\ retried \subseteq Attempts
  /\ question \in [Dialogs -> Attempts \cup {None}]
  /\ shown \subseteq Dialogs /\ trusting \subseteq Dialogs
  /\ connecting \in Attempts \cup {None} /\ stopped \subseteq Attempts

(* A tab shown as connected has a backend session, and the terminal over it has not  *)
(* given up (handleReconnect hides the terminal before it drops the session; a form  *)
(* may replace the session under it).                                               *)
ConnectedIsLive ==
  \A s \in Ids : tab[s] = "connected" /\ s \notin closing => live[s] # None /\ pty[s] # "dead"

(* The answer, failure or status of an attempt that outlives its tab never brings  *)
(* the tab back: only the first step of an opening, or a saved form, shows one.    *)
ShowsOnlyOpened ==
  \A s \in Ids : tab[s] = "none" /\ tab'[s] # "none" =>
    \E a \in Attempts : of[a] = s /\ at[a] \in {"credentials", "saving"} /\ at'[a] # at[a]

(* A session that a handler of App.tsx connected reaches a terminal started over   *)
(* it, or shows why not, unless a later attempt takes its place: the reconnect     *)
(* count remounts a terminal that gave up.                                         *)
Reached(a) ==
  of[a] # None /\ kind[a] # "form" /\ at[a] = "done" /\ call[a] = "ok" =>
    LET s == of[a]
    IN \/ pty[s] = "up" \/ progress[s] = "failed" \/ tab[s] = "none" \/ live[s] # a
       \/ \E b \in Attempts : b > a /\ of[b] = s

(* Types and invariants together. *)
Inv == TypeOK /\ ConnectedIsLive
=============================================================================
