-------------------------- MODULE FileConnections --------------------------
(***************************************************************************)
(* SFTP and FTP sessions of file-browser tabs: useFileConnections of       *)
(* src/lib/use-file-connections.ts over invokeFileConnectWithProgress of   *)
(* src/lib/ssh-connect.ts, the progress store of                           *)
(* connection-attempt-context.tsx, the one host-key dialog of App.tsx, and *)
(* the backend's pending tokens and session map in connection_manager.rs.  *)
(*                                                                         *)
(* JavaScript runs to its next await: what stands between two awaits is    *)
(* one action.  The backend runs every invocation on a task of its own, so *)
(* commands take effect in any order; ssh_cancel_connect is never awaited. *)
(***************************************************************************)
EXTENDS Naturals, FiniteSets

CONSTANTS
  Conns,         \* connection ids of file-browser tabs
  MaxAttempts,   \* bound: calls of connectFileWithDiagnostics
  None

Attempts == 1..MaxAttempts

VARIABLES
  tab,        \* conn -> status of its tab, "closed" without one
  closing,    \* conn -> "no", "asked" (disconnect invoked), "answered"
  session,    \* sessions.current: conn -> attempt
  progress,   \* attempts of the progress store: conn -> status
  of,         \* attempt -> its connection, None before it starts
  prev,       \* attempt -> the attempt it waits for
  phase,      \* attempt -> where its async function stands
  aborted,    \* attempts whose AbortController fired
  retry,      \* hostKeyRetryRef, hostKeyCancelRef: the attempt they belong to
  asked,      \* hostKeyConnectionId
  dialog,     \* the host-key dialog is open
  trusting,   \* its isTrusting: trust_host_key is awaited
  retrying,   \* attempts whose retry onTrusted awaits
  cancels,    \* conn -> ssh_cancel_connect invocations not yet run
  call,       \* attempt -> state of its connect command in the backend
  token,      \* pending_connections: conn -> attempt
  revoked,    \* attempts whose token was cancelled
  live        \* sftp_connections, ftp_connections: conn -> attempt that connected

uiVars   == <<tab, closing, session, progress>>
dlgVars  == <<retry, asked, dialog, trusting, retrying>>
backVars == <<call, token, revoked, live>>
attVars  == <<of, prev, phase, aborted>>
vars == <<uiVars, dlgVars, backVars, attVars, cancels>>

Settled(a) == phase[a] \in {"none", "trust", "done"}
Current(a) == a \notin aborted /\ session[of[a]] = a

Init ==
  /\ tab = [c \in Conns |-> "closed"] /\ closing = [c \in Conns |-> "no"]
  /\ session = [c \in Conns |-> None] /\ progress = [c \in Conns |-> "none"]
  /\ of = [a \in Attempts |-> None] /\ prev = [a \in Attempts |-> None]
  /\ phase = [a \in Attempts |-> "none"] /\ aborted = {}
  /\ retry = None /\ asked = None /\ dialog = FALSE /\ trusting = FALSE /\ retrying = {}
  /\ cancels = [c \in Conns |-> 0]
  /\ call = [a \in Attempts |-> "none"] /\ token = [c \in Conns |-> None]
  /\ revoked = {} /\ live = [c \in Conns |-> None]

(* controller.abort(): fires once; a connect in flight also invokes the cancel. *)
Abort(a, c) ==
  /\ aborted' = IF a = None THEN aborted ELSE aborted \cup {a}
  /\ cancels' = IF a # None /\ a \notin aborted /\ phase[a] = "calling"
                THEN [cancels EXCEPT ![c] = @ + 1] ELSE cancels

(* connectFileWithDiagnostics up to its first await *)
Begin(c, a) ==
  /\ of[a] = None /\ (a > 1 => of[a - 1] # None)
  /\ of' = [of EXCEPT ![a] = c] /\ prev' = [prev EXCEPT ![a] = session[c]]
  /\ phase' = [phase EXCEPT ![a] = "waiting"]
  /\ session' = [session EXCEPT ![c] = a]
  /\ progress' = [progress EXCEPT ![c] = "connecting"]
  /\ tab' = [tab EXCEPT ![c] = "connecting"]
  /\ Abort(session[c], c)
  /\ UNCHANGED <<closing, dlgVars, backVars>>

(* handleOpenSavedConnection, handleConnectionDialogConnect, handleDuplicateTab *)
Open(c, a) == tab[c] = "closed" /\ Begin(c, a)

(* handleReconnect, or connecting again from the dialog: the tab is still there, *)
(* even when handleTabClose already awaits its disconnect.                       *)
Reconnect(c, a) == tab[c] # "closed" /\ Begin(c, a)

(* The operation resolves; cancelFileConnection's finally forgets the session. *)
Resolve(a) ==
  /\ phase' = [phase EXCEPT ![a] = "done"]
  /\ session' = IF session[of[a]] = a THEN [session EXCEPT ![of[a]] = None] ELSE session
  /\ IF a \in retrying
     THEN retry' = None /\ retrying' = retrying \ {a}
     ELSE UNCHANGED <<retry, retrying>>

GiveUp(a) == Resolve(a) /\ UNCHANGED <<tab, progress, asked, dialog, trusting>>

(* A step of the async function that only goes on while the attempt is current *)
GoOn(a, from, to) ==
  /\ phase[a] = from
  /\ IF Current(a)
     THEN phase' = [phase EXCEPT ![a] = to] /\ UNCHANGED <<tab, session, progress, dlgVars>>
     ELSE GiveUp(a)
  /\ UNCHANGED <<closing, of, prev, aborted, cancels, backVars>>

AfterPrevious(a) ==
  prev[a] \in {None} \cup {b \in Attempts : Settled(b)} /\ GoOn(a, "waiting", "clearing")
Cleared(a) == GoOn(a, "cleared", "listening")

(* onResult: the tab's status, the progress store, the session forgotten *)
Report(a, status, shown) ==
  /\ Resolve(a)
  /\ tab' = [tab EXCEPT ![of[a]] = IF @ = "closed" THEN @ ELSE status]
  /\ progress' = [progress EXCEPT ![of[a]] = shown]
  /\ UNCHANGED <<asked, dialog, trusting>>

(* resolvePrivateKeyContent rejects: onResult({errorKind: 'unknown'}) *)
KeyUnreadable(a) ==
  /\ phase[a] = "listening" /\ call[a] = "none" /\ Current(a)
  /\ Report(a, "disconnected", "failed")
  /\ UNCHANGED <<closing, of, prev, aborted, cancels, backVars>>

(* The progress listener is registered; the command is invoked unless aborted. *)
Call(a) ==
  /\ phase[a] = "listening"
  /\ IF a \in aborted
     THEN GiveUp(a) /\ UNCHANGED call
     ELSE /\ phase' = [phase EXCEPT ![a] = "calling"]
          /\ call' = [call EXCEPT ![a] = "sent"]
          /\ UNCHANGED <<tab, session, progress, dlgVars>>
  /\ UNCHANGED <<closing, of, prev, aborted, cancels, token, revoked, live>>

(* The command's answer: onResult ignores it unless the attempt is current. *)
Answer_Late(a) ==
  /\ phase[a] = "calling" /\ call[a] \in {"ok", "cancelled", "failed"}
  /\ IF ~Current(a) THEN GiveUp(a)
     ELSE IF call[a] = "ok" THEN Report(a, "connected", "connected")
     ELSE Report(a, "disconnected", IF call[a] = "failed" THEN "failed" ELSE "none")
  /\ UNCHANGED <<closing, of, prev, aborted, cancels, backVars>>
Answer(a) ==
  /\ phase[a] = "calling" /\ call[a] \in {"ok", "cancelled", "failed"}
  /\ IF a \in aborted /\ call[a] = "ok"
     THEN phase' = [phase EXCEPT ![a] = "undoing"] /\ UNCHANGED <<tab, session, progress, dlgVars>>
     ELSE IF ~Current(a) THEN GiveUp(a)
     ELSE IF call[a] = "ok" THEN Report(a, "connected", "connected")
     ELSE Report(a, "disconnected", IF call[a] = "failed" THEN "failed" ELSE "none")
  /\ UNCHANGED <<closing, of, prev, aborted, cancels, backVars>>

(* An unknown host key: the attempt's operation resolves and the App's single *)
(* dialog, with its retry and cancel, now belongs to this attempt.            *)
AskTrust(a) ==
  /\ phase[a] = "calling" /\ call[a] = "hostKey"
  /\ IF a \in aborted THEN GiveUp(a)
     ELSE /\ phase' = [phase EXCEPT ![a] = "trust"]
          /\ progress' = [progress EXCEPT ![of[a]] = "awaitingHostKey"]
          /\ retry' = a /\ asked' = of[a] /\ dialog' = TRUE
          /\ retrying' = retrying \ {a}
          /\ UNCHANGED <<tab, session, trusting>>
  /\ UNCHANGED <<closing, of, prev, aborted, cancels, backVars>>

(* HostKeyTrustDialog: trust_host_key is awaited, then onTrusted retries whoever *)
(* owns the ref by then; a retry that is no longer current answers "cancelled".  *)
Trust == dialog /\ ~trusting /\ trusting' = TRUE
         /\ UNCHANGED <<uiVars, attVars, backVars, retry, asked, dialog, retrying, cancels>>
Trusted ==
  /\ trusting /\ trusting' = FALSE /\ dialog' = FALSE
  /\ IF retry # None /\ Current(retry)
     THEN /\ phase' = [phase EXCEPT ![retry] = "listening"]
          /\ progress' = [progress EXCEPT ![of[retry]] = "connecting"]
          /\ retrying' = retrying \cup {retry} /\ UNCHANGED retry
     ELSE retry' = None /\ UNCHANGED <<phase, progress, retrying>>
  /\ UNCHANGED <<tab, closing, session, of, prev, aborted, asked, backVars, cancels>>
TrustFails == trusting /\ trusting' = FALSE
              /\ UNCHANGED <<uiVars, attVars, backVars, retry, asked, dialog, retrying, cancels>>

(* Cancel or Escape; while a key is being trusted Escape only hides the dialog. *)
Distrust ==
  /\ dialog /\ ~trusting /\ dialog' = FALSE /\ retry' = None
  /\ IF retry # None /\ Current(retry)
     THEN /\ aborted' = aborted \cup {retry}
          /\ phase' = [phase EXCEPT ![retry] = "done"]
          /\ session' = [session EXCEPT ![of[retry]] = None]
          /\ progress' = [progress EXCEPT ![of[retry]] = "none"]
          /\ tab' = [tab EXCEPT ![of[retry]] = "disconnected"]
     ELSE UNCHANGED <<aborted, phase, session, progress, tab>>
  /\ UNCHANGED <<closing, of, prev, asked, trusting, retrying, cancels, backVars>>
Hide == dialog /\ trusting /\ dialog' = FALSE
        /\ UNCHANGED <<uiVars, attVars, backVars, retry, asked, trusting, retrying, cancels>>

(* handleTabClose: cancelFileConnection, the dialog if it is this tab's, then the *)
(* awaited disconnect; performClose removes the tab when that has answered.       *)
Close(c) ==
  /\ tab[c] # "closed" /\ closing[c] = "no"
  /\ closing' = [closing EXCEPT ![c] = "asked"]
  /\ Abort(session[c], c)
  /\ session' = IF session[c] # None /\ Settled(session[c])
                THEN [session EXCEPT ![c] = None] ELSE session
  /\ phase' = [a \in Attempts |-> IF a = session[c] /\ Settled(a) THEN "done" ELSE phase[a]]
  /\ progress' = [progress EXCEPT ![c] = "none"]
  /\ IF asked = c THEN retry' = None /\ asked' = None /\ dialog' = FALSE
     ELSE UNCHANGED <<retry, asked, dialog>>
  /\ UNCHANGED <<tab, of, prev, trusting, retrying, backVars>>
Closed(c) ==
  /\ closing[c] = "answered"
  /\ closing' = [closing EXCEPT ![c] = "no"] /\ tab' = [tab EXCEPT ![c] = "closed"]
  /\ UNCHANGED <<session, progress, attVars, dlgVars, backVars, cancels>>

(***************************************************************************)
(* The backend                                                             *)
(***************************************************************************)
Revoke(c) == /\ token' = [token EXCEPT ![c] = None]
             /\ revoked' = IF token[c] = None THEN revoked ELSE revoked \cup {token[c]}

CancelPending(c) ==
  /\ cancels[c] > 0 /\ cancels' = [cancels EXCEPT ![c] = @ - 1]
  /\ Revoke(c) /\ UNCHANGED <<uiVars, attVars, dlgVars, call, live>>

Disconnect(c) == Revoke(c) /\ live' = [live EXCEPT ![c] = None] /\ UNCHANGED call

(* sftp_standalone_disconnect, ftp_disconnect for the three who await one *)
DisconnectFirst(a) ==
  /\ phase[a] = "clearing" /\ phase' = [phase EXCEPT ![a] = "cleared"] /\ Disconnect(of[a])
  /\ UNCHANGED <<uiVars, of, prev, aborted, dlgVars, cancels>>
DisconnectLate(a) ==
  /\ phase[a] = "undoing" /\ Disconnect(of[a]) /\ GiveUp(a)
  /\ UNCHANGED <<closing, of, prev, aborted, cancels>>
DisconnectTab(c) ==
  /\ closing[c] = "asked" /\ closing' = [closing EXCEPT ![c] = "answered"] /\ Disconnect(c)
  /\ UNCHANGED <<tab, session, progress, attVars, dlgVars, cancels>>

backOnly == <<uiVars, attVars, dlgVars, cancels>>
Replies(a, r) == call' = [call EXCEPT ![a] = r]
Clear(a) == token' = [token EXCEPT ![of[a]] = None]

Register(a) ==
  /\ call[a] = "sent" /\ Replies(a, "dialing")
  /\ token' = [token EXCEPT ![of[a]] = a] /\ revoked' = revoked \ {a}
  /\ UNCHANGED <<live, backOnly>>
DialFails(a) ==
  /\ call[a] = "dialing"
  /\ \/ a \in revoked /\ Replies(a, "cancelled")
     \/ Replies(a, "hostKey") \/ Replies(a, "failed")
  /\ Clear(a) /\ UNCHANGED <<revoked, live, backOnly>>
Dialed(a) ==
  /\ call[a] = "dialing"
  /\ IF a \in revoked THEN Replies(a, "cancelled") /\ Clear(a) /\ UNCHANGED live
     ELSE /\ Replies(a, "inserted") /\ live' = [live EXCEPT ![of[a]] = a]
          /\ UNCHANGED token
  /\ UNCHANGED <<revoked, backOnly>>
ClearPending(a) ==
  /\ call[a] = "inserted" /\ Replies(a, "ok") /\ Clear(a) /\ UNCHANGED <<revoked, live, backOnly>>

Attempt(a) ==
  \/ AfterPrevious(a) \/ Cleared(a) \/ KeyUnreadable(a) \/ Call(a) \/ Answer(a)
  \/ AskTrust(a) \/ DisconnectFirst(a) \/ DisconnectLate(a)
Connecting(a) == Register(a) \/ DialFails(a) \/ Dialed(a) \/ ClearPending(a)
User == \/ \E c \in Conns : Close(c) \/ \E a \in Attempts : Open(c, a) \/ Reconnect(c, a)
        \/ Trust \/ Distrust \/ Hide
Runs(a) == Attempt(a) \/ Connecting(a)
Ending == \E c \in Conns : Closed(c) \/ DisconnectTab(c) \/ CancelPending(c)
TrustAnswers == Trusted \/ TrustFails
Next == User \/ TrustAnswers \/ Ending \/ \E a \in Attempts : Runs(a)

(* Commands return, time out or are cancelled; JavaScript runs what it awaits.  *)
(* Nobody is obliged to answer the dialog or to close or reopen a tab.          *)
Fairness ==
  (\A a \in Attempts : WF_vars(Runs(a))) /\ WF_vars(Ending) /\ WF_vars(TrustAnswers)
Spec == Init /\ [][Next]_vars /\ Fairness

(***************************************************************************)
(* Properties                                                              *)
(***************************************************************************)
MaybeAttempt == Attempts \cup {None}

(* Every variable holds what the maps, refs and stores of the code can hold. *)
TypeOK ==
  /\ tab \in [Conns -> {"closed", "connecting", "connected", "disconnected"}]
  /\ closing \in [Conns -> {"no", "asked", "answered"}]
  /\ session \in [Conns -> MaybeAttempt] /\ token \in [Conns -> MaybeAttempt]
  /\ live \in [Conns -> MaybeAttempt] /\ prev \in [Attempts -> MaybeAttempt]
  /\ progress \in [Conns -> {"none", "connecting", "awaitingHostKey", "failed", "connected"}]
  /\ of \in [Attempts -> Conns \cup {None}]
  /\ phase \in [Attempts -> {"none", "waiting", "clearing", "cleared", "listening", "calling",
                            "undoing", "trust", "done"}]
  /\ call \in [Attempts -> {"none", "sent", "dialing", "inserted", "ok", "cancelled", "hostKey", "failed"}]
  /\ aborted \subseteq Attempts /\ retrying \subseteq Attempts /\ revoked \subseteq Attempts
  /\ retry \in MaybeAttempt /\ asked \in Conns \cup {None}
  /\ dialog \in BOOLEAN /\ trusting \in BOOLEAN /\ cancels \in [Conns -> Nat]

(* A tab shown as connected, and not being closed, has its backend session: no     *)
(* late disconnect of an earlier attempt takes away what a newer one connected.    *)
ConnectedIsLive == \A c \in Conns : tab[c] = "connected" /\ closing[c] = "no" => live[c] # None

(* An aborted attempt that has resolved leaves no backend session behind, however  *)
(* late its connection was made (invokeFileConnectWithProgress, 167-173).          *)
AbortedLeavesNothing == \A a \in aborted : phase[a] = "done" => live[of[a]] # a

(* A tab or a progress panel that says it is connecting belongs to a current       *)
(* attempt: nothing spins for an attempt that was replaced, cancelled or resolved. *)
SpinnerHasAttempt ==
  \A c \in Conns :
    \/ progress[c] \in {"connecting", "awaitingHostKey"}
    \/ tab[c] = "connecting" /\ closing[c] = "no"
    => session[c] # None /\ Current(session[c])

(* Two attempts of one connection are never in the backend together: the second    *)
(* waits for the first even when the first is being aborted (lines 95-96).         *)
OneCommandPerConnection ==
  \A a, b \in Attempts : phase[a] \in {"calling", "undoing"} /\ phase[b] \in {"calling", "undoing"}
                         /\ of[a] = of[b] => a = b

(* Types and invariants together. *)
Inv == TypeOK /\ ConnectedIsLive /\ AbortedLeavesNothing /\ SpinnerHasAttempt /\ OneCommandPerConnection
=============================================================================
