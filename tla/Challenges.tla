----------------------------- MODULE Challenges -----------------------------
(***************************************************************************)
(* Keyboard-interactive authentication: a server that asks questions while *)
(* an SSH connection is being made. The broker of connection_manager.rs    *)
(* keeps the newest challenge of each connection and the sender its        *)
(* attempt waits on; the prompt travels as an event to the webview, where  *)
(* keyboard-interactive-context.tsx queues it and shows the first; the     *)
(* answer is a command that must name the current challenge.               *)
(* Broker and pending token are keyed by connection, so attempts on one    *)
(* connection that overlap take each other's entries; and the prompt's own *)
(* cancel command names its argument wrongly and is refused.               *)
(***************************************************************************)
EXTENDS Naturals

CONSTANTS
  Conns,          \* connections
  MaxAttempts,    \* bound: attempts to connect
  MaxChallenges,  \* bound: challenges sent
  None

VARIABLES
  attempts,     \* at work: [n, of, stage, asked, heard]
  begun,        \* attempts begun
  token,        \* pending_connections: per connection, the attempt a cancel reaches
  pending,      \* broker: per connection, None or [id, n]
  sequence,     \* ids given
  listener,     \* "none", "ready" or "broken": the cached promise of listen
  events,       \* prompts on their way: [id, of, empty]
  queue,        \* prompts in the webview: [id, of, nth] by their arrival, the first is shown
  arrived,      \* prompts that came
  submitting,   \* the id the dialog has sent an answer for
  replies,      \* answers on their way: [id, of]
  overlapped,   \* history: connections with two attempts at once
  dismissed     \* history: challenges whose prompt was cancelled
vars == <<attempts, begun, token, pending, sequence, listener, events, queue, arrived, submitting, replies, overlapped, dismissed>>
webview == <<listener, events, queue, arrived, submitting, replies, dismissed>>

Init ==
  /\ attempts = {} /\ begun = 0 /\ sequence = 0
  /\ token = [c \in Conns |-> None] /\ pending = [c \in Conns |-> None]
  /\ listener = "none" /\ events = {} /\ queue = {} /\ arrived = 0 /\ submitting = None /\ replies = {}
  /\ overlapped = {} /\ dismissed = {}

(***************************************************************************)
(* Attempts                                                                *)
(***************************************************************************)
(* The listener is set up once; a failure is remembered and fails every attempt. *)
ensureReady(ok) == listener' = IF listener # "none" THEN listener ELSE IF ok THEN "ready" ELSE "broken"
Begin(c, ok) ==
  /\ begun < MaxAttempts /\ ensureReady(ok)
  /\ IF listener' = "broken" THEN UNCHANGED <<attempts, begun, token, overlapped>>
     ELSE /\ begun' = begun + 1 /\ token' = [token EXCEPT ![c] = begun']
          /\ attempts' = attempts \cup {[n |-> begun', of |-> c, stage |-> "working", asked |-> None, heard |-> None]}
          /\ overlapped' = overlapped \cup {a.of : a \in {b \in attempts : b.of = c}}
  /\ UNCHANGED <<pending, sequence, events, queue, arrived, submitting, replies, dismissed>>
Becomes(a, b) == attempts' = (attempts \ {a}) \cup {b}

(* The newest challenge displaces the one before, whose sender is dropped. *)
request(a, empty) ==
  /\ a.stage = "working" /\ sequence < MaxChallenges /\ sequence' = sequence + 1
  /\ pending' = [pending EXCEPT ![a.of] = [id |-> sequence', n |-> a.n]]
  /\ events' = events \cup {[id |-> sequence', of |-> a.of, empty |-> empty]}
  /\ Becomes(a, [a EXCEPT !.stage = "asking", !.asked = sequence'])
  /\ UNCHANGED <<begun, token, listener, queue, arrived, submitting, replies, overlapped, dismissed>>
(* Done or refused, displaced or after five minutes: whatever the broker and *)
(* the pending connections hold for this connection is removed.                         *)
Ends(a) ==
  /\ a.stage # "settled" /\ Becomes(a, [a EXCEPT !.stage = "settled"])
  /\ pending' = [pending EXCEPT ![a.of] = None] /\ token' = [token EXCEPT ![a.of] = None]
  /\ UNCHANGED <<begun, sequence, webview, overlapped>>
cancel_pending_connection(c) ==
  /\ token[c] # None
  /\ token' = [token EXCEPT ![c] = None] /\ pending' = [pending EXCEPT ![c] = None]
  /\ UNCHANGED <<attempts, begun, sequence, webview, overlapped>>

(***************************************************************************)
(* The prompt                                                              *)
(***************************************************************************)
removeChallenge(c, ids) == queue' = {q \in queue : q.of # c \/ q.id \notin ids}
First(q) == \A p \in queue : q.nth <= p.nth
Ids == 1 .. MaxChallenges
Finish(a) ==
  /\ a.stage = "settled" /\ attempts' = attempts \ {a} /\ removeChallenge(a.of, Ids)
  /\ UNCHANGED <<begun, token, pending, sequence, listener, events, arrived, submitting, replies, overlapped, dismissed>>
(* A challenge without questions is answered at once. *)
Deliver(e) ==
  /\ listener = "ready" /\ events' = events \ {e}
  /\ IF e.empty THEN replies' = replies \cup {[id |-> e.id, of |-> e.of]} /\ UNCHANGED <<queue, arrived>>
     ELSE /\ arrived' = arrived + 1 /\ queue' = queue \cup {[id |-> e.id, of |-> e.of, nth |-> arrived']}
          /\ UNCHANGED replies
  /\ UNCHANGED <<attempts, begun, token, pending, sequence, listener, submitting, overlapped, dismissed>>
Submit(q) ==
  /\ First(q) /\ submitting # q.id
  /\ submitting' = q.id /\ replies' = replies \cup {[id |-> q.id, of |-> q.of]}
  /\ UNCHANGED <<attempts, begun, token, pending, sequence, listener, events, queue, arrived, overlapped, dismissed>>
(* ssh_cancel_connect is refused for its argument; the prompts of the connection go, and *)
(* the attempt goes on waiting.                                                          *)
Dismiss(q) ==
  /\ First(q) /\ submitting # q.id
  /\ dismissed' = dismissed \cup {p.id : p \in {x \in queue : x.of = q.of}}
  /\ removeChallenge(q.of, Ids)
  /\ UNCHANGED <<attempts, begun, token, pending, sequence, listener, events, arrived, submitting, replies, overlapped>>

(***************************************************************************)
(* The answer                                                              *)
(***************************************************************************)
Hears(n, id) == attempts' = {IF a.n = n THEN [a EXCEPT !.stage = "working", !.heard = id] ELSE a : a \in attempts}
Refused(r) == submitting' = (IF submitting = r.id THEN None ELSE submitting) /\ UNCHANGED <<attempts, pending, queue>>
respond_AnyChallenge(r) ==
  /\ replies' = replies \ {r}
  /\ IF pending[r.of] # None
     THEN /\ Hears(pending[r.of].n, r.id) /\ pending' = [pending EXCEPT ![r.of] = None]
          /\ removeChallenge(r.of, {r.id}) /\ UNCHANGED submitting
     ELSE Refused(r)
  /\ UNCHANGED <<begun, token, sequence, listener, events, arrived, overlapped, dismissed>>
respond(r) ==
  /\ replies' = replies \ {r}
  /\ IF pending[r.of] # None /\ pending[r.of].id = r.id
     THEN /\ Hears(pending[r.of].n, r.id) /\ pending' = [pending EXCEPT ![r.of] = None]
          /\ removeChallenge(r.of, {r.id}) /\ UNCHANGED submitting
     ELSE Refused(r)
  /\ UNCHANGED <<begun, token, sequence, listener, events, arrived, overlapped, dismissed>>

Next ==
  \/ \E c \in Conns : cancel_pending_connection(c) \/ \E ok \in BOOLEAN : Begin(c, ok)
  \/ \E a \in attempts : Ends(a) \/ Finish(a) \/ \E empty \in BOOLEAN : request(a, empty)
  \/ \E e \in events : Deliver(e)
  \/ \E q \in queue : Submit(q) \/ Dismiss(q)
  \/ \E r \in replies : respond(r)
Spec == Init /\ [][Next]_vars

Prompts == [id : Ids, of : Conns]
TypeOK ==
  /\ attempts \subseteq [n : 1 .. MaxAttempts, of : Conns, stage : {"working", "asking", "settled"},
                         asked : Ids \cup {None}, heard : Ids \cup {None}]
  /\ begun \in 0 .. MaxAttempts /\ sequence \in 0 .. MaxChallenges /\ arrived \in Nat
  /\ token \in [Conns -> (1 .. MaxAttempts) \cup {None}]
  /\ pending \in [Conns -> [id : Ids, n : 1 .. MaxAttempts] \cup {None}]
  /\ listener \in {"none", "ready", "broken"} /\ submitting \in Ids \cup {None}
  /\ events \subseteq [id : Ids, of : Conns, empty : BOOLEAN] /\ replies \subseteq Prompts
  /\ queue \subseteq [id : Ids, of : Conns, nth : Nat]
  /\ overlapped \subseteq Conns /\ dismissed \subseteq Ids
(* What an attempt hears is the answer to the challenge it asked last: never an answer *)
(* typed for an earlier one, or for another attempt on the same connection.            *)
AnswerIsOwn == \A a \in attempts : a.stage = "working" => a.heard = a.asked
(* While an attempt waits for an answer that could still reach it, its prompt is shown, *)
(* queued or on its way, or the answer is, unless the user closed the prompt or two     *)
(* attempts on the connection met.                                                      *)
AskerHasPrompt ==
  \A a \in attempts :
    a.stage = "asking" /\ pending[a.of] = [id |-> a.asked, n |-> a.n] /\ a.of \notin overlapped /\ a.asked \notin dismissed
      => a.asked \in {x.id : x \in events \cup queue \cup replies}

(* Types and invariants together. *)
Inv == TypeOK /\ AnswerIsOwn /\ AskerHasPrompt
=============================================================================
