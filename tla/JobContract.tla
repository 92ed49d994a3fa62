---------------------------- MODULE JobContract ----------------------------
(***************************************************************************)
(* What the transfer queue promises to whoever holds a ticket, with no     *)
(* bindings, tokens, tasks or maps: jobs wait in one line, leave it in     *)
(* order or by being withdrawn, are served one at a time, and each gets    *)
(* exactly one outcome; after a stop request that outcome is "cancelled".  *)
(***************************************************************************)
EXTENDS Naturals, Sequences

CONSTANTS
  Jobs,      \* tickets
  MaxBatch,  \* bound: longest batch that joins the line at once
  NONE       \* no outcome yet

VARIABLES
  line,      \* accepted jobs that wait, in order of acceptance
  serving,   \* the job being served, as a set of at most one
  stopping,  \* served jobs that were asked to stop
  outcome    \* job -> its one outcome, NONE before

vars == <<line, serving, stopping, outcome>>

Outcomes == {"completed", "failed", "cancelled"}

InLine  == {line[k] : k \in DOMAIN line}
Unknown == {j \in Jobs : outcome[j] = NONE} \ (InLine \cup serving)

Init ==
  /\ line = <<>>
  /\ serving = {} /\ stopping = {}
  /\ outcome = [j \in Jobs |-> NONE]

\* A batch of new jobs joins the end of the line.
Accept(batch) ==
  /\ \A k \in DOMAIN batch : batch[k] \in Unknown
  /\ \A k, l \in DOMAIN batch : batch[k] = batch[l] => k = l
  /\ line' = line \o batch
  /\ UNCHANGED <<serving, stopping, outcome>>

\* A waiting job is cancelled: it leaves the line, the others keep their order.
Withdraw(k) ==
  /\ outcome' = [outcome EXCEPT ![line[k]] = "cancelled"]
  /\ line' = SubSeq(line, 1, k - 1) \o SubSeq(line, k + 1, Len(line))
  /\ UNCHANGED <<serving, stopping>>

Begin ==
  /\ serving = {} /\ line # <<>>
  /\ serving' = {Head(line)}
  /\ line' = Tail(line)
  /\ UNCHANGED <<stopping, outcome>>

RequestStop(j) ==
  /\ j \in serving
  /\ stopping' = stopping \cup {j}
  /\ UNCHANGED <<line, serving, outcome>>

End(j, o) ==
  /\ j \in serving
  /\ j \in stopping => o = "cancelled"
  /\ outcome' = [outcome EXCEPT ![j] = o]
  /\ serving' = serving \ {j}
  /\ stopping' = stopping \ {j}
  /\ UNCHANGED line

Next ==
  \/ \E n \in 1..MaxBatch : \E batch \in [1..n -> Jobs] : Accept(batch)
  \/ \E k \in DOMAIN line : Withdraw(k)
  \/ Begin
  \/ \E j \in Jobs : RequestStop(j)
  \/ \E j \in Jobs, o \in Outcomes : End(j, o)

Spec == Init /\ [][Next]_vars
=============================================================================
