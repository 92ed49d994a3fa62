---------------------------- MODULE SftpPipeline ----------------------------
(***************************************************************************)
(* One SFTP transfer of sftp_transfer.rs, from its own SSH channel to the  *)
(* result the queue is told. Reads and writes are pipelined: several       *)
(* requests are under way at once; the server answers them in any order,   *)
(* partly, with an error, or with an end of file.                          *)
(*                                                                         *)
(* A byte is its offset in the source; lengths are in bytes, with a chunk  *)
(* of a few. The source may change its length while it is read. What the   *)
(* server does is external and decided when it answers a request; a        *)
(* request that it never answers fails after 120 s.                        *)
(***************************************************************************)
EXTENDS Naturals, Sequences, FiniteSets

CONSTANTS
  Sizes,       \* lengths a source may have
  Chunk,       \* request_len: bytes of a full request
  MaxDepth,    \* what the window budget allows
  MaxResizes,  \* bound: changes of the source's length
  None

VARIABLES
  upload,     \* the direction
  size,       \* the source's length now
  resizes,    \* times it changed
  depth,      \* pipeline_depth
  pc,         \* where the transfer is
  inflight,   \* requests: [start, offset, len, answer, got], of which got is the length of the answer
  ranges,     \* reads: start -> [data, complete, error]; error is the offset that failed
  next,       \* next_offset
  eof,        \* the lowest end of file seen
  written,    \* download: what was written to the local file
  landed,     \* upload: bytes the remote file has
  acked,      \* upload: transferred
  cancelled,  \* the transfer's token
  cause       \* why it failed
source == <<upload, size, resizes>>
window == <<inflight, ranges, next, eof>>
target == <<written, landed, acked>>
vars   == <<source, depth, pc, window, target, cancelled, cause>>

Bytes(o, n) == [i \in 1 .. n |-> o + i - 1]
Least(a, b) == IF a < b THEN a ELSE b
NoRanges == [s \in {} |-> None]
(* The length is a hint: one request beyond it looks for the end of the file. *)
pipeline_depth(total) ==
  IF total = None THEN MaxDepth ELSE Least(MaxDepth, (total + Chunk - 1) \div Chunk + 1)

Init ==
  /\ upload \in BOOLEAN /\ size \in Sizes /\ resizes = 0
  /\ depth = MaxDepth /\ pc = "setup"
  /\ inflight = {} /\ ranges = NoRanges /\ next = 0 /\ eof = None
  /\ written = <<>> /\ landed = {} /\ acked = 0
  /\ cancelled = FALSE /\ cause = None

Ended == pc \in {"done", "failed"}
Fail(why) == pc' = "cleanup" /\ cause' = why
Going(l) == pc' = l /\ UNCHANGED cause

(* The file is opened, its length asked for, and the local file created. *)
Setup ==
  /\ pc = "setup" /\ ~cancelled
  /\ \E total \in Sizes \cup {None} : depth' = pipeline_depth(total)
  /\ Going("fill") /\ UNCHANGED <<source, window, target, cancelled>>
SetupFails ==
  /\ pc = "setup" /\ Fail("setup") /\ UNCHANGED <<source, depth, window, target, cancelled>>

Resize(n) ==
  /\ ~Ended /\ resizes < MaxResizes /\ n # size
  /\ size' = n /\ resizes' = resizes + 1
  /\ UNCHANGED <<upload, depth, pc, window, target, cancelled, cause>>
Cancel ==
  /\ ~Ended /\ ~cancelled /\ cancelled' = TRUE
  /\ UNCHANGED <<source, depth, pc, window, target, cause>>

(***************************************************************************)
(* The server                                                              *)
(***************************************************************************)
Request(start, offset, len) ==
  [start |-> start, offset |-> offset, len |-> len, answer |-> "none", got |-> 0]
Covers(r) == {r.offset + i : i \in 0 .. r.len - 1}
Answered(r, answer, n) == inflight' = (inflight \ {r}) \cup {[r EXCEPT !.answer = answer, !.got = n]}
(* A read is answered with what is there, or a part of it. *)
AnswersData(r) ==
  /\ ~upload /\ r.offset < size /\ UNCHANGED landed
  /\ \E n \in 1 .. Least(r.len, size - r.offset) : Answered(r, "data", n)
AnswersEnd(r) == ~upload /\ r.offset >= size /\ Answered(r, "end", 0) /\ UNCHANGED landed
AnswersWrite(r) == upload /\ Answered(r, "data", r.len) /\ landed' = landed \cup Covers(r)
(* A write that fails may have changed the file all the same. *)
Refuses(r) ==
  /\ Answered(r, "error", 0)
  /\ landed' = landed \/ (upload /\ landed' = landed \cup Covers(r))
Answers ==
  /\ ~Ended
  /\ \E r \in inflight :
       r.answer = "none" /\ (AnswersData(r) \/ AnswersEnd(r) \/ AnswersWrite(r) \/ Refuses(r))
  /\ UNCHANGED <<source, depth, pc, ranges, next, eof, written, acked, cancelled, cause>>

(***************************************************************************)
(* download_via_raw                                                        *)
(***************************************************************************)
NewRange == [data |-> <<>>, complete |-> FALSE, error |-> None]
(* A slot is filled while one is free and no end of file is known. *)
FillReads ==
  /\ pc = "fill" /\ ~upload /\ ~cancelled
  /\ IF eof = None /\ Cardinality(DOMAIN ranges) < depth
     THEN /\ ranges' = [s \in DOMAIN ranges \cup {next} |-> IF s = next THEN NewRange ELSE ranges[s]]
          /\ inflight' = inflight \cup {Request(next, next, Chunk)}
          /\ next' = next + Chunk /\ UNCHANGED pc
     ELSE pc' = "wait" /\ UNCHANGED <<ranges, inflight, next>>
  /\ UNCHANGED <<source, depth, eof, target, cancelled, cause>>

Becomes(s, range) == ranges' = [ranges EXCEPT ![s] = range]
TakesError(r) ==
  /\ r.answer = "error" /\ inflight' = inflight \ {r} /\ UNCHANGED eof
  /\ Becomes(r.start, [ranges[r.start] EXCEPT !.error = r.offset, !.complete = TRUE])
TakesEnd(r) ==
  /\ r.answer = "end" /\ inflight' = inflight \ {r}
  /\ eof' = IF eof = None THEN r.offset ELSE Least(eof, r.offset)
  /\ Becomes(r.start, [ranges[r.start] EXCEPT !.complete = TRUE])
TakesData_ShortIsAll(r) ==
  /\ r.answer = "data" /\ UNCHANGED eof
  /\ Becomes(r.start, [ranges[r.start] EXCEPT !.data = @ \o Bytes(r.offset, r.got), !.complete = TRUE])
  /\ inflight' = inflight \ {r}
(* A short answer is repaired in its place by a request for the rest. *)
TakesData(r) ==
  /\ r.answer = "data" /\ UNCHANGED eof
  /\ Becomes(r.start, [ranges[r.start] EXCEPT !.data = @ \o Bytes(r.offset, r.got), !.complete = (r.got = r.len)])
  /\ inflight' = (inflight \ {r}) \cup
       (IF r.got = r.len THEN {} ELSE {Request(r.start, r.offset + r.got, r.len - r.got)})
(* Whichever answer comes first. *)
Take(r) ==
  /\ pc = "wait" /\ ~upload /\ ~cancelled
  /\ TakesError(r) \/ TakesEnd(r) \/ TakesData(r)
  /\ Going("drain") /\ UNCHANGED <<source, depth, next, target, cancelled>>

First == CHOOSE s \in DOMAIN ranges : \A t \in DOMAIN ranges : s <= t
Reached(n) == eof # None /\ n >= eof
AllDrained ==
  /\ DOMAIN ranges = {} /\ UNCHANGED <<ranges, written>>
  /\ Going(IF Reached(Len(written)) THEN "flush" ELSE "fill")
(* What the first range holds is written. Then the end of the file ends the loop, an    *)
(* error of this range fails it, and the next range has its turn if this one is full.   *)
DrainsFirst(r) ==
  /\ written' = written \o r.data
  /\ \/ Reached(Len(written')) /\ Becomes(First, [r EXCEPT !.data = <<>>]) /\ Going("flush")
     \/ /\ ~Reached(Len(written')) /\ r.error # None
        /\ Becomes(First, [r EXCEPT !.data = <<>>]) /\ Fail("remote")
     \/ /\ ~Reached(Len(written')) /\ ~r.complete
        /\ Becomes(First, [r EXCEPT !.data = <<>>]) /\ Going("fill")
     \/ /\ ~Reached(Len(written')) /\ r.complete /\ r.error = None
        /\ ranges' = [s \in DOMAIN ranges \ {First} |-> ranges[s]] /\ Going("drain")
Unwritten == DOMAIN ranges # {} /\ ranges[First].data # <<>>
Drain ==
  /\ pc = "drain" /\ (Unwritten => ~cancelled)
  /\ AllDrained \/ (DOMAIN ranges # {} /\ DrainsFirst(ranges[First]))
  /\ UNCHANGED <<source, depth, inflight, next, eof, landed, acked, cancelled>>

(***************************************************************************)
(* upload_via_raw                                                          *)
(***************************************************************************)
(* The local file is read a chunk at a time while a slot is free. *)
FillWrite ==
  /\ pc = "fill" /\ upload /\ ~cancelled
  /\ IF eof = None /\ Cardinality(inflight) < depth
     THEN LET n == IF next < size THEN Least(Chunk, size - next) ELSE 0
          IN  IF n = 0 THEN eof' = next /\ UNCHANGED <<inflight, next, pc>>
              ELSE /\ inflight' = inflight \cup {Request(next, next, n)}
                   /\ next' = next + n /\ UNCHANGED <<eof, pc>>
     ELSE pc' = "wait" /\ UNCHANGED <<inflight, next, eof>>
  /\ UNCHANGED <<source, depth, ranges, target, cancelled, cause>>
(* Answers are taken in the order of the requests. *)
Acknowledged(r) ==
  /\ pc = "wait" /\ upload /\ ~cancelled /\ r.answer # "none"
  /\ \A q \in inflight : r.start <= q.start
  /\ inflight' = inflight \ {r}
  /\ IF r.answer = "error" THEN Fail("remote") /\ UNCHANGED acked
     ELSE Going("fill") /\ acked' = acked + r.len
  /\ UNCHANGED <<source, depth, ranges, next, eof, written, landed, cancelled>>

(***************************************************************************)
(* The end                                                                 *)
(***************************************************************************)
(* No request is left: an upload is complete, a download has lost its way. *)
Empty ==
  /\ pc = "wait" /\ inflight = {} /\ ~cancelled
  /\ IF upload THEN Going("flush") ELSE Fail("starved")
  /\ UNCHANGED <<source, depth, window, target, cancelled>>
(* The local file is flushed, or the remote one synchronized; then the handle is closed. *)
Flush ==
  /\ pc = "flush" /\ ~cancelled /\ Going("close")
  /\ UNCHANGED <<source, depth, window, target, cancelled>>
Close ==
  /\ pc = "close" /\ ~cancelled /\ Going("done")
  /\ UNCHANGED <<source, depth, window, target, cancelled>>
(* The disk, the synchronization or the close fails. *)
Breaks ==
  /\ pc \in {"flush", "close"} \/ (pc = "fill" /\ upload) \/ (pc = "drain" /\ Unwritten)
  /\ Fail("broken") /\ UNCHANGED <<source, depth, window, target, cancelled>>
(* Every await looks at the token first. *)
Interrupted ==
  /\ cancelled
  /\ pc \in {"setup", "fill", "wait", "flush", "close"} \/ (pc = "drain" /\ Unwritten)
  /\ Fail("cancelled") /\ UNCHANGED <<source, depth, window, target, cancelled>>
(* What is buffered is flushed and the handle closed, each within its time limit; the   *)
(* channel goes with the session.                                                       *)
Cleanup ==
  /\ pc = "cleanup" /\ pc' = "failed"
  /\ UNCHANGED <<source, depth, window, target, cancelled, cause>>

Steps ==
  \/ Setup \/ SetupFails \/ FillReads \/ Drain \/ FillWrite \/ Empty \/ Flush \/ Close \/ Interrupted \/ Cleanup
  \/ \E r \in inflight : Take(r) \/ Acknowledged(r)
Next == Steps \/ Answers \/ Breaks \/ Cancel \/ \E n \in Sizes : Resize(n)
(* A request is answered, or fails after its 120 s; the loop goes on. *)
Fairness == WF_vars(Steps) /\ WF_vars(Answers)
Spec == Init /\ [][Next]_vars /\ Fairness

-----------------------------------------------------------------------------
Requests == [start : Nat, offset : Nat, len : 1 .. Chunk, answer : {"none", "data", "end", "error"}, got : Nat]
Ranges == [data : Seq(Nat), complete : BOOLEAN, error : Nat \cup {None}]
TypeOK ==
  /\ upload \in BOOLEAN /\ cancelled \in BOOLEAN /\ size \in Sizes /\ resizes \in 0 .. MaxResizes
  /\ depth \in 1 .. MaxDepth /\ next \in Nat /\ acked \in Nat /\ eof \in Nat \cup {None}
  /\ pc \in {"setup", "fill", "wait", "drain", "flush", "close", "cleanup", "done", "failed"}
  /\ inflight \subseteq Requests
  /\ \A r \in inflight : r.got <= r.len /\ (r.answer = "data" => r.got > 0)
  /\ ranges \in [DOMAIN ranges -> Ranges] /\ DOMAIN ranges \subseteq Nat
  /\ written \in Seq(Nat) /\ landed \subseteq Nat
  /\ cause \in {None, "setup", "remote", "starved", "broken", "cancelled"}
(* Whatever order replies come in, the local file is the beginning of the source: no    *)
(* byte twice, none missing, none out of its place.                                     *)
InOrder == written = Bytes(0, Len(written))
(* A slot is held until what came for it is written: answered and asked for, a range is *)
(* never more than a request, so that what waits in memory is bounded by the window.    *)
Slots == IF upload THEN inflight ELSE DOMAIN ranges
WindowHeld ==
  /\ IsFiniteSet(Slots) /\ Cardinality(Slots) <= depth
  /\ \A r \in inflight : ~upload => r.start \in DOMAIN ranges /\ Len(ranges[r.start].data) + r.len <= Chunk
(* A transfer that ends well moved everything: the download up to an end of file that   *)
(* the server gave, the upload all that was read, whole at the server.                  *)
DoneIsWhole ==
  pc = "done" =>
    /\ ~upload => Len(written) = eof
    /\ upload  => landed = 0 .. next - 1 /\ acked = next
    /\ resizes = 0 => size = IF upload THEN next ELSE Len(written)
(* A read fails the download only where its next byte would come from: the errors of    *)
(* requests beyond the end of the file do not.                                          *)
ErrorIsNext ==
  cause = "remote" /\ ~upload =>
    DOMAIN ranges # {} /\ ranges[First].error = Len(written) /\ ~Reached(Len(written))
(* The loop never waits without a request. *)
NeverStarves == cause # "starved"

(* Why they hold: the ranges of a download follow one another from the end of what is   *)
(* written, each is the bytes of its place, and a request is under way exactly for the  *)
(* rest of a range that is not complete.                                                *)
From(s) == IF s = First THEN Len(written) ELSE s
Upto(s) == From(s) + Len(ranges[s].data)
RangesInLine ==
  ~upload =>
    /\ \A s \in DOMAIN ranges : s + Chunk = next \/ s + Chunk \in DOMAIN ranges
    /\ \A s, t \in DOMAIN ranges : s < t => s + Chunk <= t
    /\ \A s \in DOMAIN ranges : s + Chunk <= next /\ s <= From(s) /\ Upto(s) <= s + Chunk
    /\ DOMAIN ranges = {} => Len(written) = next
RangesTrue ==
  ~upload => \A s \in DOMAIN ranges :
    /\ ranges[s].data = Bytes(From(s), Len(ranges[s].data))
    /\ ranges[s].error # None => ranges[s].complete /\ ranges[s].error = Upto(s)
    /\ ranges[s].complete /\ ranges[s].error = None => Upto(s) = s + Chunk \/ Reached(Upto(s))
    /\ ~ranges[s].complete <=> \E r \in inflight : r.start = s
RequestsTrue ==
  /\ \A r, q \in inflight : r.start = q.start => r = q
  /\ ~upload => \A r \in inflight :
       r.start \in DOMAIN ranges /\ r.offset = Upto(r.start) /\ r.offset + r.len = r.start + Chunk
(* The end of file is that of a range the loop still holds, or all is written. *)
EndSeen ==
  ~upload /\ eof # None =>
    /\ Len(written) <= eof
    /\ pc \in {"fill", "wait", "drain"} =>
         \E s \in DOMAIN ranges : ranges[s].complete /\ ranges[s].error = None /\ Upto(s) = eof
(* The requests of an upload follow one another from what is acknowledged to what is read. *)
WritesInLine ==
  upload =>
    /\ DOMAIN ranges = {} /\ written = <<>> /\ landed \subseteq 0 .. next - 1 /\ 0 .. acked - 1 \subseteq landed
    /\ \A r \in inflight : /\ r.offset = r.start /\ acked <= r.start
                           /\ r.start + r.len <= next
                           /\ r.answer \notin {"none", "error"} => Covers(r) \subseteq landed
                           /\ r.start + r.len = next \/ \E q \in inflight : q.start = r.start + r.len
    /\ \A r, q \in inflight : r.start < q.start => r.start + r.len <= q.start
    /\ cause = None => acked = next \/ \E r \in inflight : r.start = acked
(* While the source keeps its length, nothing is read beyond it, and the end is there. *)
SizeKept ==
  resizes = 0 =>
    /\ upload => next <= size /\ (eof # None => next = size)
    /\ ~upload =>
         /\ eof # None => eof >= size
         /\ Len(written) <= size
         /\ \A s \in DOMAIN ranges : ranges[s].data # <<>> => Upto(s) <= size
         /\ \A r \in inflight : /\ r.answer = "data" => r.offset + r.got <= size
                                /\ r.answer = "end" => r.offset >= size
LoopHolds ==
  /\ cause = None <=> pc \notin {"cleanup", "failed"}
  /\ pc = "drain" => ~upload
  /\ pc = "setup" => inflight = {} /\ DOMAIN ranges = {} /\ eof = None /\ next = 0
  /\ pc = "fill" /\ ~upload => inflight # {} \/ (DOMAIN ranges = {} /\ eof = None)
  /\ pc = "wait" /\ inflight = {} => upload /\ eof # None
  /\ pc \in {"flush", "close", "done"} =>
       eof # None /\ IF upload THEN inflight = {} ELSE Len(written) = eof
Inv ==
  /\ TypeOK /\ InOrder /\ WindowHeld /\ DoneIsWhole /\ ErrorIsNext /\ NeverStarves
  /\ RangesInLine /\ RangesTrue /\ RequestsTrue /\ EndSeen /\ WritesInLine /\ SizeKept /\ LoopHolds
=============================================================================
