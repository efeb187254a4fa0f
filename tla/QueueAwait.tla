----------------------------- MODULE QueueAwait -----------------------------
(***************************************************************************)
(* queue_wait.go: the handle that turns a structured queue refusal (10605) *)
(* met before any content into one bounded wait and a reopened stream.     *)
(*                                                                         *)
(* One goroutine owns the handle: it opens it, calls ReadChunk in a loop   *)
(* and cancels it (execute and pumpStream of executor.go both defer the    *)
(* Cancel).  Beside it run the context machinery, which closes the body of *)
(* an open stream when its deadline passes or its context is cancelled,    *)
(* and whoever holds the context queueAwait was given.                     *)
(***************************************************************************)
EXTENDS Integers

CONSTANTS
  MaxWait,        \* queueWaitPolicy.maxWait: the longest single wait
  Budget,         \* queueWaitPolicy.budget: what all waits may add up to
  MaxAttempts,    \* queueWaitPolicy.maxAttempts: StreamChat calls in total
  Second,         \* time.Second, in units of time.Duration
  MaxDuration,    \* the largest time.Duration (2^63 - 1 in the program)
  Refusals,       \* queue refusals the upstream may answer with
  ParentCancels   \* whether the context given to queueAwait may be cancelled

ASSUME PolicyAssumption ==
  /\ MaxAttempts \in Nat \ {0}
  /\ MaxWait \in Nat /\ Budget \in Nat
  /\ Second \in Nat \ {0} /\ MaxDuration \in Nat
  /\ ParentCancels \in BOOLEAN

\* A refusal carries a QueuePayload or none, and its two wait hints.
ASSUME RefusalAssumption ==
  Refusals \subseteq [payload : BOOLEAN, retryAfter : Int, waitTime : Int]

VARIABLES
  pc,         \* what the goroutine that owns the handle is doing
  attempts,   \* queueAwaitHandle.attempts; 0 before queueAwait returns
  waited,     \* queueAwaitHandle.waited
  started,    \* queueAwaitHandle.started
  streams,    \* the upstream streams opened so far: "none", "open", "closed"
  hctx,       \* queueAwaitHandle.ctx: "live" or "cancelled"
  hint,       \* the wait hint, in seconds, the handle is acting on
  outbound,   \* history: calls of StreamChat
  slept       \* history: time spent in waits that ran to their end

vars == <<pc, attempts, waited, started, streams, hctx, hint, outbound, slept>>

Attempts == 1..MaxAttempts

PCs == {"unopened", "idle", "reading", "sleeping", "reopening", "failed",
        "closed"}

\* int64 arithmetic on time.Duration.
Wrap(d) ==
  LET width == 2 * (MaxDuration + 1)
  IN  ((d + MaxDuration + 1) % width) - (MaxDuration + 1)

\* The inner stream is the one the last successful StreamChat call opened.
Inner == streams[attempts]

Hint(q) == IF q.retryAfter > 0 THEN q.retryAfter ELSE q.waitTime

Delay(h) == Wrap(h * Second)

\* A slip: a refusal is waited out after content as well.
WaitsFor_afterContent(q) ==
  /\ q.payload /\ attempts < MaxAttempts /\ Hint(q) > 0
  /\ Delay(Hint(q)) <= MaxWait /\ Wrap(waited + Delay(Hint(q))) <= Budget

\* The refusals ReadChunk waits out; every other one it returns as it is.
WaitsFor(q) ==
  /\ ~started
  /\ q.payload
  /\ attempts < MaxAttempts
  /\ Hint(q) > 0
  /\ Delay(Hint(q)) <= MaxWait
  /\ Wrap(waited + Delay(Hint(q))) <= Budget

Init ==
  /\ pc = "unopened"
  /\ attempts = 0
  /\ waited = 0
  /\ started = FALSE
  /\ streams = [i \in Attempts |-> "none"]
  /\ hctx = "live"
  /\ hint = 0
  /\ outbound = 0
  /\ slept = 0

OpenOk ==
  /\ pc = "unopened"
  /\ pc' = "idle"
  /\ attempts' = 1
  /\ streams' = [streams EXCEPT ![1] = "open"]
  /\ outbound' = 1
  /\ UNCHANGED <<waited, started, hctx, hint, slept>>

\* queueAwait cancels its context and returns no handle.
OpenFail ==
  /\ pc = "unopened"
  /\ pc' = "closed"
  /\ hctx' = "cancelled"
  /\ outbound' = 1
  /\ UNCHANGED <<attempts, waited, started, streams, hint, slept>>

CallReadChunk ==
  /\ pc = "idle"
  /\ pc' = "reading"
  /\ UNCHANGED <<attempts, waited, started, streams, hctx, hint, outbound, slept>>

\* A chunk may outlive its stream: the adapter hands out the terminal marker, and the text it
\* held back for tool-call detection, after the stream has ended.
ReadReturnsChunk ==
  /\ pc = "reading"
  /\ pc' = "idle"
  /\ started' = TRUE
  /\ UNCHANGED <<attempts, waited, streams, hctx, hint, outbound, slept>>

\* EOF, a broken or expired stream, another business error, malformed events.
ReadReturnsError ==
  /\ pc = "reading"
  /\ pc' = "failed"
  /\ UNCHANGED <<attempts, waited, started, streams, hctx, hint, outbound, slept>>

ReadReturnsRefusal(q) ==
  /\ pc = "reading"
  /\ Inner = "open" \/ started
  /\ ~WaitsFor(q)
  /\ pc' = "failed"
  /\ UNCHANGED <<attempts, waited, started, streams, hctx, hint, outbound, slept>>

\* A slip: the refused stream is left open while the handle waits.
StartWait_withoutCancel(q) ==
  /\ pc = "reading" /\ Inner = "open" /\ WaitsFor(q)
  /\ pc' = "sleeping"
  /\ hint' = Hint(q)
  /\ UNCHANGED <<attempts, waited, started, streams, hctx, outbound, slept>>

StartWait(q) ==
  /\ pc = "reading"
  /\ Inner = "open"
  /\ WaitsFor(q)
  /\ pc' = "sleeping"
  /\ streams' = [streams EXCEPT ![attempts] = "closed"]
  /\ hint' = Hint(q)
  /\ UNCHANGED <<attempts, waited, started, hctx, outbound, slept>>

\* A slip: the last wait replaces the sum of the waits.
WaitEnds_forgetsSum ==
  /\ pc = "sleeping"
  /\ pc' = "reopening"
  /\ waited' = Delay(hint)
  /\ slept' = slept + (IF Delay(hint) > 0 THEN Delay(hint) ELSE 0)
  /\ UNCHANGED <<attempts, started, streams, hctx, hint, outbound>>

\* The timer fired, or there was nothing to sleep for (a delay that is not positive).
WaitEnds ==
  /\ pc = "sleeping"
  /\ pc' = "reopening"
  /\ waited' = Wrap(waited + Delay(hint))
  /\ slept' = slept + (IF Delay(hint) > 0 THEN Delay(hint) ELSE 0)
  /\ UNCHANGED <<attempts, started, streams, hctx, hint, outbound>>

WaitAborts ==
  /\ pc = "sleeping"
  /\ hctx = "cancelled"
  /\ Delay(hint) > 0
  /\ pc' = "failed"
  /\ UNCHANGED <<attempts, waited, started, streams, hctx, hint, outbound, slept>>

\* A slip: reopening does not count as an attempt.
ReopenOk_uncounted ==
  /\ pc = "reopening"
  /\ pc' = "reading"
  /\ streams' = [streams EXCEPT ![attempts] = "open"]
  /\ outbound' = outbound + 1
  /\ UNCHANGED <<attempts, waited, started, hctx, hint, slept>>

\* Nothing on the way to the host looks at the context, so that a cancelled one does not
\* keep the stream from opening.
ReopenOk ==
  /\ pc = "reopening"
  /\ pc' = "reading"
  /\ attempts' = attempts + 1
  /\ streams' = [streams EXCEPT ![attempts + 1] = "open"]
  /\ outbound' = outbound + 1
  /\ UNCHANGED <<waited, started, hctx, hint, slept>>

ReopenFail ==
  /\ pc = "reopening"
  /\ pc' = "failed"
  /\ outbound' = outbound + 1
  /\ UNCHANGED <<attempts, waited, started, streams, hctx, hint, slept>>

\* The owner is done with the handle: after an error, or because what it did with the last
\* chunk ended its work.
Cancel ==
  /\ pc = "failed" \/ (pc = "idle" /\ started)
  /\ pc' = "closed"
  /\ hctx' = "cancelled"
  /\ streams' = [streams EXCEPT ![attempts] = "closed"]
  /\ UNCHANGED <<attempts, waited, started, hint, outbound, slept>>

\* Whoever called queueAwait cancels the context it passed.
CancelParent ==
  /\ ParentCancels
  /\ pc # "unopened"
  /\ hctx = "live"
  /\ hctx' = "cancelled"
  /\ UNCHANGED <<pc, attempts, waited, started, streams, hint, outbound, slept>>

\* The timeout of a stream's own context, or the cancellation of the handle's, closes its
\* body (context.AfterFunc of the transports).
StreamExpires(i) ==
  /\ streams[i] = "open"
  /\ streams' = [streams EXCEPT ![i] = "closed"]
  /\ UNCHANGED <<pc, attempts, waited, started, hctx, hint, outbound, slept>>

ReadChunk ==
  \/ CallReadChunk
  \/ ReadReturnsChunk
  \/ ReadReturnsError
  \/ \E q \in Refusals : ReadReturnsRefusal(q) \/ StartWait(q)
  \/ WaitEnds
  \/ WaitAborts
  \/ ReopenOk
  \/ ReopenFail

\* A handle that was never opened, or is cancelled, takes no further step.
Finished ==
  /\ pc = "closed"
  /\ UNCHANGED vars

Next ==
  \/ OpenOk
  \/ OpenFail
  \/ ReadChunk
  \/ Cancel
  \/ CancelParent
  \/ \E i \in Attempts : StreamExpires(i)
  \/ Finished

\* Every stream context has a deadline, so an open stream does not stay open; a closed one has
\* finitely many chunks left, so that reading on meets an error (strong fairness); a sleep ends;
\* StreamChat answers; the owner reads on or cancels.
Fairness ==
  /\ WF_vars(CallReadChunk \/ Cancel)
  /\ SF_vars(ReadReturnsError /\ Inner # "open")
  /\ WF_vars(WaitEnds \/ WaitAborts)
  /\ WF_vars(ReopenOk \/ ReopenFail)
  /\ \A i \in Attempts : WF_vars(StreamExpires(i))

Spec == Init /\ [][Next]_vars /\ Fairness

-----------------------------------------------------------------------------
(* What the handle promises. *)

Open == {i \in Attempts : streams[i] = "open"}

\* The handle as its caller sees it: waits and reopenings happen inside ReadChunk.
Life == IF pc = "unopened" THEN "fresh"
        ELSE IF pc = "failed" THEN "ended"
        ELSE IF pc = "closed" THEN "closed"
        ELSE "live"

Promise == INSTANCE StreamHandle WITH
  life <- Life, upstream <- Open # {}, delivered <- started

\* The fields keep their types; waited is a time.Duration.
TypeOK ==
  /\ pc \in PCs
  /\ attempts \in 0..MaxAttempts
  /\ waited \in -(MaxDuration + 1)..MaxDuration
  /\ started \in BOOLEAN
  /\ streams \in [Attempts -> {"none", "open", "closed"}]
  /\ hctx \in {"live", "cancelled"}
  /\ hint \in Int
  /\ outbound \in Nat
  /\ slept \in Nat

\* ReadChunk cancels the refused stream before it waits, so that at no moment, whichever
\* way timeouts and cancellations fall, two upstream streams are open for one completion,
\* and none is once the owner has cancelled the handle.
AtMostOneOpen ==
  /\ Open \subseteq {attempts}
  /\ pc \in {"sleeping", "reopening", "closed"} => Open = {}

\* However the refusals, failed reopenings and cancellations are mixed, the upstream sees
\* at most maxAttempts StreamChat calls for one request.
OutboundBounded == outbound <= MaxAttempts

\* A wait that is under way, or just over, is one the upstream asked for and is no longer
\* than maxWait: an over-cap hint never leads to a second outbound call.
WaitsWithinCap ==
  pc \in {"sleeping", "reopening"} =>
    /\ hint > 0
    /\ hint * Second <= MaxWait

\* The waits of all rounds together stay within the budget.
TotalWaitBounded == slept <= Budget

\* What the two bounds above rest on: no hint, counted in time.Duration, leaves int64.
NoOverflow ==
  /\ MaxWait + Budget <= MaxDuration
  /\ \A q \in Refusals : Hint(q) * Second <= MaxDuration

\* The handle is a StreamHandle to its caller: it reopens only while nothing was handed
\* out, never holds a second stream, and ends closed with nothing left open upstream.
ImplementsStreamHandle == Promise!Spec
=============================================================================
