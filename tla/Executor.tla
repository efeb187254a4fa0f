------------------------------ MODULE Executor ------------------------------
(***************************************************************************)
(* One executor RPC from request to last host call: executor.go,           *)
(* executor_handler.go, executor_aggregate.go and executor_errors.go on    *)
(* top of the handle of QueueAwait.                                        *)
(*                                                                         *)
(* "execute" reads the whole completion inside the RPC and answers with    *)
(* it.  "stream" answers as soon as the stream is open, while a goroutine  *)
(* of its own, the pump, passes the chunks to the host's stream: the reply *)
(* and the pump's host calls may come in any order.                        *)
(***************************************************************************)
EXTENDS Integers, Sequences

CONSTANTS MaxWait, Budget, MaxAttempts, Second, MaxDuration, Refusals,
  ParentCancels,   \* FALSE in the program: the RPC runs under context.Background()
  Modes            \* the executor methods in use, of {"execute", "stream"}

\* The policy and the refusals are as QueueAwait has them.
ASSUME ExecutorAssumption ==
  /\ MaxAttempts \in Nat \ {0}
  /\ MaxWait \in Nat /\ Budget \in Nat
  /\ Second \in Nat \ {0} /\ MaxDuration \in Nat
  /\ ParentCancels \in BOOLEAN
  /\ Refusals \subseteq [payload : BOOLEAN, retryAfter : Int, waitTime : Int]
  /\ Modes \subseteq {"execute", "stream"}

VARIABLES pc, attempts, waited, started, streams, hctx, hint, outbound, slept

Q == INSTANCE QueueAwait

VARIABLES
  mode,        \* the method called
  rpc,         \* "idle", "running", "returning", "replied"
  reply,       \* the envelope: "none", "ok", "error"
  owner,       \* what the reader of the handle does: "none", "loop", "chunk", "usage",
               \* "close", "cancel", "gone"
  chunk,       \* the kind of chunk in hand
  failure,     \* what ended the reading: "none", "eof", "refused", "other"
  sawDone,     \* whether the [DONE] marker was read
  realUsage,   \* tracker.realUsage, or result.Usage # nil
  estimated,   \* whether an estimated usage was given to the client
  hostCloses,  \* history: the messages of the calls of host.stream.close, in order
  sources,     \* history: the streams whose chunks the client got
  cooled,      \* whether a queue cooldown was armed for the request's account and model
  named        \* whether the request has an AuthID and a Model; without, the account is
               \* still found in its credential, but no cooldown can be armed

handle == <<pc, attempts, waited, started, streams, hctx, hint, outbound, slept>>
answer == <<realUsage, estimated, hostCloses, sources, cooled, named>>
vars == <<handle, mode, rpc, reply, owner, chunk, failure, sawDone, answer>>

Chunks == {"content", "usage", "invalid", "done"}

Init ==
  /\ Q!Init
  /\ mode \in Modes
  /\ rpc = "idle" /\ reply = "none"
  /\ owner = "none" /\ chunk = "none" /\ failure = "none"
  /\ sawDone = FALSE /\ realUsage = FALSE /\ estimated = FALSE
  /\ hostCloses = <<>> /\ sources = {} /\ cooled = FALSE
  /\ named \in BOOLEAN

-----------------------------------------------------------------------------
(* Opening *)

\* A wrong format, provider, credential, callback, profile or stream id: no upstream call.
Reject ==
  /\ rpc = "idle"
  /\ rpc' = "returning"
  /\ failure' = "other"
  /\ UNCHANGED <<handle, mode, reply, owner, chunk, sawDone, answer>>

OpenFails ==
  /\ rpc = "idle"
  /\ Q!OpenFail
  /\ rpc' = "returning"
  /\ failure' = "other"
  /\ UNCHANGED <<mode, reply, owner, chunk, sawDone, answer>>

\* executeStream starts the pump and returns; execute stays to read.
Opens ==
  /\ rpc = "idle"
  /\ Q!OpenOk
  /\ rpc' = (IF mode = "stream" THEN "returning" ELSE "running")
  /\ owner' = "loop"
  /\ UNCHANGED <<mode, reply, chunk, failure, sawDone, answer>>

-----------------------------------------------------------------------------
(* Reading: aggregateChat and pumpStream call ReadChunk until it fails *)

\* The waits and reopenings inside ReadChunk.
Waits ==
  /\ owner = "loop"
  /\ \/ Q!CallReadChunk
     \/ ~sawDone /\ \E q \in Refusals : Q!StartWait(q)
     \/ Q!WaitEnds
     \/ Q!ReopenOk
  /\ UNCHANGED <<mode, rpc, reply, owner, chunk, failure, sawDone, answer>>

Reads(kind) ==
  /\ owner = "loop"
  /\ Q!ReadReturnsChunk
  /\ ~sawDone
  /\ owner' = "chunk"
  /\ chunk' = kind
  /\ sawDone' = (kind = "done")
  /\ UNCHANGED <<mode, rpc, reply, failure, answer>>

AfterReading == IF mode = "stream" THEN "close" ELSE "cancel"

\* A slip: the estimate is added beside the upstream's own usage.
ReadsEOF_alwaysEstimates ==
  /\ owner = "loop"
  /\ Q!ReadReturnsError
  /\ failure' = "eof"
  /\ owner' = (IF mode = "stream" THEN "usage" ELSE AfterReading)
  /\ UNCHANGED <<mode, rpc, reply, chunk, sawDone, answer>>

\* After [DONE] the adapters answer io.EOF.  The pump adds the estimated usage before it
\* closes the stream, unless the upstream sent one.
ReadsEOF ==
  /\ owner = "loop"
  /\ Q!ReadReturnsError
  /\ failure' = "eof"
  /\ owner' = (IF mode = "stream" /\ ~realUsage THEN "usage" ELSE AfterReading)
  /\ UNCHANGED <<mode, rpc, reply, chunk, sawDone, answer>>

ReadFails ==
  /\ owner = "loop"
  /\ ~sawDone
  /\ Q!ReadReturnsError \/ Q!WaitAborts \/ Q!ReopenFail
  /\ failure' = "other"
  /\ owner' = AfterReading
  /\ UNCHANGED <<mode, rpc, reply, chunk, sawDone, answer>>

ReadsRefusal ==
  /\ owner = "loop"
  /\ ~sawDone
  /\ \E q \in Refusals : Q!ReadReturnsRefusal(q)
  /\ failure' = "refused"
  /\ owner' = AfterReading
  /\ UNCHANGED <<mode, rpc, reply, chunk, sawDone, answer>>

-----------------------------------------------------------------------------
(* What becomes of a chunk *)

\* A slip: the pump returns without closing the host's stream.
Invalid_returnsAtOnce ==
  /\ owner = "chunk"
  /\ chunk = "invalid"
  /\ failure' = "other"
  /\ owner' = "cancel"
  /\ UNCHANGED <<handle, mode, rpc, reply, chunk, sawDone, answer>>

Invalid ==
  /\ owner = "chunk"
  /\ chunk = "invalid"
  /\ failure' = "other"
  /\ owner' = AfterReading
  /\ UNCHANGED <<handle, mode, rpc, reply, chunk, sawDone, answer>>

\* aggregateChat stops at [DONE]; pumpStream skips it and reads on.
Done ==
  /\ owner = "chunk"
  /\ chunk = "done"
  /\ owner' = (IF mode = "stream" THEN "loop" ELSE "cancel")
  /\ estimated' = (mode = "execute" /\ ~realUsage)
  /\ UNCHANGED <<handle, mode, rpc, reply, chunk, failure, sawDone, realUsage,
                 hostCloses, sources, cooled, named>>

\* applyAggregateChunk, or tracker.observe followed by host.stream.emit.
Passes ==
  /\ owner = "chunk"
  /\ chunk \in {"content", "usage"}
  /\ owner' = "loop"
  /\ realUsage' = (realUsage \/ chunk = "usage")
  /\ sources' = sources \union {attempts}
  /\ UNCHANGED <<handle, mode, rpc, reply, chunk, failure, sawDone, estimated,
                 hostCloses, cooled, named>>

\* A slip: a failed emit closes the stream on the spot, and the pump's end closes it again.
EmitFails_closesToo ==
  /\ mode = "stream"
  /\ owner = "usage" \/ (owner = "chunk" /\ chunk \in {"content", "usage"})
  /\ failure' = "other"
  /\ owner' = "close"
  /\ hostCloses' = Append(hostCloses, "error")
  /\ UNCHANGED <<handle, mode, rpc, reply, chunk, sawDone, realUsage, estimated, sources, cooled, named>>

\* The host refuses an emit: its client is gone.
EmitFails ==
  /\ mode = "stream"
  /\ owner = "usage" \/ (owner = "chunk" /\ chunk \in {"content", "usage"})
  /\ failure' = "other"
  /\ owner' = "close"
  /\ UNCHANGED <<handle, mode, rpc, reply, chunk, sawDone, answer>>

EmitEstimate ==
  /\ owner = "usage"
  /\ owner' = "close"
  /\ estimated' = TRUE
  /\ UNCHANGED <<handle, mode, rpc, reply, chunk, failure, sawDone, realUsage,
                 hostCloses, sources, cooled, named>>

-----------------------------------------------------------------------------
(* Ending *)

\* closeStream: an error message unless the reading ended with io.EOF.
CloseStream ==
  /\ owner = "close"
  /\ owner' = "cancel"
  /\ hostCloses' = Append(hostCloses, IF failure = "eof" THEN "ok" ELSE "error")
  /\ UNCHANGED <<handle, mode, rpc, reply, chunk, failure, sawDone, realUsage,
                 estimated, sources, cooled, named>>

\* The deferred handle.Cancel.
Cancels ==
  /\ owner = "cancel"
  /\ Q!Cancel
  /\ owner' = "gone"
  /\ rpc' = (IF mode = "execute" THEN "returning" ELSE rpc)
  /\ UNCHANGED <<mode, reply, chunk, failure, sawDone, answer>>

\* What the method itself returns: execute fails unless it stopped at [DONE].
Failed ==
  \/ owner = "none"
  \/ mode = "execute" /\ failure # "none"

\* The end of handleExecutorMethod: a failure of the method is noted with the scheduler,
\* which arms a cooldown for a queue refusal of a request that names its account and model,
\* and the envelope is returned.
Replies ==
  /\ rpc = "returning"
  /\ rpc' = "replied"
  /\ reply' = (IF Failed THEN "error" ELSE "ok")
  /\ cooled' = (Failed /\ failure = "refused" /\ named)
  /\ UNCHANGED <<handle, mode, owner, chunk, failure, sawDone, realUsage, estimated,
                 hostCloses, sources, named>>

\* Deadlines of the open streams pass whatever the others do.
Expires ==
  /\ \E i \in Q!Attempts : Q!StreamExpires(i)
  /\ UNCHANGED <<mode, rpc, reply, owner, chunk, failure, sawDone, answer>>

Over ==
  /\ rpc = "replied"
  /\ owner \in {"none", "gone"}
  /\ UNCHANGED vars

Reading ==
  \/ Waits
  \/ \E kind \in Chunks : Reads(kind)
  \/ ReadsEOF
  \/ ReadFails
  \/ ReadsRefusal

Handling == Invalid \/ Done \/ Passes \/ EmitFails \/ EmitEstimate

Next ==
  \/ Reject \/ OpenFails \/ Opens
  \/ Reading
  \/ Handling
  \/ CloseStream \/ Cancels \/ Replies
  \/ Expires
  \/ Over

\* The host answers its calls, so that every goroutine takes its next step; reading is
\* kept from going on for ever only by the deadline of the stream (see QueueAwait).
Fairness ==
  /\ WF_vars(Opens \/ OpenFails \/ Reject)
  /\ WF_vars(Waits \/ (ReadFails /\ pc # "reading"))
  /\ SF_vars((ReadsEOF \/ ReadFails) /\ Q!Inner # "open")
  /\ WF_vars(Handling)
  /\ WF_vars(CloseStream \/ Cancels)
  /\ WF_vars(Replies)
  /\ WF_vars(Expires)

Spec == Init /\ [][Next]_vars /\ Fairness

-----------------------------------------------------------------------------
(* What the executor promises the host and its client. *)

TypeOK ==
  /\ Q!TypeOK
  /\ mode \in Modes
  /\ rpc \in {"idle", "running", "returning", "replied"}
  /\ reply \in {"none", "ok", "error"}
  /\ owner \in {"none", "loop", "chunk", "usage", "close", "cancel", "gone"}
  /\ chunk \in Chunks \union {"none"}
  /\ failure \in {"none", "eof", "refused", "other"}
  /\ sawDone \in BOOLEAN /\ realUsage \in BOOLEAN /\ estimated \in BOOLEAN
  /\ cooled \in BOOLEAN /\ named \in BOOLEAN
  /\ hostCloses \in Seq({"ok", "error"})
  /\ sources \subseteq Q!Attempts

\* The client never gets one answer spliced from two upstream streams, whatever refusals,
\* waits and deadlines lie in between.
SingleSource == \A i, j \in sources : i = j

\* The host's stream is closed at most once, only if the RPC does not fail (a failed RPC
\* leaves it to the host), and without an error only when the upstream ended by itself.
HostStreamClosedOnce ==
  /\ Len(hostCloses) <= 1
  /\ hostCloses # <<>> => mode = "stream" /\ owner # "none"
  /\ hostCloses = <<"ok">> => failure = "eof"

\* execute answers only after it released the upstream, and successfully only with a
\* completion that was read to its [DONE].
ExecuteRepliesLast ==
  mode = "execute" /\ reply # "none" =>
    /\ Q!Open = {}
    /\ reply = "ok" => sawDone

\* A queue refusal that ends a request whose RPC is still running arms the cooldown, and
\* nothing else does: one that the pump meets is told to the client alone.
CooldownFollowsRefusal ==
  cooled => failure = "refused" /\ reply = "error" /\ named

\* The three ways in which the end of a request is told: to the host's stream, in the answer
\* of the RPC, and to the scheduler.
EndIsTold ==
  /\ HostStreamClosedOnce
  /\ ExecuteRepliesLast
  /\ CooldownFollowsRefusal
  /\ failure = "refused" /\ reply = "error" /\ named => cooled

\* A client gets the upstream's usage or an estimate, not both, and one of them with every
\* answer that ends well.
OneUsage ==
  /\ ~(realUsage /\ estimated)
  /\ (mode = "execute" /\ reply = "ok") \/ hostCloses = <<"ok">>
       => realUsage \/ estimated

\* Every stream the host was told is open is closed in the end, and every request leaves
\* no upstream stream behind.
EveryRequestEnds ==
  /\ (rpc = "replied" /\ mode = "stream" /\ reply = "ok") ~> (hostCloses # <<>>)
  /\ (pc # "unopened") ~> (rpc = "replied" /\ [](Q!Open = {}))
=============================================================================
