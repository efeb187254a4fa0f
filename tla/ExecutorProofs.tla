--------------------------- MODULE ExecutorProofs ---------------------------
(***************************************************************************)
(* The safety properties of Executor for every policy of the queue wait    *)
(* and every set of refusals.  The handle below keeps its own invariant    *)
(* (QueueAwaitProofs), since every step of the executor is one of the      *)
(* handle or leaves it alone; Inv adds what the executor knows of the      *)
(* handle and of its own end.                                              *)
(***************************************************************************)
EXTENDS Executor, TLAPS

\* The executor's refusals are any; which answers they come from plays no part here.
H == INSTANCE QueueAwaitProofs WITH Payloads <- {}

\* Chunks in hand or passed on came from the current stream of a started handle.
SourceInv ==
  /\ sources \subseteq {attempts}
  /\ sources # {} => started
  /\ owner = "chunk" => started /\ pc = "idle"

\* The reader of the handle exists from a successful opening until it has cancelled it.
OwnerInv ==
  /\ rpc = "idle" => owner = "none" /\ pc = "unopened" /\ failure = "none"
  /\ owner = "none" => pc \in {"unopened", "closed"} /\ rpc # "running"
                       /\ failure \in {"none", "other"}
  /\ owner = "gone" => pc = "closed"
  /\ owner # "none" /\ mode = "execute" => (rpc = "running" <=> owner # "gone")
  /\ mode = "stream" => rpc # "running"

\* How far the reading has come decides what is known of its end.
EndInv ==
  /\ owner \in {"none", "loop", "chunk"} => failure = "none" \/ (owner = "none" /\ rpc # "idle")
  /\ owner = "usage" => mode = "stream" /\ failure = "eof" /\ ~realUsage
  /\ owner = "close" => mode = "stream" /\ failure # "none"
  /\ owner \in {"cancel", "gone"} /\ mode = "stream" => failure # "none"
  /\ owner \in {"cancel", "gone"} /\ failure = "none" => sawDone
  /\ owner = "chunk" /\ chunk = "done" => sawDone

\* One usage, which an estimate replaces only at the end.
UsageInv ==
  /\ estimated => owner \in {"close", "cancel", "gone"} /\ ~realUsage
  /\ owner = "close" /\ failure = "eof" => realUsage \/ estimated
  /\ owner \in {"cancel", "gone"} /\ (failure = "none" \/ (mode = "stream" /\ failure = "eof"))
       => realUsage \/ estimated

\* The host's stream is closed between the reading and the cancelling of the pump.
CloseInv ==
  /\ mode = "stream" /\ owner \in {"cancel", "gone"} =>
       hostCloses = <<IF failure = "eof" THEN "ok" ELSE "error">>
  /\ mode = "execute" \/ owner \notin {"cancel", "gone"} => hostCloses = <<>>

\* The reply tells what the method knows when it is made.
ReplyInv ==
  /\ rpc = "replied" <=> reply # "none"
  /\ cooled => rpc = "replied"
  /\ rpc = "replied" => reply = (IF Failed THEN "error" ELSE "ok")
  /\ cooled => Failed /\ failure = "refused" /\ named
  /\ rpc = "replied" /\ Failed /\ failure = "refused" /\ named => cooled

Inv ==
  /\ H!Inv
  /\ TypeOK
  /\ SourceInv /\ OwnerInv /\ EndInv /\ UsageInv /\ CloseInv /\ ReplyInv

-----------------------------------------------------------------------------
(* The handle *)

\* Every step of the executor is one of its handle or leaves the handle alone.
LEMMA HandleStep == [Next]_vars => [H!Next]_(H!vars)
<1> SUFFICES ASSUME [Next]_vars PROVE [H!Next]_(H!vars)
  OBVIOUS
<1> USE DEF H!Next, H!ReadChunk, H!vars, H!Attempts, Q!Attempts
<1>1. CASE OpenFails \/ Opens
  BY <1>1 DEF OpenFails, Opens, Q!OpenFail, Q!OpenOk, H!OpenFail, H!OpenOk
<1>2. CASE Waits
  BY <1>2 DEF Waits, Q!CallReadChunk, Q!StartWait, Q!WaitEnds, Q!ReopenOk, H!CallReadChunk,
     H!StartWait, H!WaitEnds, H!ReopenOk, Q!Inner, H!Inner, Q!WaitsFor, H!WaitsFor,
     Q!Hint, H!Hint, Q!Delay, H!Delay, Q!Wrap, H!Wrap
<1>3. CASE \E kind \in Chunks : Reads(kind)
  BY <1>3 DEF Reads, Q!ReadReturnsChunk, H!ReadReturnsChunk
<1>4. CASE ReadsEOF \/ ReadFails
  BY <1>4 DEF ReadsEOF, ReadFails, Q!ReadReturnsError, H!ReadReturnsError, Q!WaitAborts,
     H!WaitAborts, Q!ReopenFail, H!ReopenFail, Q!Delay, H!Delay, Q!Wrap, H!Wrap
<1>5. CASE ReadsRefusal
  BY <1>5 DEF ReadsRefusal, Q!ReadReturnsRefusal, H!ReadReturnsRefusal, Q!Inner, H!Inner,
     Q!WaitsFor, H!WaitsFor, Q!Hint, H!Hint, Q!Delay, H!Delay, Q!Wrap, H!Wrap
<1>6. CASE Cancels
  BY <1>6 DEF Cancels, Q!Cancel, H!Cancel
<1>7. CASE Expires
  BY <1>7 DEF Expires, Q!StreamExpires, H!StreamExpires
<1>8. CASE UNCHANGED handle
  BY <1>8 DEF handle
<1> QED
  BY <1>1, <1>2, <1>3, <1>4, <1>5, <1>6, <1>7, <1>8
     DEF Next, Reading, Handling, Reject, Invalid, Done, Passes, EmitFails, EmitEstimate,
         CloseStream, Replies, Over, vars

-----------------------------------------------------------------------------
(* The invariant *)

\* What the executor uses of the handle's invariant: nothing was handed out before the opening,
\* nor while the handle waits.
LEMMA HandleFacts ==
  ASSUME H!Inv
  PROVE  /\ Q!TypeOK
         /\ pc = "unopened" => attempts = 0 /\ ~started
         /\ pc \in {"sleeping", "reopening"} => ~started
         /\ pc \notin {"unopened", "closed"} => attempts \in Q!Attempts
         /\ pc \in {"sleeping", "reopening", "closed"} => Q!Open = {}
<1>1. H!TypeOK /\ H!OpenedInOrder /\ H!ClosedWhileWaiting /\ H!AttemptsInv
  BY DEF H!Inv
<1>2. Q!TypeOK
  BY <1>1 DEF H!TypeOK, Q!TypeOK, H!Attempts, Q!Attempts, H!PCs, Q!PCs
<1>3. pc \in {"sleeping", "reopening", "closed"} => Q!Open = {}
  BY <1>1, ExecutorAssumption
     DEF H!TypeOK, H!OpenedInOrder, H!ClosedWhileWaiting, H!AttemptsInv, H!Attempts,
         Q!Attempts, Q!Open
<1>4. pc \notin {"unopened", "closed"} => attempts \in Q!Attempts
  BY <1>1, ExecutorAssumption DEF H!TypeOK, H!AttemptsInv, H!Attempts, Q!Attempts
<1> QED
  BY <1>1, <1>2, <1>3, <1>4 DEF H!AttemptsInv

\* The states an RPC starts in satisfy the invariant.
LEMMA InitInv == Init => Inv
<1> SUFFICES ASSUME Init PROVE Inv
  OBVIOUS
<1>1. H!Inv
  <2>1. H!Init
    BY DEF Init, Q!Init, H!Init, Q!Attempts, H!Attempts
  <2> QED
    BY <2>1, H!InitInv, ExecutorAssumption
<1>2. TypeOK
  <2>1. hostCloses \in Seq({"ok", "error"})
    BY DEF Init
  <2>2. /\ sawDone \in BOOLEAN /\ realUsage \in BOOLEAN /\ estimated \in BOOLEAN
        /\ cooled \in BOOLEAN /\ named \in BOOLEAN
    BY DEF Init
  <2> QED
    BY <1>1, <2>1, <2>2, HandleFacts DEF Init, TypeOK
<1>3. /\ SourceInv /\ OwnerInv /\ EndInv
      /\ UsageInv /\ CloseInv /\ ReplyInv
  BY DEF Init, Q!Init, SourceInv, OwnerInv, EndInv, UsageInv, CloseInv, ReplyInv
<1> QED
  BY <1>1, <1>2, <1>3 DEF Inv

\* Every step preserves the invariant.
LEMMA StepInv == Inv /\ [Next]_vars => Inv'
<1> SUFFICES ASSUME Inv, [Next]_vars PROVE Inv'
  OBVIOUS
<1>1. H!Inv /\ H!Inv'
  BY HandleStep, H!StepInv, ExecutorAssumption DEF Inv
<1>2. /\ Q!TypeOK /\ Q!TypeOK'
      /\ pc = "unopened" => attempts = 0 /\ ~started
      /\ pc \in {"sleeping", "reopening"} => ~started
      /\ pc \notin {"unopened", "closed"} => attempts \in Q!Attempts
  <2>1. H!Inv' => Q!TypeOK'
    BY HandleFacts, PTL
  <2> QED
    BY <1>1, <2>1, HandleFacts
<1>3. Q!Attempts' = Q!Attempts
  BY DEF Q!Attempts
<1>4. /\ SourceInv /\ OwnerInv /\ EndInv
      /\ UsageInv /\ CloseInv /\ ReplyInv
      /\ TypeOK
  BY DEF Inv
<1> SUFFICES TypeOK' /\ SourceInv' /\ OwnerInv' /\ EndInv' /\ UsageInv' /\ CloseInv' /\ ReplyInv'
  BY <1>1 DEF Inv
<1> USE DEF TypeOK, Chunks, SourceInv, OwnerInv, EndInv, UsageInv, CloseInv, ReplyInv,
            Failed, AfterReading
<1>5. CASE Reject
  BY <1>2, <1>4, <1>5 DEF Reject, handle, answer
<1>6. CASE OpenFails
  BY <1>2, <1>4, <1>6 DEF OpenFails, Q!OpenFail, answer
<1>7. CASE Opens
  BY <1>2, <1>4, <1>7 DEF Opens, Q!OpenOk, answer
<1>8. CASE Waits
  BY <1>2, <1>4, <1>8 DEF Waits, Q!CallReadChunk, Q!StartWait, Q!WaitEnds, Q!ReopenOk, answer
<1>9. ASSUME NEW kind \in Chunks, Reads(kind)
      PROVE  TypeOK' /\ SourceInv' /\ OwnerInv' /\ EndInv' /\ UsageInv' /\ CloseInv' /\ ReplyInv'
  BY <1>2, <1>4, <1>9 DEF Reads, Q!ReadReturnsChunk, answer
<1>10. CASE ReadsEOF
  BY <1>2, <1>4, <1>10 DEF ReadsEOF, Q!ReadReturnsError, answer
<1>11. CASE ReadFails
  BY <1>2, <1>4, <1>11
     DEF ReadFails, Q!ReadReturnsError, Q!WaitAborts, Q!ReopenFail, answer
<1>12. CASE ReadsRefusal
  BY <1>2, <1>4, <1>12 DEF ReadsRefusal, Q!ReadReturnsRefusal, answer
<1>13. CASE Invalid
  BY <1>2, <1>4, <1>13 DEF Invalid, handle, answer
<1>14. CASE Done
  <2>1. estimated' \in BOOLEAN
    BY <1>14 DEF Done
  <2>2. estimated' => mode = "execute" /\ ~realUsage
    BY <1>14 DEF Done
  <2>3. mode = "execute" => realUsage \/ estimated'
    BY <1>14 DEF Done
  <2> QED
    <3>1. CASE mode = "stream"
      BY <1>2, <1>4, <1>14, <2>1, <2>2, <3>1 DEF Done, handle
    <3>2. CASE mode = "execute"
      BY <1>2, <1>4, <1>14, <2>1, <2>2, <2>3, <3>2 DEF Done, handle
    <3> QED
      BY <1>4, <3>1, <3>2, ExecutorAssumption
<1>15. CASE Passes
  <2>1. realUsage' \in BOOLEAN
    BY <1>15 DEF Passes
  <2>2. sources' \subseteq Q!Attempts /\ sources' \subseteq {attempts}
    BY <1>2, <1>3, <1>4, <1>15 DEF Passes
  <2> QED
    BY <1>2, <1>4, <1>15, <2>1, <2>2 DEF Passes, handle
<1>16. CASE EmitFails
  BY <1>2, <1>4, <1>16 DEF EmitFails, handle, answer
<1>17. CASE EmitEstimate
  BY <1>2, <1>4, <1>17 DEF EmitEstimate, handle
<1>18. CASE CloseStream
  BY <1>2, <1>4, <1>18 DEF CloseStream, handle
<1>19. CASE Cancels
  BY <1>2, <1>4, <1>19 DEF Cancels, Q!Cancel, answer
<1>20. CASE Replies
  <2>1. cooled' \in BOOLEAN
    BY <1>20 DEF Replies
  <2>2. cooled' <=> Failed /\ failure = "refused" /\ named
    BY <1>20 DEF Replies
  <2> QED
    BY <1>2, <1>4, <1>20, <2>1, <2>2 DEF Replies, handle
<1>21. CASE Expires
  BY <1>2, <1>4, <1>21 DEF Expires, Q!StreamExpires, answer
<1>22. CASE UNCHANGED vars
  BY <1>2, <1>4, <1>22 DEF vars, handle, answer
<1> QED
  BY <1>5, <1>6, <1>7, <1>8, <1>9, <1>10, <1>11, <1>12, <1>13, <1>14, <1>15, <1>16,
     <1>17, <1>18, <1>19, <1>20, <1>21, <1>22 DEF Next, Reading, Handling, Over
-----------------------------------------------------------------------------
(* The theorems *)

\* Inv holds in every reachable state.
THEOREM Invariance == Spec => []Inv
BY InitInv, StepInv, PTL DEF Spec

\* The fields of a request and of its handle keep their types.
THEOREM TypeCorrect == Spec => []TypeOK
<1>1. Inv => TypeOK
  BY DEF Inv
<1> QED
  BY <1>1, Invariance, PTL

\* What executor.go does with the handle of queue_wait.go is what QueueAwait allows its owner:
\* what is proved of the handle alone holds of it inside every RPC.
THEOREM UsesTheHandle == Spec => Q!Init /\ [][H!Next]_(H!vars)
<1>1. Init => Q!Init
  BY DEF Init
<1> QED
  BY <1>1, HandleStep, PTL DEF Spec

\* No RPC ever holds two upstream streams, nor one while it waits, whichever end its reading
\* takes.
THEOREM OneUpstream == Spec => []Q!AtMostOneOpen
<1>1. Inv => Q!AtMostOneOpen
  <2> SUFFICES ASSUME Inv PROVE Q!AtMostOneOpen
    OBVIOUS
  <2>1. H!Inv /\ (pc \in {"sleeping", "reopening", "closed"} => Q!Open = {})
    BY HandleFacts DEF Inv
  <2>2. Q!Open \subseteq {attempts}
    BY <2>1, ExecutorAssumption
       DEF H!Inv, H!TypeOK, H!OpenedInOrder, H!Attempts, Q!Attempts, Q!Open
  <2> QED
    BY <2>1, <2>2 DEF Q!AtMostOneOpen
<1> QED
  BY <1>1, Invariance, PTL

\* executor.go and queue_wait.go never give a client chunks of two upstream streams: a refusal
\* is waited out only while nothing was passed on.
THEOREM OneSource == Spec => []SingleSource
<1>1. Inv => SingleSource
  BY DEF Inv, SourceInv, SingleSource
<1> QED
  BY <1>1, Invariance, PTL

\* closeStream, the deferred Cancel and the end of handleExecutorMethod tell the end of a
\* request once and alike to the host's stream, to the caller and to the scheduler.
THEOREM EndToldOnce == Spec => []EndIsTold
<1>1. Inv => EndIsTold
  <2> SUFFICES ASSUME Inv PROVE EndIsTold
    OBVIOUS
  <2>1. HostStreamClosedOnce
    <3>1. mode \in {"execute", "stream"}
      BY ExecutorAssumption DEF Inv, TypeOK
    <3>2. CASE hostCloses = <<>>
      BY <3>2 DEF HostStreamClosedOnce
    <3>3. CASE hostCloses # <<>>
      <4>1. mode = "stream" /\ owner \in {"cancel", "gone"}
        BY <3>1, <3>3 DEF Inv, CloseInv
      <4>2. hostCloses = <<IF failure = "eof" THEN "ok" ELSE "error">>
        BY <4>1 DEF Inv, CloseInv
      <4> QED
        BY <4>1, <4>2 DEF HostStreamClosedOnce
    <3> QED
      BY <3>2, <3>3
  <2> USE DEF Inv, OwnerInv, EndInv, ReplyInv, TypeOK
  <2>2. ExecuteRepliesLast
    <3> SUFFICES ASSUME mode = "execute", reply # "none"
                 PROVE  Q!Open = {} /\ (reply = "ok" => sawDone)
      BY DEF ExecuteRepliesLast
    <3>1. rpc = "replied" /\ owner \in {"none", "gone"}
      OBVIOUS
    <3>2. Q!Open = {}
      <4>1. CASE pc = "closed"
        BY <4>1, HandleFacts
      <4>2. CASE pc = "unopened"
        BY <4>2, HandleFacts, ExecutorAssumption
           DEF H!Inv, H!TypeOK, H!OpenedInOrder, H!Attempts, Q!Attempts, Q!Open
      <4> QED
        BY <3>1, <4>1, <4>2
    <3>3. reply = "ok" => sawDone
      BY <3>1 DEF Failed
    <3> QED
      BY <3>2, <3>3
  <2>3. CooldownFollowsRefusal /\ (failure = "refused" /\ reply = "error" /\ named => cooled)
    BY DEF CooldownFollowsRefusal, Failed
  <2> QED
    BY <2>1, <2>2, <2>3 DEF EndIsTold
<1> QED
  BY <1>1, Invariance, PTL

\* aggregateChat and pumpStream end well only with the upstream's usage or an estimate of it,
\* and never add an estimate to the upstream's own.
THEOREM UsageToldOnce == Spec => []OneUsage
<1>1. Inv => OneUsage
  BY ExecutorAssumption
     DEF Inv, TypeOK, OwnerInv, EndInv, UsageInv, CloseInv, ReplyInv, Failed, OneUsage
<1> QED
  BY <1>1, Invariance, PTL
=============================================================================
