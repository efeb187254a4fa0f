---------------------------- MODULE QueueAnswers ----------------------------
(***************************************************************************)
(* QueueAwait with the refusals that Classify makes of what the upstream   *)
(* answers: the whole way from the bytes of an answer to a wait.           *)
(***************************************************************************)
EXTENDS QueueAwait, Classify

CONSTANT Payloads     \* payloads of the event stream, see Classify

\* What the transports hand to ReadChunk.
ToldRefusals ==
  { AsRefusal(e) : e \in {classifyEvent(d, p) : d \in Dialects, p \in Payloads} }

\* The handle meets no refusals but those.
AnswersTold == Payloads \subseteq Answers /\ Refusals \subseteq ToldRefusals

AllReadAsTold == \A p \in Payloads : ReadAsTold(p)

\* The whole way from the answer to the wait: every answer is read as it was told (ReadAsTold
\* of Classify), and the handle sleeps no other time than one that such an answer told.
SleepsAsTold ==
  /\ AllReadAsTold
  /\ pc = "sleeping" =>
       \E d \in Dialects, p \in Payloads :
         /\ classifyEvent(d, p).category = "queue_unavailable"
         /\ hint \in {RetryAfter(Heard(d, p)), WaitTime(Heard(d, p))}
=============================================================================
