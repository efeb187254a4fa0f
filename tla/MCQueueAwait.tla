---------------------------- MODULE MCQueueAwait ----------------------------
(***************************************************************************)
(* Values of QueueAnswers' constants for TLC: payloads nested up to five   *)
(* objects deep, one deeper than the code looks.                           *)
(***************************************************************************)
EXTENDS QueueAnswers

Envelopes ==
  { [Blank EXCEPT !.via = "body", !.status = 429],
    [Blank EXCEPT !.via = "bodyObject", !.status = 500, !.waitTime = 1],
    [Blank EXCEPT !.via = "message", !.code = 10605, !.retryAfter = 2],
    [Blank EXCEPT !.via = "messageObject", !.code = 112, !.text = "other"],
    [Blank EXCEPT !.via = "payload", !.code = 429, !.text = "daily", !.available = "yes"] }

\* With maxWait = 3 s and budget = 5 s: hints below, at and above the cap, short ones that
\* use up the attempts first, hints that exhaust the budget exactly (2 + 3) or exceed it
\* (3 + 3), each of the two fields alone, a refusal without timing; and errors, deltas, usage
\* and the end that have nothing to do with the queue.
Cores ==
  { [Blank EXCEPT !.code = 10605, !.retryAfter = r, !.waitTime = w] :
      r \in {-1, 0, 1, 3, 4}, w \in {0, 1} }
  \union
  { [Blank EXCEPT !.typed = TRUE, !.isQueued = "yes", !.waitTime = 3],
    [Blank EXCEPT !.code = 112, !.pricing = TRUE, !.isQueued = "no", !.available = "yes"],
    [Blank EXCEPT !.code = 429, !.text = "plan", !.available = "no"],
    [Blank EXCEPT !.code = 403, !.text = "known"],
    [Blank EXCEPT !.usage = TRUE],
    [Blank EXCEPT !.delta = "text", !.usage = TRUE],
    [Blank EXCEPT !.delta = "limitText", !.code = 429],
    [Blank EXCEPT !.delta = "[DONE]"] }

NestedPayloads ==
  { Append(e, c) : e \in UNION {[1..n -> Envelopes] : n \in 0..4}, c \in Cores }

\* What the theorem about SleepsAsTold asks of the payloads and the refusals.
ASSUME AnswersAreTold == AnswersTold
=============================================================================
