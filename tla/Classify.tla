------------------------------ MODULE Classify ------------------------------
(***************************************************************************)
(* What one payload of the event stream means: classifyEvent of the bearer *)
(* and the cosy transport (bearer/sse.go, cosy/sse_wire.go) and            *)
(* ClassifyBusiness of qoderstream/classify.go, as operators.              *)
(*                                                                         *)
(* A payload is the sequence of JSON objects that are nested in it, the    *)
(* outermost first: each one names the field that holds the next ("via"),  *)
(* the first of body, message and payload with an object in it, as text or *)
(* as it is.  Of each object only what decides is kept; messages are       *)
(* grouped by the phrases the code looks for.                              *)
(***************************************************************************)
EXTENDS Integers, SequencesExt

NoCode == -1

Dialects == {"bearer", "cosy"}

\* An object with nothing in it.  "delta" is what its first choice brings:
\* "none" without choices, "[DONE]" if it is that marker and no object.
Blank == [via |-> "none", status |-> 0, code |-> NoCode, text |-> "", pricing |-> FALSE,
          isQueued |-> "absent", available |-> "absent", typed |-> FALSE,
          retryAfter |-> 0, waitTime |-> 0, usage |-> FALSE, delta |-> "none"]

\* What objects there are; a hint that is not positive says nothing.
Objects ==
    [via : {"none", "body", "bodyObject", "message", "messageObject", "payload"},
     status : Int, code : Nat \union {NoCode}, text : {"", "daily", "plan", "known", "other"},
     pricing : BOOLEAN, isQueued : {"absent", "yes", "no"}, available : {"absent", "yes", "no"},
     typed : BOOLEAN, retryAfter : Int, waitTime : Int, usage : BOOLEAN,
     delta : {"none", "[DONE]", "limitText", "terminal", "reasoning", "text", "tool"}]

Answers == Seq(Objects) \ {<<>>}

NoQueue == [found |-> FALSE, isQueued |-> FALSE, available |-> FALSE, typed |-> FALSE,
            retryAfter |-> 0, waitTime |-> 0]

----------------------------------------------------------------------------
(* qoderstream *)

MentionsQueue(o) ==
    \/ o.isQueued # "absent" \/ o.available # "absent" \/ o.typed
    \/ o.retryAfter > 0 \/ o.waitTime > 0

\* What an inner object says replaces what an outer one said.
MergeQueue(q, o) ==
    [found      |-> q.found \/ MentionsQueue(o),
     isQueued   |-> IF o.isQueued = "absent" THEN q.isQueued ELSE o.isQueued = "yes",
     available  |-> IF o.available = "absent" THEN q.available ELSE o.available = "yes",
     typed      |-> q.typed \/ o.typed,
     retryAfter |-> IF o.retryAfter > 0 THEN o.retryAfter ELSE q.retryAfter,
     waitTime   |-> IF o.waitTime > 0 THEN o.waitTime ELSE q.waitTime]

Reach == 4

WithinReach(p) == SubSeq(p, 1, Min({Reach, Len(p)}))

\* A slip: the first object with queue fields is taken for all of it.
extractQueue_outermost(p) ==
    FoldLeft(LAMBDA q, o : IF q.found THEN q ELSE MergeQueue(q, o), NoQueue, WithinReach(p))

extractQueue(p) == FoldLeft(MergeQueue, NoQueue, WithinReach(p))

\* A refusal, with or without the fields that say so.
QueueShaped(q) ==
    q.found /\ (q.retryAfter > 0 \/ q.waitTime > 0 \/ q.typed \/ ~q.available \/ q.isQueued)

StatusCategory(code) ==
    CASE code \in {400, 422} -> "invalid_request"
      [] code \in {401, 403} -> "access_denied"
      [] code = 429          -> "rate_limited"
      [] OTHER               -> "upstream_error"

\* "known" stands for a text with one of the safe categories in it.
SafeErrorCategory(text) == IF text = "known" THEN "known" ELSE "upstream_error"

\* The category; the queue goes with it whatever it is.
ClassifyBusiness(code, text, p) ==
    IF code = 10605 \/ QueueShaped(extractQueue(p)) THEN "queue_unavailable"
    ELSE IF code = 429 THEN "rate_limited"
    ELSE IF text = "daily" THEN "daily_limit_exceeded"
    ELSE IF text = "plan" THEN "plan_required"
    ELSE IF code = 112 /\ (\E i \in DOMAIN p : p[i].pricing) THEN "model_unavailable"
    ELSE IF text = "" THEN StatusCategory(code)
    ELSE SafeErrorCategory(text)

----------------------------------------------------------------------------
(* classifyEvent of the two transports *)

Event(type) == [type |-> type, code |-> 0, category |-> "", outer |-> 0, queue |-> NoQueue]

Refused(code, text, outer, p) ==
    [type |-> "error", code |-> code, category |-> ClassifyBusiness(code, text, p),
     outer |-> outer, queue |-> extractQueue(p)]

\* A message that is an object instead of a text makes the object unreadable.
HasCode(o) == o.code # NoCode /\ o.via # "messageObject"

classifyChoices(o) ==
    CASE o.delta = "limitText" -> [Event("error") EXCEPT !.code = 429, !.category = "rate_limited"]
      [] o.delta = "none"      -> Event("unknown")
      [] OTHER                 -> Event(o.delta)

\* Bearer: neither an error nor usage has choices.
BearerEvent(p) ==
    LET o == Head(p)
    IN  IF o.delta = "[DONE]" THEN Event("terminal")
        ELSE IF HasCode(o) /\ o.delta = "none" THEN Refused(o.code, o.text, 0, p)
        ELSE IF o.usage /\ o.delta = "none" THEN Event("usage")
        ELSE classifyChoices(o)

\* Cosy: an envelope {"statusCodeValue": ..., "body": "..."}; a body that is no
\* text makes the envelope unreadable.
StatusCodeValue(p) == IF Head(p).via = "bodyObject" THEN 0 ELSE Head(p).status

\* Up to three envelopes are taken off.
UnwrapDepth(p) ==
    Max({n \in 0..Min({3, Len(p) - 1}) : \A i \in 1..n : p[i].via = "body"})

unwrapBody(p) == SubSeq(p, UnwrapDepth(p) + 1, Len(p))

CosyEvent(p) ==
    LET status == StatusCodeValue(p)
        inner  == unwrapBody(p)
        o      == Head(inner)
    IN  IF o.delta = "[DONE]" THEN Event("terminal")
        ELSE IF HasCode(o) THEN Refused(o.code, o.text, status, inner)
        ELSE IF status \notin {0, 200} THEN Refused(status, "", status, inner)
        ELSE IF o.usage THEN Event("usage")
        ELSE classifyChoices(o)

classifyEvent(dialect, p) == IF dialect = "bearer" THEN BearerEvent(p) ELSE CosyEvent(p)

----------------------------------------------------------------------------
(* What the queue wait makes of it (queue_wait.go) *)

\* A refusal as QueueAwait has it.
AsRefusal(e) ==
    [payload    |-> e.category = "queue_unavailable" /\ e.queue.found,
     retryAfter |-> e.queue.retryAfter,
     waitTime   |-> e.queue.waitTime]

----------------------------------------------------------------------------
(* Reference: what a reader of the upstream's answer would say. *)

\* The innermost of some values, one per object, that differs from nothing.
Innermost(v, nothing) ==
    LET told == {i \in DOMAIN v : v[i] # nothing}
    IN  IF told = {} THEN nothing ELSE v[Max(told)]

Positive(n) == IF n > 0 THEN n ELSE 0

RetryAfter(s) == Innermost([i \in DOMAIN s |-> Positive(s[i].retryAfter)], 0)
WaitTime(s)   == Innermost([i \in DOMAIN s |-> Positive(s[i].waitTime)], 0)
IsQueued(s)   == Innermost([i \in DOMAIN s |-> s[i].isQueued], "absent")
Available(s)  == Innermost([i \in DOMAIN s |-> s[i].available], "absent")

Heard(dialect, p) == WithinReach(IF dialect = "bearer" THEN p ELSE unwrapBody(p))

\* There is a queue, or a time to wait, or no service.
SaysQueue(s) ==
    \/ RetryAfter(s) > 0 \/ WaitTime(s) > 0
    \/ \E i \in DOMAIN s : s[i].typed
    \/ IsQueued(s) = "yes"
    \/ Available(s) = "no"

\* Whatever objects the upstream's answer is nested in, an error that speaks of
\* the queue is a queue refusal and no exhausted quota, also with the code 429
\* or a text about limits; the wait is the innermost one that was told; without
\* a word of the queue only the code 10605 makes a queue refusal; and what both
\* transports can read they read alike.
ReadAsTold(p) ==
    /\ \A d \in Dialects :
          LET e == classifyEvent(d, p)
              s == Heard(d, p)
          IN  e.type = "error" /\ Head(s).delta # "limitText" =>
                /\ SaysQueue(s) => e.category = "queue_unavailable"
                /\ ~(\E i \in DOMAIN s : MentionsQueue(s[i])) =>
                      (e.category = "queue_unavailable" <=> e.code = 10605)
                /\ e.queue.retryAfter = RetryAfter(s)
                /\ e.queue.waitTime = WaitTime(s)
    /\ Head(p).via # "body" /\ Head(p).status = 0 /\ Head(p).delta = "none" =>
          classifyEvent("bearer", p) = classifyEvent("cosy", p)
============================================================================
