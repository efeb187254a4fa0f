-------------------------- MODULE QueueAwaitProofs --------------------------
(***************************************************************************)
(* The safety properties of QueueAwait for every policy and every set of   *)
(* refusals.  Inv is the inductive invariant about streams and attempts;   *)
(* WaitInv adds, when no hint overflows, that the bookkeeping of waits is  *)
(* exact; HintInv where the hint of a wait comes from, which with what is  *)
(* proved of Classify leads from the answer to the wait.                   *)
(***************************************************************************)
EXTENDS QueueAnswers, SequenceTheorems, TLAPS

\* Streams are opened in order, and every one but the last is closed.
OpenedInOrder ==
  /\ \A i \in Attempts : i > attempts => streams[i] = "none"
  /\ \A i \in Attempts : i < attempts => streams[i] = "closed"

\* The current stream is closed whenever the handle waits or is closed itself.
ClosedWhileWaiting ==
  pc \in {"sleeping", "reopening", "closed"} /\ attempts > 0
    => streams[attempts] = "closed"

\* attempts is positive exactly from a successful queueAwait on, and the handle waits only
\* while another attempt is allowed and nothing was handed out.
AttemptsInv ==
  /\ pc = "unopened" => attempts = 0 /\ ~started
  /\ pc \notin {"unopened", "closed"} => attempts > 0
  /\ pc \in {"sleeping", "reopening"} => ~started /\ attempts < MaxAttempts

\* Every call but a failed last one is an attempt.
OutboundInv ==
  /\ pc \in {"unopened", "idle", "reading", "sleeping", "reopening"}
       => outbound = attempts
  /\ outbound <= MaxAttempts

Inv ==
  /\ TypeOK
  /\ OpenedInOrder
  /\ ClosedWhileWaiting
  /\ AttemptsInv
  /\ OutboundInv

-----------------------------------------------------------------------------
(* Arithmetic of time.Duration *)

\* A duration that fits int64 is not changed by wrapping.
LEMMA WrapFits ==
  ASSUME NEW d \in Int, -(MaxDuration + 1) <= d, d <= MaxDuration
  PROVE  Wrap(d) = d
<1>1. ASSUME NEW x \in Nat, NEW n \in Nat, x < n
      PROVE  x % n = x
  BY <1>1
<1>2. /\ d + MaxDuration + 1 \in Nat
      /\ 2 * (MaxDuration + 1) \in Nat
      /\ d + MaxDuration + 1 < 2 * (MaxDuration + 1)
  BY PolicyAssumption
<1> QED
  BY <1>1, <1>2, PolicyAssumption DEF Wrap

\* Wrapped arithmetic stays inside time.Duration.
LEMMA WrapRange ==
  ASSUME NEW d \in Int
  PROVE  Wrap(d) \in -(MaxDuration + 1)..MaxDuration
<1>1. (d + MaxDuration + 1) % (2 * (MaxDuration + 1))
        \in 0..(2 * (MaxDuration + 1) - 1)
  BY PolicyAssumption
<1> QED
  BY <1>1, PolicyAssumption DEF Wrap

\* The hint of a refusal is a number of seconds.
LEMMA HintInt == \A q \in Refusals : Hint(q) \in Int
BY RefusalAssumption DEF Hint

\* The delay computed from a hint is a time.Duration.
LEMMA DelayRange ==
  ASSUME NEW h \in Int
  PROVE  Delay(h) \in -(MaxDuration + 1)..MaxDuration
<1>1. h * Second \in Int
  BY PolicyAssumption
<1> QED
  BY <1>1, WrapRange DEF Delay

-----------------------------------------------------------------------------
(* The invariant *)

\* The states the program starts in satisfy the invariant.
LEMMA InitInv == Init => Inv
<1> SUFFICES ASSUME Init PROVE Inv
  OBVIOUS
<1> USE PolicyAssumption DEF Init
<1>1. TypeOK
  <2>1. streams \in [Attempts -> {"none", "open", "closed"}]
    BY DEF Attempts
  <2>2. /\ waited \in -(MaxDuration + 1)..MaxDuration
        /\ attempts \in 0..MaxAttempts
        /\ hint \in Int /\ outbound \in Nat /\ slept \in Nat
    OBVIOUS
  <2>3. pc \in PCs /\ hctx \in {"live", "cancelled"} /\ started \in BOOLEAN
    BY DEF PCs
  <2> QED
    BY <2>1, <2>2, <2>3, Zenon DEF TypeOK
<1>2. OpenedInOrder /\ ClosedWhileWaiting /\ AttemptsInv /\ OutboundInv
  BY DEF OpenedInOrder, ClosedWhileWaiting, AttemptsInv, OutboundInv, Attempts
<1> QED
  BY <1>1, <1>2 DEF Inv

\* Every step preserves the invariant.
LEMMA StepInv == Inv /\ [Next]_vars => Inv'
<1> SUFFICES ASSUME Inv, [Next]_vars PROVE Inv'
  OBVIOUS
<1> USE PolicyAssumption
        DEF Inv, TypeOK, PCs, Attempts, OpenedInOrder, ClosedWhileWaiting,
            AttemptsInv, OutboundInv
<1>1. CASE OpenOk
  BY <1>1 DEF OpenOk
<1>2. CASE OpenFail
  BY <1>2 DEF OpenFail
<1>3. CASE CallReadChunk
  BY <1>3 DEF CallReadChunk
<1>4. CASE ReadReturnsChunk
  BY <1>4 DEF ReadReturnsChunk
<1>5. CASE ReadReturnsError
  BY <1>5 DEF ReadReturnsError
<1>6. ASSUME NEW q \in Refusals, ReadReturnsRefusal(q) PROVE Inv'
  BY  <1>6 DEF ReadReturnsRefusal
<1>7. ASSUME NEW q \in Refusals, StartWait(q) PROVE Inv'
  BY <1>7, HintInt DEF StartWait, WaitsFor
<1>8. CASE WaitEnds
  <2>1. Delay(hint) \in Int
    BY DelayRange
  <2>2. /\ waited + Delay(hint) \in Int
        /\ (IF Delay(hint) > 0 THEN Delay(hint) ELSE 0) \in Nat
    BY <2>1
  <2>3. Wrap(waited + Delay(hint)) \in -(MaxDuration + 1)..MaxDuration
    BY <2>2, WrapRange
  <2>4. waited' \in -(MaxDuration + 1)..MaxDuration
    BY <1>8, <2>3, Zenon DEF WaitEnds
  <2>5. slept' \in Nat
    BY <1>8, <2>2 DEF WaitEnds
  <2> QED
    BY <1>8, <2>4, <2>5 DEF WaitEnds
<1>9. CASE WaitAborts
  BY <1>9 DEF WaitAborts
<1>10. CASE ReopenOk
  BY <1>10 DEF ReopenOk
<1>11. CASE ReopenFail
  BY <1>11 DEF ReopenFail
<1>12. CASE Cancel
  BY <1>12 DEF Cancel
<1>13. CASE CancelParent
  BY <1>13 DEF CancelParent
<1>14. ASSUME NEW i \in Attempts, StreamExpires(i) PROVE Inv'
  BY <1>14 DEF StreamExpires
<1>15. CASE UNCHANGED vars
  BY <1>15 DEF vars
<1> QED
  BY <1>1, <1>2, <1>3, <1>4, <1>5, <1>6, <1>7, <1>8, <1>9, <1>10, <1>11, <1>12,
     <1>13, <1>14, <1>15 DEF Next, ReadChunk, Finished

\* Inv holds in every reachable state.
THEOREM Invariance == Spec => []Inv
BY InitInv, StepInv, PTL DEF Spec

\* The fields of a queueAwaitHandle keep their types; waited never leaves time.Duration.
THEOREM TypeCorrect == Spec => []TypeOK
<1>1. Inv => TypeOK
  BY DEF Inv
<1> QED
  BY <1>1, Invariance, PTL

\* queue_wait.go never holds two upstream streams for one completion, nor any while it waits
\* or after it was cancelled, whatever timeouts and cancellations do.
THEOREM OneStream == Spec => []AtMostOneOpen
<1>1. Inv => AtMostOneOpen
  BY PolicyAssumption
     DEF Inv, TypeOK, OpenedInOrder, ClosedWhileWaiting, AtMostOneOpen, Open, Attempts
<1> QED
  BY <1>1, Invariance, PTL

\* queue_wait.go calls StreamChat at most maxAttempts times for one request.
THEOREM BoundedOutbound == Spec => []OutboundBounded
<1>1. Inv => OutboundBounded
  BY DEF Inv, OutboundInv, OutboundBounded
<1> QED
  BY <1>1, Invariance, PTL

-----------------------------------------------------------------------------
(* The bookkeeping of waits, when no hint overflows *)

\* What is waited for is the hint itself, within the cap; waited is the time really slept,
\* and a wait that is under way was charged against the budget before it began.
WaitInv ==
  /\ waited = slept
  /\ waited <= Budget
  /\ pc \in {"sleeping", "reopening"} =>
       /\ hint > 0
       /\ Delay(hint) = hint * Second
       /\ Delay(hint) > 0
       /\ Delay(hint) <= MaxWait
  /\ pc = "sleeping" => waited + Delay(hint) <= Budget

\* Without overflow a positive hint is a positive delay of that many seconds.
LEMMA DelayExact ==
  ASSUME NoOverflow, NEW q \in Refusals, Hint(q) > 0
  PROVE  Delay(Hint(q)) = Hint(q) * Second /\ Delay(Hint(q)) > 0
<1>1. Hint(q) \in Int /\ Second \in Nat \ {0}
  BY HintInt, PolicyAssumption
<1>2. ASSUME NEW h \in Int, h > 0, NEW s \in Nat \ {0}
      PROVE  h * s \in Int /\ h * s > 0
  BY <1>2
<1>3. Hint(q) * Second \in Int /\ Hint(q) * Second > 0
  BY <1>1, <1>2
<1>4. Hint(q) * Second <= MaxDuration
  BY DEF NoOverflow
<1>5. -(MaxDuration + 1) <= Hint(q) * Second
  BY <1>3, PolicyAssumption
<1>6. Wrap(Hint(q) * Second) = Hint(q) * Second
  BY <1>3, <1>4, <1>5, WrapFits
<1> QED
  BY <1>3, <1>6 DEF Delay

\* The bookkeeping is exact at the start and after every step.
LEMMA WaitInvariance == ASSUME NoOverflow PROVE Spec => []WaitInv
<1>1. Init => WaitInv
  BY PolicyAssumption DEF Init, WaitInv
<1>2. ASSUME Inv, WaitInv, [Next]_vars
      PROVE  WaitInv'
  <2> USE <1>2
  <2>1. waited \in Int /\ slept \in Int /\ hint \in Int
    BY DEF Inv, TypeOK
  <2>2. MaxWait \in Nat /\ Budget \in Nat /\ MaxDuration \in Nat
        /\ MaxWait + Budget <= MaxDuration
    BY PolicyAssumption DEF NoOverflow
  <2>3. ASSUME NEW q \in Refusals, StartWait(q)
        PROVE  WaitInv'
    <3>1. /\ Hint(q) > 0
          /\ Delay(Hint(q)) <= MaxWait
          /\ Wrap(waited + Delay(Hint(q))) <= Budget
      BY <2>3 DEF StartWait, WaitsFor
    <3>2. Delay(Hint(q)) = Hint(q) * Second /\ Delay(Hint(q)) > 0
      BY <3>1, DelayExact
    <3>3. Delay(Hint(q)) \in Int
      BY HintInt, DelayRange
    <3>4. /\ waited + Delay(Hint(q)) \in Int
          /\ waited + Delay(Hint(q)) <= MaxDuration
          /\ -(MaxDuration + 1) <= waited + Delay(Hint(q))
      <4>1. waited >= 0
        BY <2>1 DEF WaitInv, Inv, TypeOK
      <4> QED
        BY <2>1, <2>2, <3>1, <3>2, <3>3, <4>1 DEF WaitInv
    <3>5. waited + Delay(Hint(q)) <= Budget
      <4>1. Wrap(waited + Delay(Hint(q))) = waited + Delay(Hint(q))
        BY <3>4, WrapFits
      <4> QED
        BY <3>1, <4>1
    <3>6. hint' = Hint(q) /\ waited' = waited /\ slept' = slept /\ pc' = "sleeping"
      BY <2>3 DEF StartWait
    <3>7. Delay(hint)' = Delay(Hint(q))
      BY <3>6 DEF Delay, Wrap
    <3> QED
      BY <3>1, <3>2, <3>5, <3>6, <3>7 DEF WaitInv
  <2>4. CASE WaitEnds
    <3>1. /\ Delay(hint) \in Int
          /\ Delay(hint) > 0
          /\ waited + Delay(hint) <= Budget
      BY <2>1, <2>4, DelayRange DEF WaitEnds, WaitInv
    <3>2. waited >= 0
      BY DEF WaitInv, Inv, TypeOK
    <3>3. Wrap(waited + Delay(hint)) = waited + Delay(hint)
      <4>1. /\ waited + Delay(hint) \in Int
            /\ -(MaxDuration + 1) <= waited + Delay(hint)
            /\ waited + Delay(hint) <= MaxDuration
        BY <2>1, <2>2, <3>1, <3>2
      <4> QED
        BY <4>1, WrapFits
    <3>4. waited' = waited + Delay(hint) /\ slept' = slept + Delay(hint)
      BY <2>4, <3>1, <3>3 DEF WaitEnds
    <3>5. pc = "sleeping" /\ pc' = "reopening" /\ hint' = hint
      BY <2>4 DEF WaitEnds
    <3>6. Delay(hint)' = Delay(hint)
      BY <3>5 DEF Delay, Wrap
    <3> QED
      BY <2>1, <3>1, <3>4, <3>5, <3>6 DEF WaitInv
  <2>5. CASE UNCHANGED <<waited, slept, hint>> /\
             (pc' \in {"sleeping", "reopening"} => pc' = pc)
    <3>1. Delay(hint)' = Delay(hint)
      BY <2>5 DEF Delay, Wrap
    <3> QED
      BY <2>5, <3>1 DEF WaitInv
  <2>6. \/ \E q \in Refusals : StartWait(q)
        \/ WaitEnds
        \/ /\ UNCHANGED <<waited, slept, hint>>
           /\ pc' \in {"sleeping", "reopening"} => pc' = pc
    BY DEF Next, vars, ReadChunk, Finished, OpenOk, OpenFail, CallReadChunk,
           ReadReturnsChunk, ReadReturnsError, ReadReturnsRefusal, WaitAborts,
           ReopenOk, ReopenFail, Cancel, CancelParent, StreamExpires
  <2> QED
    BY <2>3, <2>4, <2>5, <2>6
<1> QED
  BY <1>1, <1>2, Invariance, PTL DEF Spec

\* Unless a hint overflows int64, ReadChunk never waits longer than maxWait for one refusal,
\* and never on a refusal whose own hint is over the cap.
THEOREM CappedWaits == ASSUME NoOverflow PROVE Spec => []WaitsWithinCap
<1>1. WaitInv => WaitsWithinCap
  BY DEF WaitInv, WaitsWithinCap
<1> QED
  BY <1>1, WaitInvariance, PTL

\* Unless a hint overflows int64, all waits of one handle together stay within the budget.
THEOREM BoundedWaiting == ASSUME NoOverflow PROVE Spec => []TotalWaitBounded
<1>1. WaitInv => TotalWaitBounded
  BY DEF WaitInv, TotalWaitBounded
<1> QED
  BY <1>1, WaitInvariance, PTL

-----------------------------------------------------------------------------
(* How an answer is read *)

QueuePayloads ==
  [found : BOOLEAN, isQueued : BOOLEAN, available : BOOLEAN, typed : BOOLEAN,
   retryAfter : Int, waitTime : Int]

\* What the loop of extractQueue keeps of the objects it has seen.
Told(s, q) ==
  /\ s \in Seq(Objects) /\ q \in QueuePayloads
  /\ q.found <=> \E i \in DOMAIN s : MentionsQueue(s[i])
  /\ q.typed <=> \E i \in DOMAIN s : s[i].typed
  /\ q.retryAfter = RetryAfter(s)
  /\ q.waitTime = WaitTime(s)
  /\ q.isQueued <=> IsQueued(s) = "yes"
  /\ q.available <=> Available(s) = "yes"
  /\ ~q.found => /\ q.retryAfter = 0 /\ q.waitTime = 0 /\ ~q.typed
                 /\ IsQueued(s) = "absent" /\ Available(s) = "absent"

Merging == INSTANCE FoldLemmas WITH Step <- MergeQueue, Start <- NoQueue, Good <- Told

\* The innermost value when there is one more.
LEMMA InnermostNext ==
  ASSUME NEW n \in Nat, NEW v, NEW w, NEW nothing,
         DOMAIN v = 1..n, DOMAIN w = 1..(n + 1), \A i \in 1..n : w[i] = v[i]
  PROVE  Innermost(w, nothing) =
           IF w[n + 1] # nothing THEN w[n + 1] ELSE Innermost(v, nothing)
<1> DEFINE before == {i \in 1..n : v[i] # nothing}
           after  == {i \in 1..(n + 1) : w[i] # nothing}
<1>1. Innermost(v, nothing) = IF before = {} THEN nothing ELSE v[Max(before)]
  BY DEF Innermost
<1>2. Innermost(w, nothing) = IF after = {} THEN nothing ELSE w[Max(after)]
  BY DEF Innermost
<1>3. CASE w[n + 1] # nothing
  <2>1. n + 1 \in after /\ after \in SUBSET (1..(n + 1))
    BY <1>3
  <2>2. \A x \in after : (\A y \in after : x >= y) => x = n + 1
    BY <2>1
  <2>3. \A y \in after : n + 1 >= y
    BY <2>1
  <2>4. Max(after) = n + 1
    <3> HIDE DEF after
    <3> QED
      BY <2>1, <2>2, <2>3 DEF Max
  <2> QED
    BY <1>2, <1>3, <2>1, <2>4
<1>4. CASE w[n + 1] = nothing
  <2>1. after = before
    BY <1>4
  <2>2. ASSUME before # {} PROVE Max(before) \in 1..n
    <3>1. PICK x \in before : \A y \in before : x >= y
      <4> DEFINE T == {n - i : i \in before}
      <4>1. T \in SUBSET Nat /\ T # {}
        BY <2>2
      <4>2. PICK t \in T : \A u \in T : t <= u
        BY <4>1, Merging!Least
      <4>3. PICK x \in before : t = n - x
        BY <4>2
      <4>4. \A y \in before : n - x <= n - y
        BY <4>2, <4>3
      <4>5. \A y \in before : x >= y
        BY <4>4
      <4> QED
        BY <4>3, <4>5
    <3>2. Max(before) \in before
      <4> HIDE DEF before
      <4> QED
        BY <3>1 DEF Max
    <3> QED
      BY <3>2
  <2>3. before # {} => w[Max(before)] = v[Max(before)]
    BY <2>2
  <2> QED
    BY <1>1, <1>2, <1>4, <2>1, <2>3
<1> QED
  BY <1>3, <1>4

\* Each field of a queue refusal when one more object was read.
LEMMA FieldsNext ==
  ASSUME NEW s \in Seq(Objects), NEW o \in Objects, NEW r, r = Append(s, o)
  PROVE  /\ RetryAfter(r) = IF o.retryAfter > 0 THEN o.retryAfter ELSE RetryAfter(s)
         /\ WaitTime(r) = IF o.waitTime > 0 THEN o.waitTime ELSE WaitTime(s)
         /\ IsQueued(r) = IF o.isQueued # "absent" THEN o.isQueued ELSE IsQueued(s)
         /\ Available(r) = IF o.available # "absent" THEN o.available ELSE Available(s)
<1>1. PICK n \in Nat : n = Len(s)
  OBVIOUS
<1>2. /\ DOMAIN s = 1..n /\ DOMAIN r = 1..(n + 1)
      /\ r[n + 1] = o /\ \A i \in 1..n : r[i] = s[i]
  BY <1>1
<1>3. n + 1 \in 1..(n + 1) /\ \A i \in 1..n : i \in 1..(n + 1)
  OBVIOUS
<1>4. o.retryAfter \in Int /\ o.waitTime \in Int
  BY DEF Objects
<1>5. /\ Positive(o.retryAfter) = IF o.retryAfter > 0 THEN o.retryAfter ELSE 0
      /\ Positive(o.waitTime) = IF o.waitTime > 0 THEN o.waitTime ELSE 0
  BY DEF Positive
<1>6. RetryAfter(r) = IF o.retryAfter > 0 THEN o.retryAfter ELSE RetryAfter(s)
  <2>1. PICK v : v = [i \in 1..n |-> Positive(s[i].retryAfter)]
    OBVIOUS
  <2>2. PICK w : w = [i \in 1..(n + 1) |-> Positive(r[i].retryAfter)]
    OBVIOUS
  <2>3. /\ DOMAIN v = 1..n /\ DOMAIN w = 1..(n + 1)
        /\ \A i \in 1..n : w[i] = v[i]
        /\ w[n + 1] = Positive(o.retryAfter)
    BY <1>2, <1>3, <2>1, <2>2
  <2>4. Innermost(w, 0) = IF w[n + 1] # 0 THEN w[n + 1] ELSE Innermost(v, 0)
    <3>1. PICK none : none = 0
      OBVIOUS
    <3>2. Innermost(w, none) = IF w[n + 1] # none THEN w[n + 1] ELSE Innermost(v, none)
      BY <2>3, InnermostNext
    <3> QED
      BY <3>1, <3>2
  <2>5. RetryAfter(s) = Innermost(v, 0) /\ RetryAfter(r) = Innermost(w, 0)
    BY <1>2, <2>1, <2>2 DEF RetryAfter
  <2> QED
    BY <1>4, <1>5, <2>3, <2>4, <2>5
<1>7. WaitTime(r) = IF o.waitTime > 0 THEN o.waitTime ELSE WaitTime(s)
  <2>1. PICK v : v = [i \in 1..n |-> Positive(s[i].waitTime)]
    OBVIOUS
  <2>2. PICK w : w = [i \in 1..(n + 1) |-> Positive(r[i].waitTime)]
    OBVIOUS
  <2>3. /\ DOMAIN v = 1..n /\ DOMAIN w = 1..(n + 1)
        /\ \A i \in 1..n : w[i] = v[i]
        /\ w[n + 1] = Positive(o.waitTime)
    BY <1>2, <1>3, <2>1, <2>2
  <2>4. Innermost(w, 0) = IF w[n + 1] # 0 THEN w[n + 1] ELSE Innermost(v, 0)
    <3>1. PICK none : none = 0
      OBVIOUS
    <3>2. Innermost(w, none) = IF w[n + 1] # none THEN w[n + 1] ELSE Innermost(v, none)
      BY <2>3, InnermostNext
    <3> QED
      BY <3>1, <3>2
  <2>5. WaitTime(s) = Innermost(v, 0) /\ WaitTime(r) = Innermost(w, 0)
    BY <1>2, <2>1, <2>2 DEF WaitTime
  <2> QED
    BY <1>4, <1>5, <2>3, <2>4, <2>5
<1>8. IsQueued(r) = IF o.isQueued # "absent" THEN o.isQueued ELSE IsQueued(s)
  <2>1. PICK v : v = [i \in 1..n |-> s[i].isQueued]
    OBVIOUS
  <2>2. PICK w : w = [i \in 1..(n + 1) |-> r[i].isQueued]
    OBVIOUS
  <2>3. /\ DOMAIN v = 1..n /\ DOMAIN w = 1..(n + 1)
        /\ \A i \in 1..n : w[i] = v[i]
        /\ w[n + 1] = o.isQueued
    BY <1>2, <1>3, <2>1, <2>2
  <2>4. IsQueued(s) = Innermost(v, "absent") /\ IsQueued(r) = Innermost(w, "absent")
    BY <1>2, <2>1, <2>2 DEF IsQueued
  <2> QED
    BY <2>3, <2>4, InnermostNext
<1>9. Available(r) = IF o.available # "absent" THEN o.available ELSE Available(s)
  <2>1. PICK v : v = [i \in 1..n |-> s[i].available]
    OBVIOUS
  <2>2. PICK w : w = [i \in 1..(n + 1) |-> r[i].available]
    OBVIOUS
  <2>3. /\ DOMAIN v = 1..n /\ DOMAIN w = 1..(n + 1)
        /\ \A i \in 1..n : w[i] = v[i]
        /\ w[n + 1] = o.available
    BY <1>2, <1>3, <2>1, <2>2
  <2>4. Available(s) = Innermost(v, "absent") /\ Available(r) = Innermost(w, "absent")
    BY <1>2, <2>1, <2>2 DEF Available
  <2> QED
    BY <2>3, <2>4, InnermostNext
<1> QED
  BY <1>6, <1>7, <1>8, <1>9

\* Nothing was told before the first object.
LEMMA ToldStart == Told(<<>>, NoQueue)
<1>1. <<>> \in Seq(Objects) /\ DOMAIN <<>> = {}
  OBVIOUS
<1>2. NoQueue \in QueuePayloads
  BY DEF NoQueue, QueuePayloads
<1>3. /\ RetryAfter(<<>>) = 0 /\ WaitTime(<<>>) = 0
      /\ IsQueued(<<>>) = "absent" /\ Available(<<>>) = "absent"
  BY <1>1 DEF RetryAfter, WaitTime, IsQueued, Available, Innermost
<1> QED
  BY <1>1, <1>2, <1>3 DEF Told, NoQueue

\* Each round of the loop keeps what its object tells.
LEMMA ToldStep ==
  ASSUME NEW s \in Seq(Objects), NEW o \in Objects, NEW q, Told(s, q)
  PROVE  Told(Append(s, o), MergeQueue(q, o))
<1>1. PICK r : r = Append(s, o)
  OBVIOUS
<1>2. PICK n \in Nat : n = Len(s)
  OBVIOUS
<1>3. /\ r \in Seq(Objects) /\ DOMAIN s = 1..n /\ DOMAIN r = 1..(n + 1)
      /\ r[n + 1] = o /\ \A i \in 1..n : r[i] = s[i]
  BY <1>1, <1>2
<1>4. \A i : i \in 1..(n + 1) <=> i \in 1..n \/ i = n + 1
  OBVIOUS
<1>5. /\ o.retryAfter \in Int /\ o.waitTime \in Int /\ o.typed \in BOOLEAN
      /\ o.isQueued \in {"absent", "yes", "no"} /\ o.available \in {"absent", "yes", "no"}
  BY DEF Objects
<1>6. q \in QueuePayloads
  BY DEF Told
<1>7. PICK m : m = MergeQueue(q, o)
  OBVIOUS
<1>8. m \in QueuePayloads
  BY <1>5, <1>6, <1>7 DEF MergeQueue, QueuePayloads, MentionsQueue
<1>9. (\E i \in DOMAIN r : MentionsQueue(r[i]))
        <=> (\E i \in DOMAIN s : MentionsQueue(s[i])) \/ MentionsQueue(o)
  BY <1>3, <1>4
<1>10. (\E i \in DOMAIN r : r[i].typed) <=> (\E i \in DOMAIN s : s[i].typed) \/ o.typed
  BY <1>3, <1>4
<1>11. /\ m.found = (q.found \/ MentionsQueue(o))
       /\ m.isQueued = (IF o.isQueued = "absent" THEN q.isQueued ELSE o.isQueued = "yes")
       /\ m.available = (IF o.available = "absent" THEN q.available ELSE o.available = "yes")
       /\ m.typed = (q.typed \/ o.typed)
       /\ m.retryAfter = IF o.retryAfter > 0 THEN o.retryAfter ELSE q.retryAfter
       /\ m.waitTime = IF o.waitTime > 0 THEN o.waitTime ELSE q.waitTime
  BY <1>7 DEF MergeQueue
<1>12. /\ RetryAfter(r) = IF o.retryAfter > 0 THEN o.retryAfter ELSE RetryAfter(s)
       /\ WaitTime(r) = IF o.waitTime > 0 THEN o.waitTime ELSE WaitTime(s)
       /\ IsQueued(r) = IF o.isQueued # "absent" THEN o.isQueued ELSE IsQueued(s)
       /\ Available(r) = IF o.available # "absent" THEN o.available ELSE Available(s)
  BY <1>1, FieldsNext
<1>13. ASSUME ~m.found
       PROVE  /\ m.retryAfter = 0 /\ m.waitTime = 0 /\ ~m.typed
              /\ IsQueued(r) = "absent" /\ Available(r) = "absent"
  <2>1. ~q.found /\ ~MentionsQueue(o)
    BY <1>11, <1>13
  <2>2. /\ o.isQueued = "absent" /\ o.available = "absent" /\ ~o.typed
        /\ ~(o.retryAfter > 0) /\ ~(o.waitTime > 0)
    BY <2>1 DEF MentionsQueue
  <2> QED
    BY <1>11, <1>12, <2>1, <2>2 DEF Told
<1>14. Told(r, m)
  <2>1. m.found <=> \E i \in DOMAIN r : MentionsQueue(r[i])
    BY <1>9, <1>11 DEF Told
  <2>2. m.typed <=> \E i \in DOMAIN r : r[i].typed
    BY <1>10, <1>11 DEF Told
  <2>3. m.retryAfter = RetryAfter(r) /\ m.waitTime = WaitTime(r)
    BY <1>11, <1>12 DEF Told
  <2>4. (m.isQueued <=> IsQueued(r) = "yes") /\ (m.available <=> Available(r) = "yes")
    BY <1>5, <1>11, <1>12 DEF Told
  <2> QED
    BY <1>3, <1>8, <1>13, <2>1, <2>2, <2>3, <2>4 DEF Told
<1> QED
  BY <1>1, <1>7, <1>14

\* The loop of extractQueue reads every sequence of objects as it was told.
LEMMA AllTold == \A s \in Seq(Objects) : Told(s, FoldLeft(MergeQueue, NoQueue, s))
<1>1. \A s \in Seq(Objects), o \in Objects : \A q :
        Told(s, q) => Told(Append(s, o), MergeQueue(q, o))
  BY ToldStep
<1>2. \A s \in Seq(Objects) : Told(s, Merging!Folded(s))
  BY <1>1, ToldStart, Merging!FoldedGood
<1> QED
  BY <1>2 DEF Merging!Folded, Merging!FoldLeft, Merging!MapThenFoldSet, Merging!Max,
              FoldLeft, MapThenFoldSet, Max

\* The first few objects of an answer.
LEMMA Reached ==
  ASSUME NEW p \in Answers
  PROVE  WithinReach(p) \in Answers /\ Head(WithinReach(p)) = Head(p)
<1>1. p \in Seq(Objects) /\ Len(p) \in Nat /\ Len(p) > 0
  BY EmptySeq DEF Answers
<1>2. PICK k : k = Min({Reach, Len(p)})
  OBVIOUS
<1>3. k \in {Reach, Len(p)} /\ k <= Len(p) /\ k <= Reach
  <2>1. \E x \in {Reach, Len(p)} : \A y \in {Reach, Len(p)} : x <= y
    BY <1>1 DEF Reach
  <2>2. Min({Reach, Len(p)}) \in {Reach, Len(p)}
        /\ \A y \in {Reach, Len(p)} : Min({Reach, Len(p)}) <= y
    BY <2>1 DEF Min
  <2> QED
    BY <1>2, <2>2
<1>4. k \in 1..Len(p)
  BY <1>1, <1>3 DEF Reach
<1>5. PICK s : s = SubSeq(p, 1, k)
  OBVIOUS
<1>6. s \in Seq(Objects) /\ Len(s) = k /\ s[1] = p[1]
  BY <1>1, <1>4, <1>5
<1>7. s # <<>> /\ Head(s) = Head(p)
  BY <1>1, <1>4, <1>6
<1>8. WithinReach(p) = s
  BY <1>2, <1>5, Zenon DEF WithinReach
<1> QED
  BY <1>6, <1>7, <1>8 DEF Answers

\* What is left of an answer when its envelopes are off; an answer without them is left alone.
LEMMA Unwrapped ==
  ASSUME NEW p \in Answers
  PROVE  unwrapBody(p) \in Answers /\ (Head(p).via # "body" => unwrapBody(p) = p)
<1>1. p \in Seq(Objects) /\ Len(p) \in Nat /\ Len(p) > 0
  BY EmptySeq DEF Answers
<1>2. PICK m : m = Min({3, Len(p) - 1})
  OBVIOUS
<1>3. m \in Nat /\ m <= 3 /\ m <= Len(p) - 1
  <2>1. \E x \in {3, Len(p) - 1} : \A y \in {3, Len(p) - 1} : x <= y
    BY <1>1
  <2>2. Min({3, Len(p) - 1}) \in {3, Len(p) - 1}
        /\ \A y \in {3, Len(p) - 1} : Min({3, Len(p) - 1}) <= y
    BY <2>1 DEF Min
  <2> QED
    BY <1>1, <1>2, <2>2
<1>4. PICK depths : depths = {n \in 0..m : \A i \in 1..n : p[i].via = "body"}
  OBVIOUS
<1>5. 0 \in depths /\ depths \subseteq 0..3
  BY <1>3, <1>4
<1>6. \E x \in depths : \A y \in depths : x >= y
  <2>1. \A y \in depths : y \in {0, 1, 2, 3}
    BY <1>5
  <2> QED
    BY <1>5, <2>1
<1>7. Max(depths) \in depths
  BY <1>6 DEF Max
<1>8. PICK k : k = UnwrapDepth(p)
  OBVIOUS
<1>9. k \in depths
  <2>1. depths = {n \in 0..Min({3, Len(p) - 1}) : \A i \in 1..n : p[i].via = "body"}
    BY <1>2, <1>4, Zenon
  <2>2. UnwrapDepth(p) = Max(depths)
    BY <2>1, Zenon DEF UnwrapDepth
  <2> QED
    BY <1>7, <1>8, <2>2
<1>10. k \in 0..(Len(p) - 1)
  BY <1>1, <1>3, <1>4, <1>9
<1>11. PICK s : s = SubSeq(p, k + 1, Len(p))
  OBVIOUS
<1>12. s \in Seq(Objects) /\ s # <<>>
  <2>1. s \in Seq(Objects) /\ Len(s) = Len(p) - k
    BY <1>1, <1>10, <1>11
  <2> QED
    BY <1>10, <2>1
<1>13. ASSUME Head(p).via # "body" PROVE k = 0 /\ SubSeq(p, 1, Len(p)) = p
  <2>1. p[1].via # "body"
    BY <1>1, <1>13
  <2>2. k = 0
    BY <1>4, <1>9, <1>10, <2>1
  <2>3. SubSeq(p, 1, Len(p)) = p
    BY <1>1
  <2> QED
    BY <2>2, <2>3
<1> QED
  BY <1>8, <1>11, <1>12, <1>13 DEF unwrapBody, Answers

\* The objects that a dialect classifies.
Said(d, p) == IF d = "bearer" THEN p ELSE unwrapBody(p)

\* An error is a queue refusal by its code or by its queue fields, and by nothing else.
LEMMA QueueCategory ==
  ASSUME NEW p, NEW code, NEW text
  PROVE  ClassifyBusiness(code, text, p) = "queue_unavailable" <=>
           code = 10605 \/ QueueShaped(extractQueue(p))
BY DEF ClassifyBusiness, StatusCategory, SafeErrorCategory

\* What ClassifyBusiness makes of an error.
LEMMA RefusedAsTold ==
  ASSUME NEW p \in Answers, NEW code, NEW text, NEW outer, NEW e, NEW s,
         e = Refused(code, text, outer, p), s = WithinReach(p)
  PROVE  /\ e.code = code
         /\ SaysQueue(s) => e.category = "queue_unavailable"
         /\ ~(\E i \in DOMAIN s : MentionsQueue(s[i])) =>
               (e.category = "queue_unavailable" <=> code = 10605)
         /\ e.queue.retryAfter = RetryAfter(s)
         /\ e.queue.waitTime = WaitTime(s)
<1>1. PICK q : q = extractQueue(p)
  OBVIOUS
<1>2. Told(s, q)
  <2>1. s \in Seq(Objects)
    BY Reached DEF Answers
  <2>2. q = FoldLeft(MergeQueue, NoQueue, s)
    BY <1>1, Zenon DEF extractQueue
  <2> QED
    BY <2>1, <2>2, AllTold
<1>3. e.code = code /\ e.category = ClassifyBusiness(code, text, p) /\ e.queue = q
  BY <1>1 DEF Refused
<1>4. e.category = "queue_unavailable" <=> code = 10605 \/ QueueShaped(q)
  BY <1>1, <1>3, QueueCategory
<1>5. SaysQueue(s) => QueueShaped(q)
  BY <1>2 DEF SaysQueue, QueueShaped, Told, QueuePayloads
<1>6. ~(\E i \in DOMAIN s : MentionsQueue(s[i])) => ~QueueShaped(q)
  BY <1>2 DEF QueueShaped, Told
<1> QED
  BY <1>2, <1>3, <1>4, <1>5, <1>6 DEF Told

\* An event is such a refusal, or has nothing to do with the queue.
LEMMA EventsTold ==
  ASSUME NEW d \in Dialects, NEW p \in Answers, NEW e, e = classifyEvent(d, p)
  PROVE  \/ \E code, text, outer : e = Refused(code, text, outer, Said(d, p))
         \/ /\ e.category # "queue_unavailable"
            /\ e.type = "error" => Head(Said(d, p)).delta = "limitText"
<1>1. PICK o : o = Head(Said(d, p))
  OBVIOUS
<1>2. o \in Objects
  <2>1. Said(d, p) \in Answers
    BY Unwrapped DEF Said
  <2> QED
    BY <1>1, <2>1, EmptySeq DEF Answers
<1>3. o.delta # "error"
  BY <1>2 DEF Objects
<1>4. /\ classifyChoices(o).category # "queue_unavailable"
      /\ classifyChoices(o).type = "error" => o.delta = "limitText"
  BY <1>3 DEF classifyChoices, Event
<1>5. \A type \in {"terminal", "usage"} :
        Event(type).category # "queue_unavailable" /\ Event(type).type # "error"
  BY DEF Event
<1>6. CASE d = "bearer"
  <2>1. e = BearerEvent(p) /\ Said(d, p) = p
    BY <1>6 DEF classifyEvent, Said
  <2>2. \/ e = Refused(o.code, o.text, 0, p)
        \/ e \in {Event("terminal"), Event("usage"), classifyChoices(o)}
    BY <1>1, <2>1 DEF BearerEvent
  <2> QED
    BY <1>1, <1>4, <1>5, <2>1, <2>2
<1>7. CASE d # "bearer"
  <2>1. e = CosyEvent(p) /\ Said(d, p) = unwrapBody(p)
    BY <1>7 DEF classifyEvent, Said
  <2>2. PICK status : status = StatusCodeValue(p)
    OBVIOUS
  <2>3. \/ e = Refused(o.code, o.text, status, unwrapBody(p))
        \/ e = Refused(status, "", status, unwrapBody(p))
        \/ e \in {Event("terminal"), Event("usage"), classifyChoices(o)}
    BY <1>1, <2>1, <2>2 DEF CosyEvent
  <2> QED
    BY <1>1, <1>4, <1>5, <2>1, <2>3
<1> QED
  BY <1>6, <1>7

\* Every answer is read as it was told.
LEMMA AnswersRead == \A p \in Answers : ReadAsTold(p)
<1> SUFFICES ASSUME NEW p \in Answers PROVE ReadAsTold(p)
  OBVIOUS
<1>1. ASSUME NEW d \in Dialects, NEW e, e = classifyEvent(d, p), NEW s, s = Heard(d, p),
             e.type = "error", Head(s).delta # "limitText"
      PROVE  /\ SaysQueue(s) => e.category = "queue_unavailable"
             /\ ~(\E i \in DOMAIN s : MentionsQueue(s[i])) =>
                   (e.category = "queue_unavailable" <=> e.code = 10605)
             /\ e.queue.retryAfter = RetryAfter(s)
             /\ e.queue.waitTime = WaitTime(s)
  <2>1. Said(d, p) \in Answers /\ s = WithinReach(Said(d, p))
    BY <1>1, Unwrapped DEF Said, Heard
  <2>2. Head(s) = Head(Said(d, p))
    BY <2>1, Reached
  <2>3. PICK code, text, outer : e = Refused(code, text, outer, Said(d, p))
    BY <1>1, <2>2, EventsTold
  <2> QED
    BY <2>1, <2>3, RefusedAsTold
<1>2. ASSUME Head(p).via # "body", Head(p).status = 0, Head(p).delta = "none"
      PROVE  classifyEvent("bearer", p) = classifyEvent("cosy", p)
  <2>1. unwrapBody(p) = p /\ StatusCodeValue(p) = 0
    BY <1>2, Unwrapped DEF StatusCodeValue
  <2>2. BearerEvent(p) = CosyEvent(p)
    BY <1>2, <2>1 DEF BearerEvent, CosyEvent
  <2> QED
    BY <2>2 DEF classifyEvent
<1>3. ASSUME NEW d \in Dialects
      PROVE  LET e == classifyEvent(d, p)
                 s == Heard(d, p)
             IN  e.type = "error" /\ Head(s).delta # "limitText" =>
                   /\ SaysQueue(s) => e.category = "queue_unavailable"
                   /\ ~(\E i \in DOMAIN s : MentionsQueue(s[i])) =>
                         (e.category = "queue_unavailable" <=> e.code = 10605)
                   /\ e.queue.retryAfter = RetryAfter(s)
                   /\ e.queue.waitTime = WaitTime(s)
  BY <1>1
<1> QED
  BY <1>2, <1>3 DEF ReadAsTold

\* Where the hint of a wait that is under way comes from.
HintInv == pc = "sleeping" => \E q \in Refusals : q.payload /\ hint = Hint(q)

\* For every policy, whatever objects the upstream's answers are nested in and however they are
\* mixed with expiring streams and cancellations, ReadChunk waits only for a queue refusal and
\* only as long as its innermost hint says, and no answer is classified otherwise than told.
THEOREM SleepsRight == ASSUME AnswersTold PROVE Spec => []SleepsAsTold
<1>1. Init => HintInv
  BY DEF Init, HintInv
<1>2. HintInv /\ [Next]_vars => HintInv'
  <2> SUFFICES ASSUME HintInv, [Next]_vars PROVE HintInv'
    OBVIOUS
  <2>1. ASSUME NEW q \in Refusals, StartWait(q) PROVE HintInv'
    BY <2>1 DEF StartWait, WaitsFor, HintInv
  <2>2. CASE UNCHANGED hint /\ (pc' = "sleeping" => pc = "sleeping")
    BY <2>2 DEF HintInv
  <2>3. \/ \E q \in Refusals : StartWait(q)
        \/ UNCHANGED hint /\ (pc' = "sleeping" => pc = "sleeping")
    BY DEF Next, vars, ReadChunk, Finished, OpenOk, OpenFail, CallReadChunk,
           ReadReturnsChunk, ReadReturnsError, ReadReturnsRefusal, WaitEnds, WaitAborts,
           ReopenOk, ReopenFail, Cancel, CancelParent, StreamExpires
  <2> QED
    BY <2>1, <2>2, <2>3
<1>3. HintInv => SleepsAsTold
  <2> SUFFICES ASSUME HintInv PROVE SleepsAsTold
    OBVIOUS
  <2>1. AllReadAsTold
    BY AnswersRead DEF AnswersTold, AllReadAsTold
  <2>2. ASSUME pc = "sleeping"
        PROVE  \E d \in Dialects, p \in Payloads :
                 /\ classifyEvent(d, p).category = "queue_unavailable"
                 /\ hint \in {RetryAfter(Heard(d, p)), WaitTime(Heard(d, p))}
    <3>1. PICK q \in Refusals : q.payload /\ hint = Hint(q)
      BY <2>2 DEF HintInv
    <3>2. PICK d \in Dialects, p \in Payloads : q = AsRefusal(classifyEvent(d, p))
      BY DEF AnswersTold, ToldRefusals
    <3>3. PICK e : e = classifyEvent(d, p)
      OBVIOUS
    <3>4. /\ e.category = "queue_unavailable"
          /\ hint \in {e.queue.retryAfter, e.queue.waitTime}
      BY <3>1, <3>2, <3>3 DEF AsRefusal, Hint
    <3>5. p \in Answers
      BY DEF AnswersTold
    <3>6. Said(d, p) \in Answers /\ Heard(d, p) = WithinReach(Said(d, p))
      BY <3>5, Unwrapped DEF Said, Heard
    <3>7. PICK code, text, outer : e = Refused(code, text, outer, Said(d, p))
      BY <3>3, <3>4, <3>5, EventsTold
    <3>8. /\ e.queue.retryAfter = RetryAfter(Heard(d, p))
          /\ e.queue.waitTime = WaitTime(Heard(d, p))
      BY <3>6, <3>7, RefusedAsTold
    <3> QED
      BY <3>3, <3>4, <3>8
  <2> QED
    BY <2>1, <2>2 DEF SleepsAsTold
<1> QED
  BY <1>1, <1>2, <1>3, PTL DEF Spec

-----------------------------------------------------------------------------
(* The handle implements the abstract StreamHandle *)

\* To its caller the handle of queueAwait is a StreamHandle: every step of it is a step of
\* the abstract handle or hidden from the caller; in particular it reopens only while no
\* chunk was handed out and no other stream is open.
THEOREM Refinement == Spec => Promise!Safety
<1>1. Init => Promise!Init
  <2> SUFFICES ASSUME Init PROVE Promise!Init
    OBVIOUS
  <2>1. Open = {}
    BY DEF Init, Open
  <2> QED
    BY <2>1 DEF Init, Life, Promise!Init
<1>2. ASSUME Inv, [Next]_vars
      PROVE  [Promise!Next]_(Promise!vars)
  <2> USE <1>2
  <2> USE PolicyAssumption DEF Attempts
  <2>1. TypeOK /\ OpenedInOrder /\ ClosedWhileWaiting /\ AttemptsInv
    BY DEF Inv
  <2>2. Open \subseteq {attempts}
    BY <2>1 DEF TypeOK, OpenedInOrder, Open
  <2>3. pc \in {"unopened", "sleeping", "reopening", "closed"} => Open = {}
    BY <2>1, <2>2 DEF TypeOK, ClosedWhileWaiting, AttemptsInv, Open
  <2>4. streams' = streams => Open' = Open
    BY DEF Open
  <2>5. CASE OpenOk
    <3>1. 1 \in Open'
      BY <2>1, <2>5 DEF OpenOk, TypeOK, Open
    <3> QED
      BY <2>1, <2>3, <2>5, <3>1
         DEF OpenOk, AttemptsInv, Life, Promise!Next, Promise!Open
  <2>6. CASE OpenFail
    BY <2>4, <2>6 DEF OpenFail, Life, Promise!Next, Promise!OpenFails
  <2>7. CASE CallReadChunk
    BY <2>4, <2>7 DEF CallReadChunk, Life, Promise!vars
  <2>8. CASE ReadReturnsChunk
    BY <2>4, <2>8 DEF ReadReturnsChunk, Life, Promise!Next, Promise!Deliver
  <2>9. CASE ReadReturnsError \/ WaitAborts
    BY <2>4, <2>9
       DEF ReadReturnsError, WaitAborts, Life, Promise!Next, Promise!End
  <2>10. ASSUME NEW q \in Refusals, ReadReturnsRefusal(q)
         PROVE  [Promise!Next]_(Promise!vars)
    BY <2>4, <2>10 DEF ReadReturnsRefusal, Life, Promise!Next, Promise!End
  <2>11. ASSUME NEW q \in Refusals, StartWait(q)
         PROVE  [Promise!Next]_(Promise!vars)
    <3>1. Open # {}
      BY <2>1, <2>11 DEF StartWait, Inner, TypeOK, AttemptsInv, Open
    <3>2. Open' = {}
      BY <2>1, <2>2, <2>11 DEF StartWait, TypeOK, Open
    <3> QED
      BY <2>11, <3>1, <3>2 DEF StartWait, Life, Promise!Next, Promise!Lose
  <2>12. CASE WaitEnds
    BY <2>4, <2>12 DEF WaitEnds, Life, Promise!vars
  <2>13. CASE ReopenOk
    <3>1. Open = {} /\ ~started
      BY <2>1, <2>3, <2>13 DEF ReopenOk, AttemptsInv
    <3>2. attempts + 1 \in Open'
      BY <2>1, <2>13 DEF ReopenOk, TypeOK, AttemptsInv, Open
    <3> QED
      BY <2>13, <3>1, <3>2 DEF ReopenOk, Life, Promise!Next, Promise!Replace
  <2>14. CASE ReopenFail
    BY <2>4, <2>14 DEF ReopenFail, Life, Promise!Next, Promise!End
  <2>15. CASE Cancel
    <3>1. Open' = {}
      BY <2>1, <2>2, <2>15 DEF Cancel, TypeOK, Open
    <3> QED
      BY <2>15, <3>1 DEF Cancel, Life, Promise!Next, Promise!Cancel
  <2>16. CASE CancelParent
    BY <2>4, <2>16 DEF CancelParent, Life, Promise!vars
  <2>17. ASSUME NEW i \in Attempts, StreamExpires(i)
         PROVE  [Promise!Next]_(Promise!vars)
    <3>1. Open # {}
      BY <2>17 DEF StreamExpires, Open
    <3>2. Open' = {}
      BY <2>1, <2>2, <2>17 DEF StreamExpires, TypeOK, Open
    <3> QED
      BY <2>17, <3>1, <3>2 DEF StreamExpires, Life, Promise!Next, Promise!Lose
  <2>18. CASE UNCHANGED vars
    BY <2>18 DEF vars, Open, Life, Promise!vars
  <2> QED
    BY <2>5, <2>6, <2>7, <2>8, <2>9, <2>10, <2>11, <2>12, <2>13, <2>14, <2>15,
       <2>16, <2>17, <2>18 DEF Next, ReadChunk, Finished
<1> QED
  BY <1>1, <1>2, Invariance, PTL DEF Spec, Promise!Safety
=============================================================================
