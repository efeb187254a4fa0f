------------------------------ MODULE Scheduler ------------------------------
(***************************************************************************)
(* scheduler.go and scheduler_state.go: which account answers a request.   *)
(*                                                                         *)
(* Every call of scheduler.pick runs in a goroutine of its own.  It reads  *)
(* the shared state one entry at a time, each under its own acquisition of *)
(* schedulerState.mu, so that cooldowns, quota snapshots, sticky bindings  *)
(* and the clock change between any two of its steps.                      *)
(***************************************************************************)
EXTENDS Integers, Sequences

CONSTANTS
  Pickers,          \* goroutines that may run schedulerPick
  Accounts,         \* accounts of this plugin's provider
  Others,           \* candidates of other providers
  CandidateSets,    \* the sets of candidates the host may offer
  Keys, NoKey,      \* sticky keys a request may carry, and a request without one
  Priority,         \* host priority of each account
  StickyMax,        \* bindings kept
  QuotaTTL,         \* how long a snapshot counts
  CooldownDefault,  \* cooldown of a refusal without retry-after
  RetryAfters,      \* retry-after values of refusals; 0 when there is none
  MaxClock,         \* bound: the clock stops here
  MaxPicks,         \* bound: picks begun
  MaxNotes          \* bound: snapshots and cooldowns noted

None == "none"

ASSUME SchedulerAssumption ==
  /\ Accounts \intersect Others = {} /\ None \notin Accounts \union Others
  /\ CandidateSets \subseteq SUBSET (Accounts \union Others)
  /\ NoKey \notin Keys
  /\ Priority \in [Accounts -> Int]
  /\ {StickyMax, CooldownDefault} \subseteq Nat \ {0}
  /\ QuotaTTL \in Nat /\ RetryAfters \subseteq Nat
  /\ {MaxClock, MaxPicks, MaxNotes} \subseteq Nat

VARIABLES
  now,        \* schedulerState.clock
  quota,      \* a snapshot [exhausted, obtained] for some of the accounts
  cooldown,   \* an expiry for some of the accounts, for the model in use
  sticky,     \* the sticky bindings, as RecencyMap has them
  picker,     \* the local variables of each schedulerPick
  picks, notes,  \* the counters of the two bounds
  away,       \* history: accounts unusable, for one and the same reason, ever since the
              \* pick began
  ready,      \* history: candidates usable ever since the pick began
  bound,      \* history: the account the request's key was bound to all that time
  glimpsed,   \* history: accounts with a fresh snapshot at some time since then
  measured    \* history: accounts with a fresh snapshot all that time

vars == <<now, quota, cooldown, sticky, picker, picks, notes, away, ready, bound,
          glimpsed, measured>>
shared == <<now, quota, cooldown, sticky>>

M == INSTANCE RecencyMap WITH
  Values <- Accounts, Cap <- StickyMax, bindings <- sticky, answer <- None

BoundTo(key) == IF key \in M!KeysOf(sticky) THEN M!ValueOf(sticky, key) ELSE None

-----------------------------------------------------------------------------
(* Shared state, each operator one critical section *)

Fresh(a) == a \in DOMAIN quota /\ now - quota[a].obtained <= QuotaTTL

IsExhausted(a) == Fresh(a) /\ quota[a].exhausted

IsCoolingDown(a) == a \in DOMAIN cooldown /\ now <= cooldown[a]

Usable(a) == ~IsCoolingDown(a) /\ ~IsExhausted(a)

\* The accounts that are unusable, each with a reason.
Unusable == {pair \in Accounts \X {"cooling", "exhausted"} :
               IF pair[2] = "cooling" THEN IsCoolingDown(pair[1]) ELSE IsExhausted(pair[1])}

Put(f, a, v) == [x \in DOMAIN f \union {a} |-> IF x = a THEN v ELSE f[x]]

Idle == [at |-> "idle", key |-> NoKey, own |-> {}, todo |-> {}, current |-> None,
         eligible |-> {}, weighed |-> {}, chosen |-> None]

Init ==
  /\ now = 0
  /\ quota = <<>>
  /\ cooldown = <<>>
  /\ sticky = <<>>
  /\ picker = [p \in Pickers |-> Idle]
  /\ picks = 0 /\ notes = 0
  /\ away = [p \in Pickers |-> {}]
  /\ ready = [p \in Pickers |-> {}]
  /\ bound = [p \in Pickers |-> None]
  /\ glimpsed = [p \in Pickers |-> {}]
  /\ measured = [p \in Pickers |-> {}]

\* The history of the picks that were under way before the step; what a pick itself binds in its
\* last step does not count.
Observed ==
  /\ away' = [p \in Pickers |-> away[p] \intersect Unusable']
  /\ ready' = [p \in Pickers |-> {a \in ready[p] : Usable(a)'}]
  /\ bound' = [p \in Pickers |->
                 IF \E a \in Accounts : /\ a = bound[p]
                                        /\ Usable(a)'
                                        /\ \/ BoundTo(picker[p].key)' = a
                                           \/ picker[p].at = "binding" /\ picker'[p].at = "answered"
                 THEN bound[p] ELSE None]
  /\ glimpsed' = [p \in Pickers |-> glimpsed[p] \union {a \in Accounts : Fresh(a)'}]
  /\ measured' = [p \in Pickers |-> {a \in measured[p] : Fresh(a)'}]

\* The history of a pick that begins: own candidates and sticky key.
ObservedFromNow(p, own, key) ==
  LET target == BoundTo(key)
  IN  /\ away' = [away EXCEPT ![p] = Unusable]
      /\ ready' = [ready EXCEPT ![p] = {a \in own : Usable(a)}]
      /\ bound' = [bound EXCEPT ![p] =
                     IF target \in own /\ Usable(target) THEN target ELSE None]
      /\ glimpsed' = [glimpsed EXCEPT ![p] = {a \in Accounts : Fresh(a)}]
      /\ measured' = [measured EXCEPT ![p] = {a \in Accounts : Fresh(a)}]

-----------------------------------------------------------------------------
(* schedulerPick *)

\* usableCandidates and ownCandidates; a request of other providers only is delegated.
Begin(p, candidates, key) ==
  LET own == candidates \intersect Accounts
  IN  /\ picker[p].at \in {"idle", "answered"}
      /\ picks < MaxPicks
      /\ picks' = picks + 1
      /\ picker' = [picker EXCEPT ![p] =
           [Idle EXCEPT !.at = (IF own = {} THEN "answered" ELSE "cooling"),
                        !.key = key, !.own = own, !.todo = own]]
      /\ ObservedFromNow(p, own, key)
      /\ UNCHANGED <<shared, notes>>

\* The next step after filterUnavailable or one of its rounds.
AfterFilter(r) ==
  IF r.todo # {} THEN [r EXCEPT !.at = "cooling"]
  ELSE IF r.eligible = {} THEN [r EXCEPT !.at = "answered"]
  ELSE [r EXCEPT !.at = (IF r.key = NoKey THEN "weighing" ELSE "sticky"),
                 !.todo = r.eligible]

\* filterUnavailable asks isCoolingDown, and isExhausted for those that are not cooling.
CheckCooling(p, a) ==
  LET r == [picker[p] EXCEPT !.todo = @ \ {a}]
  IN  /\ picker[p].at = "cooling"
      /\ a \in picker[p].todo
      /\ picker' = [picker EXCEPT ![p] =
           IF IsCoolingDown(a) THEN AfterFilter(r)
           ELSE [r EXCEPT !.at = "exhausted", !.current = a]]
      /\ UNCHANGED <<shared, picks, notes>>
      /\ Observed

\* A slip: the answer of isExhausted is not looked at.
CheckExhausted_ignored(p) ==
  /\ picker[p].at = "exhausted"
  /\ picker' = [picker EXCEPT ![p] =
       AfterFilter([picker[p] EXCEPT !.eligible = @ \union {picker[p].current}])]
  /\ UNCHANGED <<shared, picks, notes>>
  /\ Observed

CheckExhausted(p) ==
  LET r == picker[p]
      a == r.current
  IN  /\ r.at = "exhausted"
      /\ picker' = [picker EXCEPT ![p] =
           IF IsExhausted(a) THEN AfterFilter(r)
           ELSE AfterFilter([r EXCEPT !.eligible = @ \union {a}])]
      /\ UNCHANGED <<shared, picks, notes>>
      /\ Observed

\* Slips in the use of a binding: a request whose account is not eligible is delegated, or an
\* account without a fresh snapshot loses its conversations.
StickyGet_delegates(p) ==
  LET target == BoundTo(picker[p].key)
  IN  /\ picker[p].at = "sticky"
      /\ sticky' = M!Touch(sticky, picker[p].key)
      /\ picker' = [picker EXCEPT
           ![p].at = (IF target \in picker[p].eligible THEN "binding"
                      ELSE IF target # None THEN "answered" ELSE "weighing"),
           ![p].chosen = (IF target \in picker[p].eligible THEN target ELSE None)]
      /\ UNCHANGED <<now, quota, cooldown, picks, notes>>
      /\ Observed

StickyGet_needsSnapshot(p) ==
  LET target == BoundTo(picker[p].key)
      keeps == target \in picker[p].eligible /\ Fresh(target)
  IN  /\ picker[p].at = "sticky"
      /\ sticky' = M!Touch(sticky, picker[p].key)
      /\ picker' = [picker EXCEPT ![p].at = (IF keeps THEN "binding" ELSE "weighing"),
                                  ![p].chosen = (IF keeps THEN target ELSE None)]
      /\ UNCHANGED <<now, quota, cooldown, picks, notes>>
      /\ Observed

\* A lookup makes the key the most recently used one even when its account is not eligible.
StickyGet(p) ==
  LET r == picker[p]
      target == BoundTo(r.key)
  IN  /\ r.at = "sticky"
      /\ sticky' = M!Touch(sticky, r.key)
      /\ picker' = [picker EXCEPT ![p] =
           IF target \in r.eligible THEN [r EXCEPT !.at = "binding", !.chosen = target]
           ELSE [r EXCEPT !.at = "weighing"]]
      /\ UNCHANGED <<now, quota, cooldown, picks, notes>>
      /\ Observed

\* A slip: the weights are used only if all eligible accounts have one.
Outcomes_allOrNone(r) ==
  IF r.weighed = r.eligible THEN r.weighed
  ELSE {a \in r.eligible : \A b \in r.eligible : Priority[a] >= Priority[b]}

\* The accounts the pick may end with: those with a fresh snapshot, each with a weight of at
\* least epsilon, or else those of the highest host priority.
Outcomes(r) ==
  IF r.weighed # {} THEN r.weighed
  ELSE {a \in r.eligible : \A b \in r.eligible : Priority[a] >= Priority[b]}

Weigh(p, a) ==
  LET r == [picker[p] EXCEPT !.todo = @ \ {a},
                             !.weighed = IF Fresh(a) THEN @ \union {a} ELSE @]
  IN  /\ picker[p].at = "weighing"
      /\ a \in picker[p].todo
      /\ IF r.todo # {}
         THEN picker' = [picker EXCEPT ![p] = r]
         ELSE \E c \in Outcomes(r) :
                picker' = [picker EXCEPT ![p] =
                  [r EXCEPT !.at = (IF r.key = NoKey THEN "answered" ELSE "binding"),
                            !.chosen = c]]
      /\ UNCHANGED <<shared, picks, notes>>
      /\ Observed

StickySet(p) ==
  /\ picker[p].at = "binding"
  /\ sticky' = M!Bind(sticky, picker[p].key, picker[p].chosen)
  /\ picker' = [picker EXCEPT ![p].at = "answered"]
  /\ UNCHANGED <<now, quota, cooldown, picks, notes>>
  /\ Observed

-----------------------------------------------------------------------------
(* The rest of the plugin *)

\* A quota query of the host or of the management page came back.
NoteQuotaSnapshot(a, exhausted) ==
  /\ notes < MaxNotes
  /\ notes' = notes + 1
  /\ quota' = Put(quota, a, [exhausted |-> exhausted, obtained |-> now])
  /\ UNCHANGED <<now, cooldown, sticky, picker, picks>>
  /\ Observed

\* The executor reports a queue refusal.
NoteSchedulerFailure(a, retryAfter) ==
  /\ notes < MaxNotes
  /\ notes' = notes + 1
  /\ cooldown' =
       Put(cooldown, a, now + (IF retryAfter > 0 THEN retryAfter ELSE CooldownDefault))
  /\ UNCHANGED <<now, quota, sticky, picker, picks>>
  /\ Observed

Tick ==
  /\ now < MaxClock
  /\ now' = now + 1
  /\ UNCHANGED <<quota, cooldown, sticky, picker, picks, notes>>
  /\ Observed

Step(p) ==
  \/ \E a \in Accounts : CheckCooling(p, a) \/ Weigh(p, a)
  \/ CheckExhausted(p)
  \/ StickyGet(p)
  \/ StickySet(p)

Next ==
  \/ \E p \in Pickers :
       \/ \E candidates \in CandidateSets, key \in Keys \union {NoKey} :
            Begin(p, candidates, key)
       \/ Step(p)
  \/ \E a \in Accounts, e \in BOOLEAN : NoteQuotaSnapshot(a, e)
  \/ \E a \in Accounts, t \in RetryAfters : NoteSchedulerFailure(a, t)
  \/ Tick

Spec == Init /\ [][Next]_vars

-----------------------------------------------------------------------------
(* What a pick promises although the state moves under it. *)

\* What one schedulerPick keeps in its local variables.
PickState ==
  [at : {"idle", "cooling", "exhausted", "sticky", "weighing", "binding", "answered"},
   key : Keys \union {NoKey},
   own : SUBSET Accounts, todo : SUBSET Accounts,
   eligible : SUBSET Accounts, weighed : SUBSET Accounts,
   current : Accounts \union {None}, chosen : Accounts \union {None}]

TypeOK ==
  /\ now \in 0..MaxClock /\ picks \in 0..MaxPicks /\ notes \in 0..MaxNotes
  /\ DOMAIN quota \subseteq Accounts /\ DOMAIN cooldown \subseteq Accounts
  /\ \A a \in DOMAIN quota : quota[a] \in [exhausted : BOOLEAN, obtained : 0..MaxClock]
  /\ \A a \in DOMAIN cooldown : cooldown[a] \in Nat
  /\ sticky \in Seq([key : Keys, val : Accounts]) /\ Len(sticky) <= StickyMax
  /\ picker \in [Pickers -> PickState]
  /\ away \in [Pickers -> SUBSET (Accounts \X {"cooling", "exhausted"})]
  /\ ready \in [Pickers -> SUBSET Accounts]
  /\ bound \in [Pickers -> Accounts \union {None}]
  /\ glimpsed \in [Pickers -> SUBSET Accounts]
  /\ measured \in [Pickers -> SUBSET Accounts]

Answered(p) == picker[p].at = "answered"
Delegated(p) == Answered(p) /\ picker[p].chosen = None

\* An account that was cooling down from the request to the answer is not the answer, nor is
\* one that was exhausted all that time, neither by quota, priority nor stickiness; and the
\* answer is one of the request's own candidates.  (An account may slip through that is first
\* exhausted and then cooling: the two are read one after the other.)
AnswersUsable ==
  \A p \in Pickers : Answered(p) /\ ~Delegated(p) =>
    /\ picker[p].chosen \in picker[p].own
    /\ \A pair \in away[p] : pair[1] # picker[p].chosen

\* The host is left to decide only if no candidate was usable from the request to the answer.
DelegatesOnlyWithoutReady == \A p \in Pickers : Delegated(p) => ready[p] = {}

\* A conversation stays with its account: while its key is bound to a usable candidate, no
\* expiring snapshot, no eviction of other keys and no other pick sends it elsewhere.
ConversationStays ==
  \A p \in Pickers : Answered(p) /\ bound[p] # None => picker[p].chosen = bound[p]

\* Snapshots that appear or expire during a pick leave it with one of two rules: an answer (to a
\* request without a key) that had no fresh snapshot at any time was chosen by host priority
\* ("highest host priority wins"), so that no candidate that was usable all the time outranks
\* it, and none of those had a fresh snapshot all the time, by which it would have been weighed.
WeightsOrPriorities ==
  \A p \in Pickers :
    Answered(p) /\ ~Delegated(p) /\ picker[p].key = NoKey /\ picker[p].chosen \notin glimpsed[p] =>
      \A a \in ready[p] : a \notin measured[p] /\ Priority[a] <= Priority[picker[p].chosen]
=============================================================================
