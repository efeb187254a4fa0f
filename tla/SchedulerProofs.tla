--------------------------- MODULE SchedulerProofs ---------------------------
(***************************************************************************)
(* What a pick promises, for any number of goroutines, accounts and        *)
(* conversations.  The invariant speaks of one pick at a time: how its     *)
(* local variables relate to what has been true of the shared state ever   *)
(* since it began.  A step of anybody else can only shorten that history   *)
(* (OthersStep), so that each promise is kept by the pick's own steps.     *)
(*                                                                         *)
(* The second part is about the sticky map those picks share, on its own:  *)
(* its three structures agree (MapInv), and to its callers it is the map   *)
(* of RecencyMap, which is what the Scheduler module has for it.           *)
(***************************************************************************)
EXTENDS Scheduler, StickyMap, FiniteSetTheorems, SequenceTheorems, TLAPS

Filtering == {"cooling", "exhausted"}

\* The local variables of a pick fit together.
LocalInv(r) ==
  /\ r.todo \subseteq r.own /\ r.eligible \subseteq r.own /\ r.weighed \subseteq r.eligible
  /\ r.at = "exhausted" => r.current \in r.own
  /\ r.at = "weighing" => r.todo \subseteq r.eligible /\ r.eligible # {}
  /\ r.at = "sticky" => r.todo = r.eligible /\ r.eligible # {}
  /\ r.at \in {"sticky", "binding"} => r.key # NoKey
  /\ r.at \in {"idle", "sticky", "weighing"} \union Filtering => r.chosen = None
  /\ r.at = "binding" => r.chosen \in r.eligible
  /\ r.at = "answered" /\ r.chosen # None => r.chosen \in r.eligible
  /\ r.at = "answered" /\ r.chosen = None => r.eligible = {}
  /\ r.at \in Filtering => r.weighed = {}

\* The candidates a pick has not turned down.
Left(r) ==
  IF r.at = "cooling" THEN r.todo \union r.eligible
  ELSE IF r.at = "exhausted" THEN r.todo \union r.eligible \union {r.current}
  ELSE r.eligible

\* A candidate that was usable all the time is not turned down.
ReadyInv(p) ==
  /\ \A a \in ready[p] : Usable(a)
  /\ picker[p].at # "idle" => ready[p] \subseteq Left(picker[p])

\* An account that was unusable all the time, for one reason, is not found eligible.
AwayInv(p) ==
  /\ away[p] \subseteq Unusable
  /\ \A a \in picker[p].eligible, r \in {"cooling", "exhausted"} : <<a, r>> \notin away[p]
  /\ picker[p].at = "exhausted" => <<picker[p].current, "cooling">> \notin away[p]

\* The account a request's key was bound to all the time, if usable, becomes the answer.
BoundInv(p) ==
  bound[p] # None =>
    /\ picker[p].key # NoKey
    /\ Usable(bound[p])
    /\ picker[p].at \in Filtering \union {"sticky"} =>
         bound[p] \in Left(picker[p]) /\ BoundTo(picker[p].key) = bound[p]
    /\ picker[p].at # "weighing"
    /\ picker[p].at \in {"binding", "answered"} => picker[p].chosen = bound[p]

\* What is weighed had a fresh snapshot, and nothing is left out that had one all the time; the
\* answer to a request without a key is weighed or one of the highest priority.
WeighInv(p) ==
  /\ \A a \in Accounts : Fresh(a) => a \in glimpsed[p]
  /\ \A a \in measured[p] : Fresh(a)
  /\ picker[p].at # "idle" => picker[p].weighed \subseteq glimpsed[p]
  /\ picker[p].at = "weighing" =>
       \A a \in picker[p].eligible \ picker[p].todo : a \in measured[p] => a \in picker[p].weighed
  /\ picker[p].at = "answered" /\ picker[p].chosen # None /\ picker[p].key = NoKey =>
       \/ picker[p].chosen \in picker[p].weighed
       \/ \A a \in picker[p].eligible :
            a \notin measured[p] /\ Priority[a] <= Priority[picker[p].chosen]

PickInv(p) ==
  LocalInv(picker[p]) /\ ReadyInv(p) /\ AwayInv(p) /\ BoundInv(p) /\ WeighInv(p)

Inv == TypeOK /\ \A p \in Pickers : PickInv(p)

-----------------------------------------------------------------------------
(* The map of bindings *)

Bindings == [key : Keys, val : Accounts]

\* A map without one of its keys is one binding shorter, if the key was bound.
LEMMA WithoutProperties ==
  ASSUME NEW r \in Seq(Bindings), NEW k
  PROVE  /\ M!Without(r, k) \in Seq(Bindings)
         /\ Len(M!Without(r, k)) = Len(r) - (IF k \in M!KeysOf(r) THEN 1 ELSE 0)
<1>1. CASE k \in M!KeysOf(r)
  <2> DEFINE i == M!Place(r, k)
             front == SubSeq(r, 1, i - 1)
             back == SubSeq(r, i + 1, Len(r))
  <2>1. i \in 1..Len(r) /\ Len(r) \in Nat
    BY <1>1 DEF M!KeysOf, M!Place
  <2>2. M!Without(r, k) = front \o back
    BY <1>1 DEF M!Without, M!RemoveAt
  <2> HIDE DEF i
  <2>3. front \in Seq(Bindings) /\ Len(front) = i - 1
    BY <2>1, SubSeqProperties
  <2>4. back \in Seq(Bindings) /\ Len(back) = Len(r) - i
    BY <2>1, SubSeqProperties
  <2> HIDE DEF front, back
  <2>5. front \o back \in Seq(Bindings) /\ Len(front \o back) = Len(front) + Len(back)
    BY <2>3, <2>4, ConcatProperties
  <2> QED
    BY <1>1, <2>1, <2>2, <2>3, <2>4, <2>5
<1>2. CASE k \notin M!KeysOf(r)
  BY <1>2 DEF M!Without
<1> QED
  BY <1>1, <1>2

\* The account a bound key stands for; a key that is not bound stands for none.
LEMMA BoundToType ==
  ASSUME sticky \in Seq(Bindings), NEW k
  PROVE  BoundTo(k) \in Accounts \union {None} /\ (BoundTo(k) # None => k \in Keys)
<1>1. CASE k \in M!KeysOf(sticky)
  <2>1. M!Place(sticky, k) \in DOMAIN sticky /\ sticky[M!Place(sticky, k)].key = k
    BY <1>1 DEF M!KeysOf, M!Place
  <2>2. sticky[M!Place(sticky, k)] \in Bindings
    BY <2>1
  <2> QED
    BY <1>1, <2>1, <2>2 DEF BoundTo, M!ValueOf, Bindings
<1>2. CASE k \notin M!KeysOf(sticky)
  BY <1>2 DEF BoundTo
<1> QED
  BY <1>1, <1>2

\* A lookup keeps the map one of at most StickyMax bindings.
LEMMA TouchType ==
  ASSUME sticky \in Seq(Bindings), Len(sticky) <= StickyMax, NEW k
  PROVE  M!Touch(sticky, k) \in Seq(Bindings) /\ Len(M!Touch(sticky, k)) <= StickyMax
<1>1. CASE k \in M!KeysOf(sticky)
  <2> DEFINE w == M!Without(sticky, k)
             b == M!Binding(k, M!ValueOf(sticky, k))
  <2>1. BoundTo(k) = M!ValueOf(sticky, k) /\ k \in Keys /\ M!ValueOf(sticky, k) \in Accounts
    <3>1. M!Place(sticky, k) \in DOMAIN sticky /\ sticky[M!Place(sticky, k)].key = k
      BY <1>1 DEF M!KeysOf, M!Place
    <3>2. sticky[M!Place(sticky, k)] \in Bindings
      BY <3>1
    <3> QED
      BY <1>1, <3>1, <3>2 DEF BoundTo, M!ValueOf, Bindings
  <2>2. b \in Bindings
    BY <2>1 DEF M!Binding, Bindings
  <2>3. w \in Seq(Bindings) /\ Len(w) = Len(sticky) - 1
    BY <1>1, WithoutProperties
  <2>4. M!Touch(sticky, k) = Append(w, b)
    BY <1>1 DEF M!Touch
  <2> HIDE DEF w, b
  <2>5. Append(w, b) \in Seq(Bindings) /\ Len(Append(w, b)) = Len(w) + 1
    BY <2>2, <2>3
  <2> QED
    BY <2>3, <2>4, <2>5
<1>2. CASE k \notin M!KeysOf(sticky)
  BY <1>2 DEF M!Touch
<1> QED
  BY <1>1, <1>2

\* So does a new binding, which pushes out the oldest one of a full map.
LEMMA BindType ==
  ASSUME sticky \in Seq(Bindings), Len(sticky) <= StickyMax, NEW k \in Keys, NEW a \in Accounts
  PROVE  M!Bind(sticky, k, a) \in Seq(Bindings) /\ Len(M!Bind(sticky, k, a)) <= StickyMax
<1> DEFINE b == M!Binding(k, a)
<1>1. b \in Bindings
  BY DEF M!Binding, Bindings
<1>2. StickyMax \in Nat \ {0} /\ Len(sticky) \in Nat
  BY SchedulerAssumption
<1> HIDE DEF b
<1>3. CASE k \notin M!KeysOf(sticky) /\ Len(sticky) = StickyMax
  <2>1. sticky # <<>>
    BY <1>2, <1>3
  <2>2. Tail(sticky) \in Seq(Bindings) /\ Len(Tail(sticky)) = Len(sticky) - 1
    BY <2>1, HeadTailProperties
  <2>3. M!Bind(sticky, k, a) = Append(Tail(sticky), b)
    BY <1>3 DEF M!Bind, b
  <2> QED
    BY <1>1, <1>2, <2>2, <2>3
<1>4. CASE ~(k \notin M!KeysOf(sticky) /\ Len(sticky) = StickyMax)
  <2> DEFINE w == M!Without(sticky, k)
  <2>1. M!Bind(sticky, k, a) = Append(w, b)
    BY <1>4 DEF M!Bind, b
  <2>2. w \in Seq(Bindings) /\ Len(w) + 1 <= StickyMax
    BY <1>2, <1>4, WithoutProperties
  <2> HIDE DEF w
  <2>3. Append(w, b) \in Seq(Bindings) /\ Len(Append(w, b)) = Len(w) + 1
    BY <1>1, <2>2
  <2> QED
    BY <2>1, <2>2, <2>3
<1> QED
  BY <1>3, <1>4

-----------------------------------------------------------------------------
(* Steps *)

\* What a step leaves of the history of a pick that was under way.
LEMMA HistoryStep ==
  ASSUME TypeOK, Observed, NEW p \in Pickers
  PROVE  /\ away'[p] = away[p] \intersect Unusable'
         /\ ready'[p] = {a \in ready[p] : Usable(a)'}
         /\ bound'[p] # None =>
              /\ bound'[p] = bound[p]
              /\ \E a \in Accounts :
                   /\ a = bound[p]
                   /\ Usable(a)'
                   /\ \/ BoundTo(picker[p].key)' = a
                      \/ picker[p].at = "binding" /\ picker'[p].at = "answered"
         /\ glimpsed'[p] = glimpsed[p] \union {a \in Accounts : Fresh(a)'}
         /\ measured'[p] = {a \in measured[p] : Fresh(a)'}
<1>1. away'[p] = away[p] \intersect Unusable' /\ ready'[p] = {a \in ready[p] : Usable(a)'}
  BY DEF Observed
<1>2. bound'[p] = IF \E a \in Accounts : /\ a = bound[p]
                                        /\ Usable(a)'
                                        /\ \/ BoundTo(picker[p].key)' = a
                                           \/ picker[p].at = "binding" /\ picker'[p].at = "answered"
                 THEN bound[p] ELSE None
  BY DEF Observed
<1>3. /\ glimpsed'[p] = glimpsed[p] \union {a \in Accounts : Fresh(a)'}
      /\ measured'[p] = {a \in measured[p] : Fresh(a)'}
  BY DEF Observed
<1> QED
  BY <1>1, <1>2, <1>3

\* A step that leaves a pick's own variables alone keeps what is known of it.
LEMMA OthersStep ==
  ASSUME TypeOK, Observed, NEW p \in Pickers, PickInv(p), picker'[p] = picker[p]
  PROVE  PickInv(p)'
<1>1. /\ away'[p] = away[p] \intersect Unusable'
      /\ ready'[p] = {a \in ready[p] : Usable(a)'}
      /\ bound'[p] # None =>
           /\ bound'[p] = bound[p]
           /\ \E a \in Accounts :
                /\ a = bound[p]
                /\ Usable(a)'
                /\ \/ BoundTo(picker[p].key)' = a
                   \/ picker[p].at = "binding" /\ picker'[p].at = "answered"
      /\ glimpsed'[p] = glimpsed[p] \union {a \in Accounts : Fresh(a)'}
      /\ measured'[p] = {a \in measured[p] : Fresh(a)'}
  BY HistoryStep
<1>2. LocalInv(picker[p])'
  BY DEF PickInv, LocalInv
<1>3. ReadyInv(p)'
  BY <1>1 DEF PickInv, ReadyInv, Left
<1>4. AwayInv(p)'
  BY <1>1 DEF PickInv, AwayInv
<1>5. BoundInv(p)'
  BY <1>1 DEF PickInv, BoundInv, Left
<1>6. WeighInv(p)'
  BY <1>1 DEF PickInv, WeighInv
<1> QED
  BY <1>2, <1>3, <1>4, <1>5, <1>6 DEF PickInv

-----------------------------------------------------------------------------
(* Types *)

HistoryType ==
  /\ away \in [Pickers -> SUBSET (Accounts \X {"cooling", "exhausted"})]
  /\ ready \in [Pickers -> SUBSET Accounts]
  /\ bound \in [Pickers -> Accounts \union {None}]
  /\ glimpsed \in [Pickers -> SUBSET Accounts]
  /\ measured \in [Pickers -> SUBSET Accounts]

SharedType ==
  /\ now \in 0..MaxClock
  /\ DOMAIN quota \subseteq Accounts /\ DOMAIN cooldown \subseteq Accounts
  /\ \A a \in DOMAIN quota : quota[a] \in [exhausted : BOOLEAN, obtained : 0..MaxClock]
  /\ \A a \in DOMAIN cooldown : cooldown[a] \in Nat
  /\ sticky \in Seq(Bindings) /\ Len(sticky) <= StickyMax

\* The type invariant in parts.
LEMMA TypeParts ==
  TypeOK <=> /\ SharedType /\ HistoryType
             /\ picks \in 0..MaxPicks /\ notes \in 0..MaxNotes
             /\ picker \in [Pickers -> PickState]
BY DEF TypeOK, SharedType, HistoryType, Bindings

\* The history keeps its type.
LEMMA HistoryTypeStep == HistoryType /\ Observed => HistoryType'
<1> SUFFICES ASSUME HistoryType, Observed PROVE HistoryType'
  OBVIOUS
<1>1. away' \in [Pickers -> SUBSET (Accounts \X {"cooling", "exhausted"})]
  BY DEF HistoryType, Observed
<1>2. ready' \in [Pickers -> SUBSET Accounts]
  BY DEF HistoryType, Observed
<1>3. bound' \in [Pickers -> Accounts \union {None}]
  BY DEF HistoryType, Observed
<1>4. glimpsed' \in [Pickers -> SUBSET Accounts] /\ measured' \in [Pickers -> SUBSET Accounts]
  BY DEF HistoryType, Observed
<1> QED
  BY <1>1, <1>2, <1>3, <1>4 DEF HistoryType

\* AfterFilter only moves a pick on.
LEMMA AfterFilterProperties ==
  ASSUME NEW r \in PickState
  PROVE  /\ AfterFilter(r) \in PickState
         /\ AfterFilter(r).key = r.key /\ AfterFilter(r).own = r.own
         /\ AfterFilter(r).eligible = r.eligible /\ AfterFilter(r).weighed = r.weighed
         /\ AfterFilter(r).chosen = r.chosen
         /\ r.todo # {} => AfterFilter(r).at = "cooling" /\ AfterFilter(r).todo = r.todo
         /\ r.todo = {} /\ r.eligible = {} => AfterFilter(r).at = "answered"
         /\ r.todo = {} /\ r.eligible # {} =>
              /\ AfterFilter(r).at = (IF r.key = NoKey THEN "weighing" ELSE "sticky")
              /\ AfterFilter(r).todo = r.eligible
         /\ AfterFilter(r).todo \in {r.todo, r.eligible}
BY DEF AfterFilter, PickState

\* The first state is well typed.
LEMMA TypeInit == Init => TypeOK
<1> SUFFICES ASSUME Init PROVE TypeOK
  OBVIOUS
<1> USE SchedulerAssumption DEF Init
<1>1. SharedType
  <2>1. sticky \in Seq(Bindings) /\ Len(sticky) = 0
    OBVIOUS
  <2> QED
    BY <2>1 DEF SharedType
<1>2. HistoryType
  BY DEF HistoryType
<1>3. Idle \in PickState
  BY DEF Idle, PickState
<1> QED
  BY <1>1, <1>2, <1>3, TypeParts

\* Every step keeps the types.
LEMMA TypeStep == Inv /\ [Next]_vars => TypeOK'
<1> SUFFICES ASSUME TypeOK, \A p \in Pickers : LocalInv(picker[p]), [Next]_vars PROVE TypeOK'
  BY DEF Inv, PickInv
<1> USE SchedulerAssumption
<1>1. /\ SharedType /\ HistoryType
      /\ picks \in 0..MaxPicks /\ notes \in 0..MaxNotes
      /\ picker \in [Pickers -> PickState]
  BY TypeParts
<1> DEFINE Typed == /\ SharedType' /\ HistoryType'
                    /\ picks' \in 0..MaxPicks /\ notes' \in 0..MaxNotes
                    /\ picker' \in [Pickers -> PickState]
<1>2. SUFFICES Typed
  BY DEF TypeOK, SharedType, HistoryType, Bindings
<1>3. UNCHANGED shared => SharedType'
  BY <1>1 DEF shared, SharedType
<1>4. Observed => HistoryType'
  BY <1>1, HistoryTypeStep
<1>5. ASSUME NEW p \in Pickers, NEW r \in PickState, picker' = [picker EXCEPT ![p] = r]
      PROVE  picker' \in [Pickers -> PickState]
  BY <1>1, <1>5
<1>6. \A p \in Pickers : picker[p] \in PickState
  BY <1>1
<1>7. ASSUME NEW p \in Pickers, NEW candidates \in CandidateSets,
             NEW key \in Keys \union {NoKey}, Begin(p, candidates, key)
      PROVE  Typed
  <2> DEFINE own == candidates \intersect Accounts
             r == [Idle EXCEPT !.at = (IF own = {} THEN "answered" ELSE "cooling"),
                               !.key = key, !.own = own, !.todo = own]
  <2>1. r \in PickState
    BY DEF Idle, PickState
  <2>2. picker' = [picker EXCEPT ![p] = r] /\ picks' = picks + 1 /\ picks < MaxPicks
        /\ ObservedFromNow(p, own, key) /\ UNCHANGED <<shared, notes>>
    BY <1>7 DEF Begin
  <2> HIDE DEF r
  <2>3. HistoryType'
    <3>1. away' \in [Pickers -> SUBSET (Accounts \X {"cooling", "exhausted"})]
      BY <1>1, <2>2 DEF ObservedFromNow, HistoryType, Unusable
    <3>2. ready' \in [Pickers -> SUBSET Accounts]
      BY <1>1, <2>2 DEF ObservedFromNow, HistoryType
    <3>3. bound' \in [Pickers -> Accounts \union {None}]
      BY <1>1, <2>2 DEF ObservedFromNow, HistoryType
    <3>4. glimpsed' \in [Pickers -> SUBSET Accounts] /\ measured' \in [Pickers -> SUBSET Accounts]
      BY <1>1, <2>2 DEF ObservedFromNow, HistoryType
    <3> QED
      BY <3>1, <3>2, <3>3, <3>4 DEF HistoryType
  <2> QED
    BY <1>1, <1>3, <1>5, <2>1, <2>2, <2>3
<1>8. ASSUME NEW p \in Pickers, NEW a \in Accounts, CheckCooling(p, a)
      PROVE  Typed
  <2> DEFINE r == [picker[p] EXCEPT !.todo = @ \ {a}]
             s == [r EXCEPT !.at = "exhausted", !.current = a]
  <2>0. picker[p] \in PickState
    BY <1>6
  <2>1. r \in PickState
    BY <2>0 DEF PickState
  <2> HIDE DEF r
  <2>2. s \in PickState /\ AfterFilter(r) \in PickState
    BY <2>1, AfterFilterProperties DEF PickState
  <2> USE DEF r
  <2>3. /\ picker' = [picker EXCEPT ![p] = IF IsCoolingDown(a) THEN AfterFilter(r) ELSE s]
        /\ UNCHANGED <<shared, picks, notes>> /\ Observed
    BY <1>8 DEF CheckCooling
  <2> HIDE DEF r, s
  <2> QED
    BY <1>1, <1>3, <1>4, <1>5, <2>1, <2>2, <2>3
<1>9. ASSUME NEW p \in Pickers, CheckExhausted(p)
      PROVE  Typed
  <2> DEFINE r == picker[p]
             s == [r EXCEPT !.eligible = @ \union {r.current}]
  <2>0. r \in PickState /\ r.at = "exhausted" /\ r.current \in r.own
    BY <1>6, <1>9 DEF CheckExhausted, LocalInv
  <2>1. /\ picker' = [picker EXCEPT ![p] = IF IsExhausted(r.current) THEN AfterFilter(r)
                                          ELSE AfterFilter(s)]
        /\ UNCHANGED <<shared, picks, notes>> /\ Observed
    BY <1>9 DEF CheckExhausted
  <2> HIDE DEF r
  <2>2. s \in PickState
    BY <2>0 DEF PickState
  <2> HIDE DEF s
  <2>3. AfterFilter(r) \in PickState /\ AfterFilter(s) \in PickState
    BY <2>0, <2>2, AfterFilterProperties
  <2> QED
    BY <1>1, <1>3, <1>4, <1>5, <2>1, <2>3
<1>10. ASSUME NEW p \in Pickers, StickyGet(p)
      PROVE  Typed
  <2> DEFINE r == picker[p]
             target == BoundTo(r.key)
             s == [r EXCEPT !.at = "binding", !.chosen = target]
             t == [r EXCEPT !.at = "weighing"]
  <2>0. r \in PickState
    BY <1>6
  <2>1. /\ picker' = [picker EXCEPT ![p] = IF target \in r.eligible THEN s ELSE t]
        /\ sticky' = M!Touch(sticky, r.key)
        /\ UNCHANGED <<now, quota, cooldown, picks, notes>> /\ Observed
    BY <1>10 DEF StickyGet
  <2>2. SharedType'
    BY <1>1, <2>1, TouchType DEF SharedType
  <2> HIDE DEF r
  <2>3. target \in Accounts \union {None}
    BY <1>1, BoundToType DEF SharedType
  <2> HIDE DEF target
  <2>4. s \in PickState /\ t \in PickState
    BY <2>0, <2>3 DEF PickState
  <2> HIDE DEF s, t
  <2> QED
    BY <1>1, <1>4, <1>5, <2>1, <2>2, <2>4
<1>11. ASSUME NEW p \in Pickers, NEW a \in Accounts, Weigh(p, a)
      PROVE  Typed
  <2> DEFINE r == [picker[p] EXCEPT !.todo = @ \ {a},
                                    !.weighed = IF Fresh(a) THEN @ \union {a} ELSE @]
  <2>0. picker[p] \in PickState
    BY <1>6
  <2>1. r \in PickState
    BY <2>0 DEF PickState
  <2>2. /\ \/ picker' = [picker EXCEPT ![p] = r]
           \/ \E c \in Outcomes(r) :
                picker' = [picker EXCEPT ![p] =
                  [r EXCEPT !.at = (IF r.key = NoKey THEN "answered" ELSE "binding"),
                            !.chosen = c]]
        /\ UNCHANGED <<shared, picks, notes>> /\ Observed
    BY <1>11 DEF Weigh
  <2> HIDE DEF r
  <2>3. Outcomes(r) \subseteq Accounts
    BY <2>1 DEF Outcomes, PickState
  <2>4. ASSUME NEW c \in Outcomes(r)
        PROVE  [r EXCEPT !.at = (IF r.key = NoKey THEN "answered" ELSE "binding"), !.chosen = c]
                 \in PickState
    BY <2>1, <2>3 DEF PickState
  <2>5. picker' \in [Pickers -> PickState]
    <3>1. \E w \in PickState : picker' = [picker EXCEPT ![p] = w]
      BY <2>1, <2>2, <2>4
    <3> QED
      BY <1>5, <3>1
  <2> QED
    BY <1>1, <1>3, <1>4, <2>2, <2>5
<1>12. ASSUME NEW p \in Pickers, StickySet(p)
      PROVE  Typed
  <2> DEFINE r == picker[p]
             s == [r EXCEPT !.at = "answered"]
  <2>0. r \in PickState /\ r.at = "binding" /\ r.chosen \in r.eligible /\ r.key # NoKey
    BY <1>6, <1>12 DEF StickySet, LocalInv
  <2>1. /\ picker' = [picker EXCEPT ![p] = s]
        /\ sticky' = M!Bind(sticky, r.key, r.chosen)
        /\ UNCHANGED <<now, quota, cooldown, picks, notes>> /\ Observed
    BY <1>12 DEF StickySet
  <2> HIDE DEF r
  <2>2. r.key \in Keys /\ r.chosen \in Accounts /\ s \in PickState
    BY <2>0 DEF PickState
  <2> HIDE DEF s
  <2>3. SharedType'
    BY <1>1, <2>1, <2>2, BindType DEF SharedType
  <2> QED
    BY <1>1, <1>4, <1>5, <2>1, <2>2, <2>3
<1>13. ASSUME NEW a \in Accounts, NEW e \in BOOLEAN, NoteQuotaSnapshot(a, e)
      PROVE  Typed
  <2>1. SharedType'
    BY <1>1, <1>13 DEF NoteQuotaSnapshot, SharedType, Put
  <2> QED
    BY <1>1, <1>4, <1>13, <2>1 DEF NoteQuotaSnapshot
<1>14. ASSUME NEW a \in Accounts, NEW t \in RetryAfters, NoteSchedulerFailure(a, t)
      PROVE  Typed
  <2>1. now + (IF t > 0 THEN t ELSE CooldownDefault) \in Nat
    BY <1>1 DEF SharedType
  <2>2. SharedType'
    BY <1>1, <1>14, <2>1 DEF NoteSchedulerFailure, SharedType, Put
  <2> QED
    BY <1>1, <1>4, <1>14, <2>2 DEF NoteSchedulerFailure
<1>15. CASE Tick
  <2>1. SharedType'
    BY <1>1, <1>15 DEF Tick, SharedType
  <2> QED
    BY <1>1, <1>4, <1>15, <2>1 DEF Tick
<1>16. CASE UNCHANGED vars
  <2>1. HistoryType'
    BY <1>1, <1>16 DEF vars, HistoryType
  <2> QED
    BY <1>1, <1>3, <1>16, <2>1 DEF vars, shared
<1> QED
  BY <1>7, <1>8, <1>9, <1>10, <1>11, <1>12, <1>13, <1>14, <1>15, <1>16 DEF Next, Step

-----------------------------------------------------------------------------
(* The steps of a pick *)

\* What a step of the pick itself, which leaves clock, snapshots and cooldowns alone, makes of
\* its history.
LEMMA OwnHistory ==
  ASSUME TypeOK, Observed, UNCHANGED <<now, quota, cooldown>>, NEW p \in Pickers, PickInv(p)
  PROVE  /\ away'[p] \subseteq away[p] /\ away'[p] \subseteq Unusable'
         /\ ready'[p] \subseteq ready[p] /\ \A a \in ready'[p] : Usable(a)'
         /\ bound'[p] # None =>
              /\ bound'[p] = bound[p]
              /\ Usable(bound[p])'
              /\ \/ BoundTo(picker[p].key)' = bound[p]
                 \/ picker[p].at = "binding" /\ picker'[p].at = "answered"
         /\ glimpsed'[p] = glimpsed[p] \union {a \in Accounts : Fresh(a)'}
         /\ measured'[p] = {a \in measured[p] : Fresh(a)'}
<1>1. /\ away'[p] = away[p] \intersect Unusable'
      /\ ready'[p] = {a \in ready[p] : Usable(a)'}
      /\ bound'[p] # None =>
           /\ bound'[p] = bound[p]
           /\ \E a \in Accounts :
                /\ a = bound[p]
                /\ Usable(a)'
                /\ \/ BoundTo(picker[p].key)' = a
                   \/ picker[p].at = "binding" /\ picker'[p].at = "answered"
      /\ glimpsed'[p] = glimpsed[p] \union {a \in Accounts : Fresh(a)'}
      /\ measured'[p] = {a \in measured[p] : Fresh(a)'}
  BY HistoryStep
<1> QED
  BY <1>1

\* A pick that goes on with what is left of its candidates, those turned down being unusable.
LEMMA AfterFilterStep ==
  ASSUME TypeOK, Observed, UNCHANGED shared, NEW p \in Pickers, PickInv(p),
         picker[p].at \in Filtering,
         NEW r \in PickState,
         r.key = picker[p].key, r.chosen = None, r.weighed = {},
         r.todo \subseteq r.own, r.eligible \subseteq r.own,
         \A a \in Accounts :
           Usable(a) /\ a \in Left(picker[p]) => a \in r.todo \union r.eligible,
         \A a \in r.eligible, c \in {"cooling", "exhausted"} : <<a, c>> \notin away[p],
         picker'[p] = AfterFilter(r)
  PROVE  PickInv(p)'
<1> DEFINE n == AfterFilter(r)
<1>1. /\ n \in PickState
      /\ n.key = r.key /\ n.own = r.own /\ n.eligible = r.eligible
      /\ n.weighed = r.weighed /\ n.chosen = r.chosen
      /\ r.todo # {} => n.at = "cooling" /\ n.todo = r.todo
      /\ r.todo = {} /\ r.eligible = {} => n.at = "answered"
      /\ r.todo = {} /\ r.eligible # {} =>
           /\ n.at = (IF r.key = NoKey THEN "weighing" ELSE "sticky")
           /\ n.todo = r.eligible
      /\ n.todo \in {r.todo, r.eligible}
  BY AfterFilterProperties
<1>2. picker'[p] = n
  OBVIOUS
<1> HIDE DEF n
<1>3. /\ away'[p] \subseteq away[p] /\ away'[p] \subseteq Unusable'
      /\ ready'[p] \subseteq ready[p] /\ \A a \in ready'[p] : Usable(a)'
      /\ bound'[p] # None =>
           /\ bound'[p] = bound[p]
           /\ Usable(bound[p])'
           /\ \/ BoundTo(picker[p].key)' = bound[p]
              \/ picker[p].at = "binding" /\ picker'[p].at = "answered"
      /\ glimpsed'[p] = glimpsed[p] \union {a \in Accounts : Fresh(a)'}
      /\ measured'[p] = {a \in measured[p] : Fresh(a)'}
  BY OwnHistory DEF shared
<1>4. Left(n) = r.todo \union r.eligible
  BY <1>1 DEF Left
<1>5. ready[p] \subseteq Accounts /\ bound[p] \in Accounts \union {None}
  BY DEF TypeOK
<1>6. LocalInv(n)
  BY <1>1 DEF LocalInv, Filtering
<1>7. ReadyInv(p)'
  <2>1. ready[p] \subseteq Left(n)
    BY <1>4, <1>5 DEF PickInv, ReadyInv, Filtering
  <2> QED
    BY <1>2, <1>3, <2>1 DEF ReadyInv, Left
<1>8. AwayInv(p)'
  <2>1. n.at # "exhausted"
    BY <1>1
  <2> QED
    BY <1>1, <1>2, <1>3, <2>1 DEF AwayInv
<1>9. BoundInv(p)'
  <2> SUFFICES ASSUME bound'[p] # None PROVE BoundInv(p)'
    BY DEF BoundInv
  <2>1. /\ bound'[p] = bound[p] /\ Usable(bound[p])'
        /\ bound[p] \in Left(picker[p]) /\ BoundTo(picker[p].key) = bound[p]
        /\ picker[p].key # NoKey /\ Usable(bound[p])
    BY <1>3 DEF PickInv, BoundInv
  <2>2. bound[p] \in Left(n)
    BY <1>3, <1>4, <1>5, <2>1
  <2>3. n.at \in {"cooling", "sticky"}
    BY <1>1, <2>1, <2>2, <1>4
  <2>4. BoundTo(picker[p].key)' = bound[p]
    BY <1>3 DEF Filtering
  <2> QED
    BY <1>1, <1>2, <2>1, <2>2, <2>3, <2>4 DEF BoundInv, Left
<1>10. WeighInv(p)'
  <2>1. ~(n.at = "answered" /\ n.chosen # None)
    BY <1>1
  <2> QED
    BY <1>1, <1>2, <1>3, <2>1 DEF WeighInv
<1> QED
  BY <1>2, <1>6, <1>7, <1>8, <1>9, <1>10 DEF PickInv, LocalInv

\* isCoolingDown turns down what is unusable; what it lets pass was not cooling all the time.
LEMMA CheckCoolingStep ==
  ASSUME TypeOK, NEW p \in Pickers, PickInv(p), NEW a \in Accounts, CheckCooling(p, a)
  PROVE  PickInv(p)'
<1> DEFINE r == [picker[p] EXCEPT !.todo = @ \ {a}]
           n == [r EXCEPT !.at = "exhausted", !.current = a]
<1>1. /\ picker[p] \in PickState /\ picker[p].at = "cooling" /\ a \in picker[p].todo
      /\ picker'[p] = IF IsCoolingDown(a) THEN AfterFilter(r) ELSE n
      /\ UNCHANGED shared /\ Observed
  BY DEF CheckCooling, TypeOK
<1>2. /\ r \in PickState /\ r.todo = picker[p].todo \ {a}
      /\ r.key = picker[p].key /\ r.own = picker[p].own /\ r.eligible = picker[p].eligible
      /\ r.weighed = picker[p].weighed /\ r.chosen = picker[p].chosen
  BY <1>1 DEF PickState
<1>3. /\ LocalInv(picker[p]) /\ ReadyInv(p) /\ AwayInv(p) /\ BoundInv(p) /\ WeighInv(p)
  BY DEF PickInv
<1>4. CASE IsCoolingDown(a)
  <2>1. \A b \in Accounts :
          Usable(b) /\ b \in Left(picker[p]) => b \in r.todo \union r.eligible
    BY <1>1, <1>2, <1>4 DEF Left, Usable
  <2>2. picker'[p] = AfterFilter(r)
    BY <1>1, <1>4
  <2>3. /\ r.chosen = None /\ r.weighed = {} /\ r.todo \subseteq r.own /\ r.eligible \subseteq r.own
        /\ picker[p].at \in Filtering
        /\ \A b \in r.eligible, c \in {"cooling", "exhausted"} : <<b, c>> \notin away[p]
    BY <1>1, <1>2, <1>3 DEF LocalInv, AwayInv, Filtering
  <2> HIDE DEF r
  <2> QED
    BY <1>1, <1>2, <2>1, <2>2, <2>3, AfterFilterStep
<1>5. CASE ~IsCoolingDown(a)
  <2>1. /\ n.at = "exhausted" /\ n.current = a /\ n.todo = picker[p].todo \ {a}
        /\ n.key = picker[p].key /\ n.own = picker[p].own /\ n.eligible = picker[p].eligible
        /\ n.weighed = picker[p].weighed /\ n.chosen = picker[p].chosen
        /\ picker'[p] = n
    BY <1>1, <1>2, <1>5 DEF PickState
  <2> HIDE DEF n, r
  <2>2. /\ away'[p] \subseteq away[p] /\ away'[p] \subseteq Unusable'
        /\ ready'[p] \subseteq ready[p] /\ \A b \in ready'[p] : Usable(b)'
        /\ bound'[p] # None =>
             /\ bound'[p] = bound[p]
             /\ Usable(bound[p])'
             /\ \/ BoundTo(picker[p].key)' = bound[p]
                \/ picker[p].at = "binding" /\ picker'[p].at = "answered"
        /\ glimpsed'[p] = glimpsed[p] \union {b \in Accounts : Fresh(b)'}
        /\ measured'[p] = {b \in measured[p] : Fresh(b)'}
    BY <1>1, OwnHistory DEF shared
  <2>3. LocalInv(n)
    BY <1>1, <1>3, <2>1 DEF LocalInv, Filtering
  <2>4. Left(n) = Left(picker[p])
    BY <1>1, <2>1 DEF Left
  <2>5. ReadyInv(p)'
    BY <1>1, <1>3, <2>1, <2>2, <2>4 DEF ReadyInv, Left
  <2>6. AwayInv(p)'
    <3>1. <<a, "cooling">> \notin away[p]
      BY <1>3, <1>5 DEF AwayInv, Unusable
    <3> QED
      BY <1>3, <2>1, <2>2, <3>1 DEF AwayInv
  <2>7. BoundInv(p)'
    BY <1>1, <1>3, <2>1, <2>2, <2>4 DEF BoundInv, Left, Filtering
  <2>8. WeighInv(p)'
    BY <1>1, <1>3, <2>1, <2>2 DEF WeighInv
  <2> QED
    BY <2>1, <2>3, <2>5, <2>6, <2>7, <2>8 DEF PickInv, LocalInv
<1> QED
  BY <1>4, <1>5

\* isExhausted turns down what is unusable; what it lets pass was not exhausted all the time.
LEMMA CheckExhaustedStep ==
  ASSUME TypeOK, NEW p \in Pickers, PickInv(p), CheckExhausted(p)
  PROVE  PickInv(p)'
<1> DEFINE a == picker[p].current
           r == IF IsExhausted(a) THEN picker[p]
                ELSE [picker[p] EXCEPT !.eligible = @ \union {picker[p].current}]
<1>1. /\ picker[p] \in PickState /\ picker[p].at = "exhausted"
      /\ picker'[p] = AfterFilter(r)
      /\ UNCHANGED shared /\ Observed
  BY DEF CheckExhausted, TypeOK
<1>2. /\ LocalInv(picker[p]) /\ ReadyInv(p) /\ AwayInv(p) /\ BoundInv(p) /\ WeighInv(p)
  BY DEF PickInv
<1>3. a \in Accounts /\ a \in picker[p].own
  BY <1>1, <1>2 DEF LocalInv, PickState
<1>4. /\ r \in PickState /\ r.todo = picker[p].todo
      /\ r.key = picker[p].key /\ r.own = picker[p].own
      /\ r.eligible = (IF IsExhausted(a) THEN picker[p].eligible ELSE picker[p].eligible \union {a})
      /\ r.weighed = picker[p].weighed /\ r.chosen = picker[p].chosen
  BY <1>1, <1>3 DEF PickState
<1> HIDE DEF r
<1>5. \A b \in Accounts :
        Usable(b) /\ b \in Left(picker[p]) => b \in r.todo \union r.eligible
  BY <1>1, <1>4 DEF Left, Usable
<1>6. \A b \in r.eligible, c \in {"cooling", "exhausted"} : <<b, c>> \notin away[p]
  <2>1. ~IsExhausted(a) => <<a, "exhausted">> \notin away[p]
    BY <1>2 DEF AwayInv, Unusable
  <2>2. <<a, "cooling">> \notin away[p]
    BY <1>1, <1>2 DEF AwayInv
  <2>3. \A b \in picker[p].eligible, c \in {"cooling", "exhausted"} : <<b, c>> \notin away[p]
    BY <1>2 DEF AwayInv
  <2>4. \A b \in r.eligible : b \in picker[p].eligible \/ (b = a /\ ~IsExhausted(a))
    BY <1>4
  <2> HIDE DEF a
  <2> QED
    BY <2>1, <2>2, <2>3, <2>4
<1>7. /\ r.chosen = None /\ r.weighed = {} /\ r.todo \subseteq r.own /\ r.eligible \subseteq r.own
      /\ picker[p].at \in Filtering
  BY <1>1, <1>2, <1>3, <1>4 DEF LocalInv, Filtering
<1> QED
  BY <1>1, <1>4, <1>5, <1>6, <1>7, AfterFilterStep

\* stickyGet ends a pick whose binding held all the time.
LEMMA StickyGetStep ==
  ASSUME TypeOK, NEW p \in Pickers, PickInv(p), StickyGet(p)
  PROVE  PickInv(p)'
<1> DEFINE r == picker[p]
           target == BoundTo(r.key)
           n == IF target \in r.eligible THEN [r EXCEPT !.at = "binding", !.chosen = target]
                ELSE [r EXCEPT !.at = "weighing"]
<1>1. /\ r \in PickState /\ r.at = "sticky" /\ picker'[p] = n
      /\ UNCHANGED <<now, quota, cooldown>> /\ Observed
  BY DEF StickyGet, TypeOK
<1>2. /\ n.key = r.key /\ n.own = r.own /\ n.todo = r.todo /\ n.eligible = r.eligible
      /\ n.weighed = r.weighed
      /\ n.at = (IF target \in r.eligible THEN "binding" ELSE "weighing")
      /\ n.chosen = (IF target \in r.eligible THEN target ELSE r.chosen)
  BY <1>1 DEF PickState
<1> HIDE DEF n
<1>3. /\ LocalInv(r) /\ ReadyInv(p) /\ AwayInv(p) /\ BoundInv(p) /\ WeighInv(p)
  BY DEF PickInv
<1>4. /\ away'[p] \subseteq away[p] /\ away'[p] \subseteq Unusable'
      /\ ready'[p] \subseteq ready[p] /\ \A b \in ready'[p] : Usable(b)'
      /\ bound'[p] # None =>
           /\ bound'[p] = bound[p]
           /\ Usable(bound[p])'
           /\ \/ BoundTo(picker[p].key)' = bound[p]
              \/ picker[p].at = "binding" /\ picker'[p].at = "answered"
      /\ glimpsed'[p] = glimpsed[p] \union {b \in Accounts : Fresh(b)'}
      /\ measured'[p] = {b \in measured[p] : Fresh(b)'}
  BY <1>1, OwnHistory
<1>5. LocalInv(n)
  BY <1>1, <1>2, <1>3, SchedulerAssumption DEF LocalInv, Filtering, PickState
<1>6. ReadyInv(p)'
  BY <1>1, <1>2, <1>3, <1>4 DEF ReadyInv, Left
<1>7. AwayInv(p)'
  BY <1>1, <1>2, <1>3, <1>4 DEF AwayInv
<1>8. BoundInv(p)'
  <2> SUFFICES ASSUME bound'[p] # None PROVE BoundInv(p)'
    BY DEF BoundInv
  <2>1. target = bound[p] /\ target \in r.eligible
    BY <1>1, <1>3, <1>4 DEF BoundInv, Left
  <2> HIDE DEF target
  <2> QED
    BY <1>1, <1>2, <1>3, <1>4, <2>1 DEF BoundInv, Filtering
<1>9. WeighInv(p)'
  BY <1>1, <1>2, <1>3, <1>4 DEF WeighInv, LocalInv
<1> QED
  BY <1>1, <1>5, <1>6, <1>7, <1>8, <1>9 DEF PickInv, LocalInv

\* The weighing ends with an eligible account, and with one of the highest priority if no
\* snapshot is fresh.
LEMMA WeighStep ==
  ASSUME TypeOK, NEW p \in Pickers, PickInv(p), NEW a \in Accounts, Weigh(p, a)
  PROVE  PickInv(p)'
<1> DEFINE r == [picker[p] EXCEPT !.todo = @ \ {a},
                                  !.weighed = IF Fresh(a) THEN @ \union {a} ELSE @]
           n == picker'[p]
<1>1. /\ picker[p] \in PickState /\ picker[p].at = "weighing" /\ a \in picker[p].todo
      /\ UNCHANGED shared /\ Observed
  BY DEF Weigh, TypeOK
<1>2. /\ r \in PickState /\ r.at = "weighing" /\ r.todo = picker[p].todo \ {a}
      /\ r.key = picker[p].key /\ r.own = picker[p].own /\ r.eligible = picker[p].eligible
      /\ r.weighed = (IF Fresh(a) THEN picker[p].weighed \union {a} ELSE picker[p].weighed)
      /\ r.chosen = picker[p].chosen
  BY <1>1 DEF PickState
<1>3. \/ n = r /\ r.todo # {}
      \/ r.todo = {} /\ \E c \in Outcomes(r) :
           n = [r EXCEPT !.at = (IF r.key = NoKey THEN "answered" ELSE "binding"), !.chosen = c]
  BY DEF Weigh, TypeOK
<1> HIDE DEF r
<1>4. /\ LocalInv(picker[p]) /\ ReadyInv(p) /\ AwayInv(p) /\ BoundInv(p) /\ WeighInv(p)
  BY DEF PickInv
<1>5. /\ away'[p] \subseteq away[p] /\ away'[p] \subseteq Unusable'
      /\ ready'[p] \subseteq ready[p] /\ \A b \in ready'[p] : Usable(b)'
      /\ bound'[p] # None =>
           /\ bound'[p] = bound[p]
           /\ Usable(bound[p])'
           /\ \/ BoundTo(picker[p].key)' = bound[p]
              \/ picker[p].at = "binding" /\ picker'[p].at = "answered"
      /\ glimpsed'[p] = glimpsed[p] \union {b \in Accounts : Fresh(b)'}
      /\ measured'[p] = {b \in measured[p] : Fresh(b)'}
  BY <1>1, OwnHistory DEF shared
<1>6. r.weighed \subseteq r.eligible
  BY <1>1, <1>2, <1>4 DEF LocalInv
<1> DEFINE Moved ==
      /\ n.key = r.key /\ n.own = r.own /\ n.todo = r.todo /\ n.eligible = r.eligible
      /\ n.weighed = r.weighed
      /\ \/ n.at = "weighing" /\ n.chosen = None
         \/ n.at = (IF r.key = NoKey THEN "answered" ELSE "binding") /\ n.chosen \in Outcomes(r)
<1>7. Moved
  <2>1. CASE n = r
    BY <1>1, <1>2, <1>4, <2>1 DEF LocalInv
  <2>2. ASSUME NEW c \in Outcomes(r),
               n = [r EXCEPT !.at = (IF r.key = NoKey THEN "answered" ELSE "binding"), !.chosen = c]
        PROVE  Moved
    BY <1>2, <2>2 DEF PickState
  <2> HIDE DEF Moved
  <2> QED
    BY <1>3, <2>1, <2>2, Zenon
<1>8. Outcomes(r) \subseteq r.eligible
  BY <1>6 DEF Outcomes
<1>9. None \notin r.eligible
  BY <1>2, SchedulerAssumption DEF PickState
<1> HIDE DEF n
<1>10. LocalInv(n)
  BY <1>1, <1>2, <1>4, <1>6, <1>7, <1>8, <1>9 DEF LocalInv, Filtering
<1>11. picker'[p] = n
  BY DEF n
<1>16. n.at # "weighing" => r.todo = {}
  BY <1>2, <1>3
<1>12. ReadyInv(p)'
  BY <1>1, <1>2, <1>4, <1>5, <1>7, <1>11 DEF ReadyInv, Left
<1>13. AwayInv(p)'
  BY <1>1, <1>2, <1>4, <1>5, <1>7, <1>11 DEF AwayInv
<1>14. BoundInv(p)'
  BY <1>1, <1>4, <1>5 DEF BoundInv
<1>15. WeighInv(p)'
  <2>1. /\ \A b \in Accounts : Fresh(b)' => b \in glimpsed'[p]
        /\ \A b \in measured'[p] : Fresh(b)' /\ b \in measured[p]
        /\ glimpsed[p] \subseteq glimpsed'[p]
    BY <1>5
  <2>2. n.weighed \subseteq glimpsed'[p]
    BY <1>1, <1>2, <1>4, <1>7, <2>1 DEF WeighInv
  <2>3. \A b \in r.eligible \ r.todo : b \in measured[p] => b \in r.weighed
    BY <1>1, <1>2, <1>4 DEF WeighInv
  <2>4. CASE n.at = "weighing"
    BY <1>7, <1>11, <2>1, <2>2, <2>3, <2>4 DEF WeighInv
  <2>5. CASE n.at # "weighing"
    <3>1. n.chosen \in Outcomes(r) /\ r.todo = {}
      BY <1>7, <1>16, <2>5
    <3>2. r.weighed # {} => n.chosen \in n.weighed
      BY <1>7, <3>1 DEF Outcomes
    <3>3. r.weighed = {} => \A b \in r.eligible : b \notin measured'[p] /\ Priority[b] <= Priority[n.chosen]
      <4>1. \A b \in r.eligible : Priority[b] \in Int
        BY <1>2, SchedulerAssumption DEF PickState
      <4>2. r.weighed = {} => n.chosen \in {c \in r.eligible : \A b \in r.eligible : Priority[c] >= Priority[b]}
        BY <3>1 DEF Outcomes
      <4> QED
        BY <2>1, <2>3, <3>1, <4>1, <4>2
    <3> QED
      BY <1>7, <1>11, <2>1, <2>2, <2>5, <3>2, <3>3 DEF WeighInv
  <2> QED
    BY <2>4, <2>5
<1> QED
  BY <1>10, <1>11, <1>12, <1>13, <1>14, <1>15 DEF PickInv, LocalInv

\* stickySet ends a pick; what it binds does not undo what the pick observed.
LEMMA StickySetStep ==
  ASSUME TypeOK, NEW p \in Pickers, PickInv(p), StickySet(p)
  PROVE  PickInv(p)'
<1> DEFINE r == picker[p]
           n == [r EXCEPT !.at = "answered"]
<1>1. /\ r \in PickState /\ r.at = "binding" /\ picker'[p] = n
      /\ UNCHANGED <<now, quota, cooldown>> /\ Observed
  BY DEF StickySet, TypeOK
<1>2. /\ n.at = "answered" /\ n.key = r.key /\ n.own = r.own /\ n.todo = r.todo
      /\ n.eligible = r.eligible /\ n.weighed = r.weighed /\ n.chosen = r.chosen
  BY <1>1 DEF PickState
<1> HIDE DEF n
<1>3. /\ LocalInv(r) /\ ReadyInv(p) /\ AwayInv(p) /\ BoundInv(p) /\ WeighInv(p)
  BY DEF PickInv
<1>4. /\ away'[p] \subseteq away[p] /\ away'[p] \subseteq Unusable'
      /\ ready'[p] \subseteq ready[p] /\ \A b \in ready'[p] : Usable(b)'
      /\ bound'[p] # None =>
           /\ bound'[p] = bound[p]
           /\ Usable(bound[p])'
           /\ \/ BoundTo(picker[p].key)' = bound[p]
              \/ picker[p].at = "binding" /\ picker'[p].at = "answered"
      /\ glimpsed'[p] = glimpsed[p] \union {b \in Accounts : Fresh(b)'}
      /\ measured'[p] = {b \in measured[p] : Fresh(b)'}
  BY <1>1, OwnHistory
<1>5. None \notin r.eligible
  BY <1>1, SchedulerAssumption DEF PickState
<1>6. LocalInv(n)
  BY <1>1, <1>2, <1>3, <1>5 DEF LocalInv, Filtering
<1>7. ReadyInv(p)' /\ AwayInv(p)'
  BY <1>1, <1>2, <1>3, <1>4 DEF ReadyInv, AwayInv, Left
<1>8. BoundInv(p)'
  BY <1>1, <1>2, <1>3, <1>4 DEF BoundInv, Filtering
<1>9. WeighInv(p)'
  BY <1>1, <1>2, <1>3, <1>4 DEF WeighInv, LocalInv
<1> QED
  BY <1>1, <1>6, <1>7, <1>8, <1>9 DEF PickInv, LocalInv

\* A pick begins with nothing turned down and with the history of this moment.
LEMMA BeginStep ==
  ASSUME TypeOK, NEW p \in Pickers, NEW candidates \in CandidateSets,
         NEW key \in Keys \union {NoKey}, Begin(p, candidates, key)
  PROVE  PickInv(p)'
<1> DEFINE own == candidates \intersect Accounts
           n == [Idle EXCEPT !.at = (IF own = {} THEN "answered" ELSE "cooling"),
                             !.key = key, !.own = own, !.todo = own]
           target == BoundTo(key)
<1>1. /\ n.at = (IF own = {} THEN "answered" ELSE "cooling") /\ n.key = key
      /\ n.own = own /\ n.todo = own /\ n.eligible = {} /\ n.weighed = {} /\ n.chosen = None
  BY DEF Idle
<1>2. picker'[p] = n /\ UNCHANGED shared /\ ObservedFromNow(p, own, key)
  BY DEF Begin, TypeOK
<1> HIDE DEF n
<1>3. /\ away'[p] = Unusable
      /\ ready'[p] = {a \in own : Usable(a)}
      /\ bound'[p] = IF target \in own /\ Usable(target) THEN target ELSE None
      /\ glimpsed'[p] = {a \in Accounts : Fresh(a)}
      /\ measured'[p] = {a \in Accounts : Fresh(a)}
  BY <1>2 DEF ObservedFromNow, TypeOK
<1>4. Unusable' = Unusable /\ \A a \in Accounts : (Usable(a)' <=> Usable(a)) /\ (Fresh(a)' <=> Fresh(a))
  BY <1>2 DEF shared, Unusable, Usable, IsCoolingDown, IsExhausted, Fresh
<1>5. LocalInv(n)
  BY <1>1 DEF LocalInv, Filtering
<1>6. ReadyInv(p)'
  BY <1>1, <1>2, <1>3, <1>4 DEF ReadyInv, Left
<1>7. AwayInv(p)'
  BY <1>1, <1>2, <1>3, <1>4 DEF AwayInv
<1>8. BoundInv(p)'
  <2> SUFFICES ASSUME bound'[p] # None PROVE BoundInv(p)'
    BY DEF BoundInv
  <2>1. PICK b \in Accounts : b = target /\ b \in own /\ Usable(b) /\ bound'[p] = b
    BY <1>3
  <2>2. Usable(b)'
    BY <1>4, <2>1
  <2>3. BoundTo(picker[p].key)' = b
    <3>1. picker'[p].key = key /\ sticky' = sticky
      BY <1>1, <1>2 DEF shared
    <3>2. BoundTo(key)' = BoundTo(key)
      BY <3>1 DEF BoundTo, M!KeysOf, M!ValueOf, M!Place
    <3>3. BoundTo(picker[p].key)' = BoundTo(key)'
      BY <3>1 DEF BoundTo
    <3> QED
      BY <2>1, <3>2, <3>3
  <2>4. key # NoKey /\ b # None
    BY <2>1, BoundToType, SchedulerAssumption DEF TypeOK, Bindings
  <2> HIDE DEF target, own
  <2> QED
    BY <1>1, <1>2, <2>1, <2>2, <2>3, <2>4 DEF BoundInv, Left, Filtering
<1>9. WeighInv(p)'
  BY <1>1, <1>2, <1>3, <1>4 DEF WeighInv
<1> QED
  BY <1>2, <1>5, <1>6, <1>7, <1>8, <1>9 DEF PickInv, LocalInv

-----------------------------------------------------------------------------
(* The theorems *)

\* Before any pick nothing is promised.
LEMMA InitInv == Init => Inv
<1> SUFFICES ASSUME Init, NEW p \in Pickers PROVE TypeOK /\ PickInv(p)
  BY TypeInit DEF Inv
<1>1. TypeOK
  BY TypeInit
<1>2. /\ picker[p] = Idle /\ away[p] = {} /\ ready[p] = {} /\ bound[p] = None
      /\ glimpsed[p] = {} /\ measured[p] = {} /\ DOMAIN quota = {}
  BY DEF Init
<1>3. /\ Idle.at = "idle" /\ Idle.todo = {} /\ Idle.own = {} /\ Idle.eligible = {}
      /\ Idle.weighed = {} /\ Idle.chosen = None
  BY DEF Idle
<1>4. LocalInv(picker[p])
  BY <1>2, <1>3 DEF LocalInv, Filtering
<1>5. ReadyInv(p) /\ AwayInv(p) /\ BoundInv(p)
  BY <1>2, <1>3 DEF ReadyInv, AwayInv, BoundInv
<1>6. WeighInv(p)
  BY <1>2, <1>3 DEF WeighInv, Fresh
<1> QED
  BY <1>1, <1>4, <1>5, <1>6 DEF PickInv

\* Every step, of a pick or of anybody else, keeps what every pick promises.
LEMMA StepInv == Inv /\ [Next]_vars => Inv'
<1> SUFFICES ASSUME Inv, [Next]_vars, NEW q \in Pickers PROVE PickInv(q)'
  BY TypeStep DEF Inv
<1>1. TypeOK /\ PickInv(q) /\ picker \in [Pickers -> PickState]
  BY DEF Inv, TypeOK
<1>2. \A p \in Pickers : PickInv(p)
  BY DEF Inv
<1>3. ASSUME NEW p \in Pickers, NEW candidates \in CandidateSets,
             NEW key \in Keys \union {NoKey}, Begin(p, candidates, key)
      PROVE  PickInv(q)'
  <2>1. CASE p = q
    BY <1>1, <1>3, <2>1, BeginStep
  <2>2. CASE p # q
    <3>1. /\ picker'[q] = picker[q] /\ away'[q] = away[q] /\ ready'[q] = ready[q]
          /\ bound'[q] = bound[q] /\ glimpsed'[q] = glimpsed[q]
          /\ measured'[q] = measured[q]
          /\ UNCHANGED <<now, quota, cooldown, sticky>>
      BY <1>1, <1>3, <2>2 DEF Begin, ObservedFromNow, shared, TypeOK
    <3> QED
      BY <1>1, <3>1
         DEF PickInv, LocalInv, ReadyInv, AwayInv, BoundInv, WeighInv, Left, Unusable, Usable,
             IsCoolingDown, IsExhausted, Fresh, BoundTo, M!KeysOf, M!ValueOf, M!Place
  <2> QED
    BY <2>1, <2>2
<1>4. ASSUME NEW p \in Pickers, Step(p)
      PROVE  PickInv(q)'
  <2>1. CASE p = q
    BY <1>1, <1>4, <2>1, CheckCoolingStep, CheckExhaustedStep, StickyGetStep, WeighStep,
       StickySetStep DEF Step
  <2>2. CASE p # q
    <3>1. Observed /\ picker'[q] = picker[q]
      BY <1>1, <1>4, <2>2
         DEF Step, CheckCooling, CheckExhausted, StickyGet, Weigh, StickySet
    <3> QED
      BY <1>1, <3>1, OthersStep
  <2> QED
    BY <2>1, <2>2
<1>5. CASE \/ \E a \in Accounts, e \in BOOLEAN : NoteQuotaSnapshot(a, e)
           \/ \E a \in Accounts, t \in RetryAfters : NoteSchedulerFailure(a, t)
           \/ Tick
  <2>1. Observed /\ picker'[q] = picker[q]
    BY <1>5 DEF NoteQuotaSnapshot, NoteSchedulerFailure, Tick
  <2> QED
    BY <1>1, <2>1, OthersStep
<1>6. CASE UNCHANGED vars
  BY <1>1, <1>6
     DEF vars, PickInv, LocalInv, ReadyInv, AwayInv, BoundInv, WeighInv, Left, Unusable, Usable,
         IsCoolingDown, IsExhausted, Fresh, BoundTo, M!KeysOf, M!ValueOf, M!Place
<1> QED
  BY <1>3, <1>4, <1>5, <1>6 DEF Next

\* Inv holds in every reachable state.
THEOREM Invariance == Spec => []Inv
BY InitInv, StepInv, PTL DEF Spec

\* The shared state of the scheduler and the local variables of every schedulerPick keep their
\* types; the sticky map never grows beyond its capacity.
THEOREM TypeCorrect == Spec => []TypeOK
<1>1. Inv => TypeOK
  BY DEF Inv
<1> QED
  BY <1>1, Invariance, PTL

\* scheduler.go never answers with an account that was cooling, or exhausted, from the request
\* to the answer, whatever other picks, refusals and snapshots do in between.
THEOREM UsableAnswers == Spec => []AnswersUsable
<1>1. Inv => AnswersUsable
  <2> SUFFICES ASSUME Inv, NEW p \in Pickers, picker[p].at = "answered", picker[p].chosen # None
               PROVE  /\ picker[p].chosen \in picker[p].own
                      /\ \A pair \in away[p] : pair[1] # picker[p].chosen
    BY DEF AnswersUsable, Answered, Delegated
  <2>1. picker[p].chosen \in picker[p].eligible /\ picker[p].eligible \subseteq picker[p].own
    BY DEF Inv, PickInv, LocalInv
  <2>2. \A r \in {"cooling", "exhausted"} : <<picker[p].chosen, r>> \notin away[p]
    BY <2>1 DEF Inv, PickInv, AwayInv
  <2>3. away[p] \subseteq Accounts \X {"cooling", "exhausted"}
    BY DEF Inv, TypeOK
  <2> QED
    BY <2>1, <2>2, <2>3
<1> QED
  BY <1>1, Invariance, PTL

\* scheduler.go leaves the choice to the host only if no candidate of its own was usable all
\* the time.
THEOREM Delegation == Spec => []DelegatesOnlyWithoutReady
<1>1. Inv => DelegatesOnlyWithoutReady
  BY DEF Inv, PickInv, LocalInv, ReadyInv, Left, DelegatesOnlyWithoutReady, Delegated, Answered
<1> QED
  BY <1>1, Invariance, PTL

\* A conversation whose key stays bound to a usable candidate is answered by that account.
THEOREM Stickiness == Spec => []ConversationStays
<1>1. Inv => ConversationStays
  BY DEF Inv, PickInv, BoundInv, ConversationStays, Answered
<1> QED
  BY <1>1, Invariance, PTL

\* Whatever snapshots appear or expire during a pick without a key, scheduler.go answers with an
\* account that had a fresh one or by the host's priorities, and by these only if no candidate
\* that was usable all the time had a fresh one all the time.
THEOREM HostPriority == Spec => []WeightsOrPriorities
<1>1. Inv => WeightsOrPriorities
  <2> SUFFICES ASSUME Inv, NEW p \in Pickers, picker[p].at = "answered", picker[p].chosen # None,
                      picker[p].key = NoKey, picker[p].chosen \notin glimpsed[p], NEW a \in ready[p]
               PROVE  a \notin measured[p] /\ Priority[a] <= Priority[picker[p].chosen]
    BY DEF WeightsOrPriorities, Answered, Delegated
  <2>1. a \in picker[p].eligible
    BY DEF Inv, PickInv, ReadyInv, Left
  <2> QED
    BY <2>1 DEF Inv, PickInv, WeighInv
<1> QED
  BY <1>1, Invariance, PTL

-----------------------------------------------------------------------------
(* The sticky map, lruMap of scheduler_state.go: how its structures fit together *)

\* The slice s and the index g say the same of every key: g is the inverse of s.
Aligned(s, g) ==
  /\ \A k \in DOMAIN g : g[k] \in 1..Len(s) /\ s[g[k]] = k
  /\ \A i \in 1..Len(s) : s[i] \in DOMAIN g /\ g[s[i]] = i

\* The structures agree: Consistent with, in place of its count of keys, what the count follows
\* from.
MapInv ==
  /\ MapTypeOK
  /\ DOMAIN m = DOMAIN idx
  /\ Aligned(order, idx)
  /\ Len(order) <= Cap

-----------------------------------------------------------------------------
(* Slices *)

\* A slice without the element at one place.
LEMMA RemoveAtProperties ==
  ASSUME NEW S, NEW s \in Seq(S), NEW i \in 1..Len(s)
  PROVE  /\ RemoveAt(s, i) \in Seq(S)
         /\ Len(RemoveAt(s, i)) = Len(s) - 1
         /\ \A j \in 1..(Len(s) - 1) :
              RemoveAt(s, i)[j] = IF j < i THEN s[j] ELSE s[j + 1]
<1> DEFINE front == SubSeq(s, 1, i - 1)
           back == SubSeq(s, i + 1, Len(s))
<1>1. /\ front \in Seq(S)
      /\ Len(front) = i - 1
      /\ \A j \in 1..(i - 1) : front[j] = s[j]
  BY SubSeqProperties
<1>2. /\ back \in Seq(S)
      /\ Len(back) = Len(s) - i
      /\ \A j \in 1..(Len(s) - i) : back[j] = s[i + j]
  BY SubSeqProperties
<1>3. RemoveAt(s, i) = front \o back
  BY DEF RemoveAt
<1> HIDE DEF front, back
<1>4. /\ front \o back \in Seq(S)
      /\ Len(front \o back) = Len(front) + Len(back)
      /\ \A j \in 1..(Len(front) + Len(back)) :
           (front \o back)[j] = IF j <= Len(front) THEN front[j] ELSE back[j - Len(front)]
  <2>1. front \in Seq(S) /\ back \in Seq(S)
    BY <1>1, <1>2
  <2> QED
    BY <2>1, ConcatProperties
<1>5. Len(s) \in Nat
  OBVIOUS
<1>6. ASSUME NEW j \in 1..(Len(s) - 1)
      PROVE  (front \o back)[j] = IF j < i THEN s[j] ELSE s[j + 1]
  <2>1. CASE j < i
    BY <1>1, <1>2, <1>4, <1>5, <2>1
  <2>2. CASE j >= i
    <3>1. j - (i - 1) \in 1..(Len(s) - i) /\ i + (j - (i - 1)) = j + 1
      BY <1>5, <2>2
    <3>2. (front \o back)[j] = back[j - (i - 1)]
      BY <1>1, <1>2, <1>4, <1>5, <2>2
    <3>3. back[j - (i - 1)] = s[i + (j - (i - 1))]
      BY <1>2, <3>1
    <3> QED
      BY <1>5, <2>2, <3>1, <3>2, <3>3
  <2>3. j < i \/ j >= i
    BY <1>5
  <2> QED
    BY <2>1, <2>2, <2>3
<1> QED
  BY <1>1, <1>2, <1>3, <1>4, <1>5, <1>6

\* A slice whose element at one place made way for a new one at the end.
LEMMA MoveToEnd ==
  ASSUME NEW S, NEW s \in Seq(S), NEW i \in 1..Len(s), NEW e \in S
  PROVE  /\ Append(RemoveAt(s, i), e) \in Seq(S)
         /\ Len(Append(RemoveAt(s, i), e)) = Len(s)
         /\ \A j \in 1..Len(s) :
              Append(RemoveAt(s, i), e)[j] =
                IF j < i THEN s[j] ELSE IF j < Len(s) THEN s[j + 1] ELSE e
<1>1. /\ RemoveAt(s, i) \in Seq(S)
      /\ Len(RemoveAt(s, i)) = Len(s) - 1
      /\ \A j \in 1..(Len(s) - 1) : RemoveAt(s, i)[j] = IF j < i THEN s[j] ELSE s[j + 1]
  BY RemoveAtProperties
<1> QED
  BY <1>1

\* A full slice whose first element made way for a new one at the end.
LEMMA DropFirst ==
  ASSUME NEW S, NEW s \in Seq(S), s # <<>>, NEW e \in S
  PROVE  /\ Append(Tail(s), e) \in Seq(S)
         /\ Len(Append(Tail(s), e)) = Len(s)
         /\ \A j \in 1..Len(s) :
              Append(Tail(s), e)[j] = IF j < Len(s) THEN s[j + 1] ELSE e
BY HeadTailProperties, AppendProperties

-----------------------------------------------------------------------------
(* Slice and index *)

\* The rebuild loop makes the index right from its first place on and leaves the rest alone.
LEMMA ReindexProperties ==
  ASSUME NEW g, NEW s \in Seq(MapKeys), NEW i \in Nat \ {0},
         \A a, b \in 1..Len(s) : s[a] = s[b] => a = b,
         \A j \in 1..Len(s) : s[j] \in DOMAIN g
  PROVE  /\ DOMAIN Reindex(g, s, i) = DOMAIN g
         /\ \A j \in i..Len(s) : Reindex(g, s, i)[s[j]] = j
         /\ \A x \in DOMAIN g : (\A j \in i..Len(s) : s[j] # x) => Reindex(g, s, i)[x] = g[x]
<1>1. ASSUME NEW j \in i..Len(s)
      PROVE  Reindex(g, s, i)[s[j]] = j
  <2>1. (CHOOSE c \in i..Len(s) : s[c] = s[j]) = j
    OBVIOUS
  <2> QED
    BY <2>1 DEF Reindex
<1>2. {s[j] : j \in i..Len(s)} \subseteq DOMAIN g
  OBVIOUS
<1>3. DOMAIN Reindex(g, s, i) = DOMAIN g
  BY <1>2 DEF Reindex
<1> QED
  BY <1>1, <1>3 DEF Reindex

\* A bound key that is touched moves to the end, and slice and index still agree.
LEMMA TouchAligned ==
  ASSUME order \in Seq(MapKeys), Aligned(order, idx), NEW k \in DOMAIN idx, touch(k)
  PROVE  /\ order' = Append(RemoveAt(order, idx[k]), k)
         /\ order' \in Seq(MapKeys)
         /\ Len(order') = Len(order)
         /\ DOMAIN idx' = DOMAIN idx
         /\ Aligned(order', idx')
<1> DEFINE n == Len(order)
           i == idx[k]
           rest == RemoveAt(order, i)
<1>1. i \in 1..n /\ order[i] = k /\ n \in Nat /\ \A j \in 1..n : order[j] \in MapKeys
  BY DEF Aligned
<1>2. \A a, b \in 1..n : order[a] = order[b] => a = b
  BY DEF Aligned
<1>3. /\ rest \in Seq(MapKeys)
      /\ Len(rest) = n - 1
      /\ \A j \in 1..(n - 1) : rest[j] = IF j < i THEN order[j] ELSE order[j + 1]
  BY <1>1, RemoveAtProperties
<1>4. /\ Append(rest, k) \in Seq(MapKeys)
      /\ Len(Append(rest, k)) = n
      /\ \A j \in 1..n : Append(rest, k)[j] =
                           IF j < i THEN order[j] ELSE IF j < n THEN order[j + 1] ELSE k
  BY <1>1, MoveToEnd
<1>5. CASE i = n
  <2>1. Append(rest, k) = order
    <3>1. \A j \in 1..n : Append(rest, k)[j] = order[j]
      BY <1>1, <1>4, <1>5
    <3> QED
      BY <1>4, <3>1, SeqEqual
  <2>2. UNCHANGED <<order, idx>>
    BY <1>5 DEF touch
  <2> QED
    BY <2>1, <2>2 DEF Aligned
<1>6. CASE i < n
  <2> DEFINE re == Reindex(idx, rest, i)
  <2>1. order' = Append(rest, k) /\ idx' = WithKey(re, k, Len(rest) + 1)
    BY <1>1, <1>6 DEF touch
  <2> HIDE DEF rest
  <2>2. ASSUME NEW a \in 1..Len(rest), NEW b \in 1..Len(rest), rest[a] = rest[b]
        PROVE  a = b
    <3> DEFINE At(j) == IF j < i THEN j ELSE j + 1
    <3>1. /\ rest[a] = order[At(a)] /\ At(a) \in 1..n
          /\ rest[b] = order[At(b)] /\ At(b) \in 1..n
      BY <1>1, <1>3
    <3>2. At(a) = At(b)
      <4> HIDE DEF At
      <4> QED
        BY <1>2, <2>2, <3>1
    <3> QED
      BY <1>1, <1>3, <3>2
  <2>3. ASSUME NEW j \in 1..Len(rest)
        PROVE  rest[j] \in DOMAIN idx /\ rest[j] # k
    <3>1. PICK o \in 1..n : rest[j] = order[o] /\ o # i
      <4>1. CASE j < i
        BY <1>1, <1>3, <4>1
      <4>2. CASE j >= i
        <5>1. j + 1 \in 1..n /\ rest[j] = order[j + 1] /\ j + 1 # i
          BY <1>1, <1>3, <4>2
        <5> QED
          BY <5>1
      <4> QED
        BY <1>1, <4>1, <4>2
    <3>2. order[o] \in DOMAIN idx
      BY DEF Aligned
    <3> QED
      BY <1>1, <1>2, <3>1, <3>2
  <2>4. i \in Nat \ {0} /\ rest \in Seq(MapKeys)
    BY <1>1, <1>3
  <2> HIDE DEF i
  <2>5. /\ DOMAIN re = DOMAIN idx
        /\ \A j \in i..Len(rest) : re[rest[j]] = j
        /\ \A x \in DOMAIN idx : (\A j \in i..Len(rest) : rest[j] # x) => re[x] = idx[x]
    BY <2>2, <2>3, <2>4, ReindexProperties
  <2> USE DEF i
  <2> HIDE DEF re
  <2>6. DOMAIN idx' = DOMAIN idx /\ idx'[k] = n /\ \A x \in DOMAIN idx \ {k} : idx'[x] = re[x]
    <3>1. Len(rest) + 1 = n
      BY <1>1, <1>3
    <3>2. DOMAIN re = DOMAIN idx /\ DOMAIN idx \union {k} = DOMAIN idx
      BY <2>5
    <3> QED
      BY <2>1, <3>1, <3>2 DEF WithKey
  <2>7. ASSUME NEW j \in 1..Len(rest)
        PROVE  idx'[rest[j]] = j
    <3>1. idx'[rest[j]] = re[rest[j]]
      BY <2>3, <2>6
    <3>2. CASE j >= i
      BY <1>3, <2>5, <3>1, <3>2
    <3>3. CASE j < i
      <4>1. re[rest[j]] = idx[rest[j]]
        <5>1. i \in Int /\ Len(rest) \in Nat
          BY <1>1, <1>3
        <5>2. \A l \in i..Len(rest) : l \in 1..Len(rest) /\ l # j
          BY <1>1, <3>3, <5>1
        <5>3. \A l \in i..Len(rest) : rest[l] # rest[j]
          BY <2>2, <5>2
        <5>4. rest[j] \in DOMAIN idx
          BY <2>3
        <5> QED
          BY <2>5, <5>3, <5>4
      <4>2. rest[j] = order[j] /\ idx[order[j]] = j
        BY <1>1, <1>3, <3>3 DEF Aligned
      <4> QED
        BY <3>1, <4>1, <4>2
    <3> QED
      BY <1>1, <1>3, <3>2, <3>3
  <2>8. ASSUME NEW x \in DOMAIN idx
        PROVE  \E j \in 1..n : order'[j] = x /\ idx'[x] = j
    <3>1. CASE x = k
      BY <1>1, <1>4, <1>6, <2>1, <2>6, <3>1
    <3>2. CASE x # k
      <4>1. idx[x] \in 1..n /\ order[idx[x]] = x /\ idx[x] # i
        BY <1>1, <3>2 DEF Aligned
      <4>2. \E j \in 1..Len(rest) : rest[j] = x
        <5>1. CASE idx[x] < i
          BY <1>1, <1>3, <4>1, <5>1
        <5>2. CASE idx[x] > i
          <6>1. idx[x] - 1 \in 1..Len(rest) /\ rest[idx[x] - 1] = order[idx[x]]
            BY <1>1, <1>3, <4>1, <5>2
          <6> QED
            BY <4>1, <6>1
        <5> QED
          BY <1>1, <4>1, <5>1, <5>2
      <4> QED
        BY <1>1, <1>3, <1>4, <2>1, <2>7, <4>2
    <3> QED
      BY <3>1, <3>2
  <2>9. ASSUME NEW j \in 1..n
        PROVE  order'[j] \in DOMAIN idx /\ idx'[order'[j]] = j
    <3>1. CASE j = n
      BY <1>1, <1>4, <1>6, <2>1, <2>6, <3>1
    <3>2. CASE j < n
      <4>1. j \in 1..Len(rest) /\ order'[j] = rest[j]
        BY <1>1, <1>3, <1>4, <2>1, <3>2
      <4> QED
        BY <2>3, <2>7, <4>1
    <3> QED
      BY <1>1, <3>1, <3>2
  <2> QED
    <3>1. Len(order') = n /\ order' \in Seq(MapKeys)
      BY <1>4, <2>1
    <3>2. Aligned(order', idx')
      <4>1. \A x \in DOMAIN idx' : idx'[x] \in 1..n /\ order'[idx'[x]] = x
        BY <2>6, <2>8
      <4>2. \A j \in 1..n : order'[j] \in DOMAIN idx' /\ idx'[order'[j]] = j
        BY <2>6, <2>9
      <4> QED
        BY <3>1, <4>1, <4>2 DEF Aligned
    <3> QED
      BY <2>1, <2>6, <3>1, <3>2 DEF rest
<1> QED
  BY <1>1, <1>5, <1>6

\* The slice is as long as there are bound keys.
LEMMA Count ==
  ASSUME MapInv
  PROVE  Len(order) = Cardinality(DOMAIN m)
<1>1. order \in Bijection(1..Len(order), DOMAIN m)
  <2>1. order \in [1..Len(order) -> DOMAIN m]
    BY DEF MapInv, Aligned, MapTypeOK
  <2>2. IsInjective(order)
    BY <2>1 DEF MapInv, Aligned, IsInjective
  <2>3. \A k \in DOMAIN m : \E i \in 1..Len(order) : order[i] = k
    BY DEF MapInv, Aligned
  <2> QED
    BY <2>1, <2>2, <2>3 DEF Bijection, Injection, Surjection
<1>2. IsFiniteSet(1..Len(order)) /\ Cardinality(1..Len(order)) = Len(order)
  <2>. DEFINE n == Len(order)
  <2>1. n \in Nat
    BY DEF MapInv, MapTypeOK
  <2> HIDE DEF n
  <2>2. 1 \in Int /\ n \in Int
    BY <2>1
  <2>3. IsFiniteSet(1..n) /\ Cardinality(1..n) = IF 1 > n THEN 0 ELSE (n - 1) + 1
    BY <2>2, FS_Interval
  <2>4. Cardinality(1..n) = n
    BY <2>1, <2>3
  <2> QED
    BY <2>3, <2>4 DEF n
<1>3. ExistsBijection(1..Len(order), DOMAIN m)
  BY <1>1 DEF ExistsBijection
<1> QED
  BY <1>2, <1>3, FS_Bijection

\* A new key at the end keeps slice and index in agreement.
LEMMA AppendAligned ==
  ASSUME NEW s \in Seq(MapKeys), NEW g, Aligned(s, g), NEW k \in MapKeys \ DOMAIN g
  PROVE  /\ Append(s, k) \in Seq(MapKeys)
         /\ Len(Append(s, k)) = Len(s) + 1
         /\ DOMAIN WithKey(g, k, Len(s) + 1) = DOMAIN g \union {k}
         /\ Aligned(Append(s, k), WithKey(g, k, Len(s) + 1))
<1> DEFINE t == Append(s, k)
           h == WithKey(g, k, Len(s) + 1)
<1>1. /\ t \in Seq(MapKeys) /\ Len(t) = Len(s) + 1 /\ Len(s) \in Nat
      /\ t[Len(s) + 1] = k
      /\ \A j \in 1..Len(s) : t[j] = s[j]
  OBVIOUS
<1>2. DOMAIN h = DOMAIN g \union {k} /\ h[k] = Len(s) + 1 /\ \A x \in DOMAIN g : h[x] = g[x]
  BY DEF WithKey
<1> HIDE DEF t, h
<1>3. \A x \in DOMAIN h : h[x] \in 1..Len(t) /\ t[h[x]] = x
  BY <1>1, <1>2 DEF Aligned
<1>4. \A j \in 1..Len(t) : t[j] \in DOMAIN h /\ h[t[j]] = j
  BY <1>1, <1>2 DEF Aligned
<1>5. Aligned(t, h)
  BY <1>3, <1>4 DEF Aligned
<1> QED
  BY <1>1, <1>2, <1>5 DEF t, h

\* evictOldest takes the first key out of slice and index and rebuilds the index.
LEMMA EvictAligned ==
  ASSUME order \in Seq(MapKeys), Aligned(order, idx), order # <<>>
  PROVE  LET kept == Reindex(Delete(idx, Head(order)), Tail(order), 1)
         IN  /\ Tail(order) \in Seq(MapKeys)
             /\ Len(Tail(order)) = Len(order) - 1
             /\ DOMAIN kept = DOMAIN idx \ {Head(order)}
             /\ Aligned(Tail(order), kept)
<1> DEFINE rest == Tail(order)
           g == Delete(idx, Head(order))
           kept == Reindex(g, rest, 1)
<1>1. /\ Len(order) \in Nat \ {0} /\ Head(order) = order[1]
      /\ rest \in Seq(MapKeys) /\ Len(rest) = Len(order) - 1
      /\ \A j \in 1..Len(rest) : rest[j] = order[j + 1]
  BY HeadTailProperties
<1>2. \A a, b \in 1..Len(order) : order[a] = order[b] => a = b
  BY DEF Aligned
<1>3. DOMAIN g = DOMAIN idx \ {order[1]}
  BY <1>1 DEF Delete
<1> HIDE DEF rest, g
<1>4. \A a, b \in 1..Len(rest) : rest[a] = rest[b] => a = b
  BY <1>1, <1>2
<1>5. \A j \in 1..Len(rest) : rest[j] \in DOMAIN g
  BY <1>1, <1>2, <1>3 DEF Aligned
<1>6. DOMAIN kept = DOMAIN g /\ \A j \in 1..Len(rest) : kept[rest[j]] = j
  BY <1>1, <1>4, <1>5, ReindexProperties
<1> HIDE DEF kept
<1>7. ASSUME NEW x \in DOMAIN kept
      PROVE  kept[x] \in 1..Len(rest) /\ rest[kept[x]] = x
  <2>1. x \in DOMAIN idx /\ x # order[1]
    BY <1>3, <1>6
  <2>2. idx[x] \in 1..Len(order) /\ order[idx[x]] = x /\ idx[x] # 1
    BY <2>1 DEF Aligned
  <2>3. idx[x] - 1 \in 1..Len(rest) /\ rest[idx[x] - 1] = x
    BY <1>1, <2>2
  <2> QED
    BY <1>6, <2>3
<1>8. Aligned(rest, kept)
  BY <1>5, <1>6, <1>7 DEF Aligned
<1> QED
  BY <1>1, <1>3, <1>6, <1>8 DEF rest, g, kept

-----------------------------------------------------------------------------
(* The invariant *)

\* The empty map satisfies the invariant.
LEMMA MapInitInv == MapInit => MapInv
<1> SUFFICES ASSUME MapInit PROVE MapInv
  OBVIOUS
<1>1. order = <<>> /\ Len(order) = 0 /\ order \in Seq(MapKeys)
  BY DEF MapInit
<1>2. DOMAIN m = {} /\ DOMAIN idx = {}
  BY DEF MapInit
<1>3. MapTypeOK
  BY <1>1, <1>2 DEF MapInit, MapTypeOK
<1> QED
  BY <1>1, <1>2, <1>3, CapAssumption DEF MapInv, Aligned

\* Every operation preserves it.
LEMMA MapStepInv == MapInv /\ [MapNext]_mapVars => MapInv'
<1> SUFFICES ASSUME MapInv, [MapNext]_mapVars PROVE MapInv'
  OBVIOUS
<1>1. /\ MapTypeOK /\ DOMAIN m = DOMAIN idx /\ Aligned(order, idx)
      /\ order \in Seq(MapKeys) /\ Len(order) \in Nat /\ Len(order) <= Cap
      /\ DOMAIN m \subseteq MapKeys
  BY DEF MapInv, MapTypeOK
<1> DEFINE Kept == /\ order' \in Seq(MapKeys) /\ Len(order') <= Cap
                   /\ DOMAIN m' = DOMAIN idx' /\ DOMAIN m' \subseteq MapKeys
                   /\ \A k \in DOMAIN m' : m'[k] \in Values
                   /\ Aligned(order', idx')
                   /\ answer' \in Values \union {"miss"}
<1>2. SUFFICES Kept
  BY DEF MapInv, MapTypeOK, Aligned
<1>3. ASSUME NEW k \in DOMAIN m, touch(k)
      PROVE  /\ order' \in Seq(MapKeys) /\ Len(order') <= Cap
             /\ DOMAIN idx' = DOMAIN m
             /\ Aligned(order', idx')
  BY <1>1, <1>3, TouchAligned
<1>4. ASSUME NEW k \in MapKeys, get(k)
      PROVE  Kept
  <2>1. CASE k \in DOMAIN m
    BY <1>1, <1>3, <1>4, <2>1 DEF get, MapTypeOK
  <2>2. CASE k \notin DOMAIN m
    BY <1>1, <1>4, <2>2 DEF get, MapTypeOK
  <2> QED
    BY <2>1, <2>2
<1>5. ASSUME NEW k \in MapKeys, NEW v \in Values, Rebind(k, v)
      PROVE  Kept
  BY <1>1, <1>3, <1>5 DEF Rebind, MapTypeOK
<1>6. ASSUME NEW k \in MapKeys, NEW v \in Values, BindNew(k, v)
      PROVE  Kept
  <2>1. Len(order) + 1 <= Cap
    BY <1>1, <1>6, Count, CapAssumption DEF BindNew
  <2>2. /\ order' = Append(order, k) /\ idx' = WithKey(idx, k, Len(order) + 1)
        /\ m' = WithKey(m, k, v) /\ answer' = answer /\ k \notin DOMAIN idx
    BY <1>1, <1>6 DEF BindNew, AppendKey
  <2>3. /\ order' \in Seq(MapKeys) /\ Len(order') <= Cap
        /\ DOMAIN idx' = DOMAIN m \union {k} /\ Aligned(order', idx')
    <3>1. /\ Append(order, k) \in Seq(MapKeys)
          /\ Len(Append(order, k)) = Len(order) + 1
          /\ DOMAIN WithKey(idx, k, Len(order) + 1) = DOMAIN idx \union {k}
          /\ Aligned(Append(order, k), WithKey(idx, k, Len(order) + 1))
      BY <1>1, <2>2, AppendAligned
    <3> QED
      BY <1>1, <2>1, <2>2, <3>1, Zenon
  <2> QED
    BY <1>1, <2>2, <2>3 DEF WithKey, MapTypeOK
<1>7. ASSUME NEW k \in MapKeys, NEW v \in Values, BindEvicting(k, v)
      PROVE  Kept
  <2> DEFINE oldest == Head(order)
             kept == Reindex(Delete(idx, oldest), Tail(order), 1)
  <2>1. /\ order # <<>> /\ k \notin DOMAIN idx
        /\ m' = WithKey(Delete(m, oldest), k, v)
        /\ order' = Append(Tail(order), k)
        /\ idx' = WithKey(kept, k, Len(Tail(order)) + 1)
        /\ answer' = answer
    BY <1>1, <1>7 DEF BindEvicting, AppendKey
  <2>2. /\ Tail(order) \in Seq(MapKeys) /\ Len(Tail(order)) = Len(order) - 1
        /\ DOMAIN kept = DOMAIN idx \ {oldest} /\ Aligned(Tail(order), kept)
    BY <1>1, <2>1, EvictAligned
  <2> HIDE DEF kept
  <2>3. /\ order' \in Seq(MapKeys) /\ Len(order') = Len(order)
        /\ DOMAIN idx' = DOMAIN kept \union {k} /\ Aligned(order', idx')
    <3> DEFINE rest == Tail(order)
    <3>1. rest \in Seq(MapKeys) /\ Len(rest) = Len(order) - 1 /\ Aligned(rest, kept)
      BY <2>2
    <3>2. k \in MapKeys \ DOMAIN kept
      BY <2>1, <2>2
    <3> HIDE DEF rest
    <3>3. /\ Append(rest, k) \in Seq(MapKeys)
          /\ Len(Append(rest, k)) = Len(rest) + 1
          /\ DOMAIN WithKey(kept, k, Len(rest) + 1) = DOMAIN kept \union {k}
          /\ Aligned(Append(rest, k), WithKey(kept, k, Len(rest) + 1))
      BY <3>1, <3>2, AppendAligned
    <3>4. order' = Append(rest, k) /\ idx' = WithKey(kept, k, Len(rest) + 1)
      BY <2>1 DEF rest
    <3>5. Len(Append(rest, k)) = Len(order)
      BY <1>1, <3>1, <3>3
    <3> QED
      BY <3>3, <3>4, <3>5, Zenon
  <2>4. /\ DOMAIN m' = (DOMAIN m \ {oldest}) \union {k}
        /\ \A x \in DOMAIN m' : m'[x] \in Values
    BY <1>1, <2>1 DEF WithKey, Delete, MapTypeOK
  <2> QED
    BY <1>1, <2>1, <2>2, <2>3, <2>4 DEF MapTypeOK
<1>8. CASE UNCHANGED mapVars
  BY <1>1, <1>8 DEF mapVars, MapTypeOK
<1> QED
  BY <1>4, <1>5, <1>6, <1>7, <1>8 DEF MapNext, set

\* MapInv holds after every sequence of operations.
THEOREM MapInvariance == MapSpec => []MapInv
BY MapInitInv, MapStepInv, PTL DEF MapSpec

\* lruMap's map, slice and index describe the same keys, at most the capacity of them, after
\* every sequence of gets and sets: no eviction, touch or append leaves a stale index behind.
THEOREM ConsistentMap == MapSpec => []Consistent
<1>1. MapInv => Consistent
  <2> SUFFICES ASSUME MapInv PROVE Consistent
    OBVIOUS
  <2>1. Len(order) = Cardinality(DOMAIN m)
    BY Count
  <2>2. /\ MapTypeOK /\ DOMAIN m = DOMAIN idx /\ Len(order) <= Cap
        /\ \A k \in DOMAIN idx : idx[k] \in DOMAIN order /\ order[idx[k]] = k
    BY DEF MapInv, Aligned, MapTypeOK
  <2> QED
    BY <2>1, <2>2 DEF Consistent
<1> QED
  BY <1>1, MapInvariance, PTL

-----------------------------------------------------------------------------
(* The refinement of RecencyMap *)

Pairs == [key : MapKeys, val : Values]

\* The bindings in order of use, as the refinement mapping of StickyMap reads them.
MapBindings == [i \in DOMAIN order |-> [key |-> order[i], val |-> m[order[i]]]]

\* The bindings the three structures stand for.
LEMMA BindingsProperties ==
  ASSUME MapInv
  PROVE  /\ MapBindings \in Seq(Pairs)
         /\ Len(MapBindings) = Len(order)
         /\ \A i \in 1..Len(order) : MapBindings[i] = [key |-> order[i], val |-> m[order[i]]]
         /\ Recency!KeysOf(MapBindings) = DOMAIN m
         /\ \A k \in DOMAIN m : Recency!Place(MapBindings, k) = idx[k]
         /\ \A k \in DOMAIN m : Recency!ValueOf(MapBindings, k) = m[k]
<1>1. /\ order \in Seq(MapKeys) /\ Len(order) \in Nat /\ DOMAIN order = 1..Len(order)
      /\ DOMAIN m = DOMAIN idx /\ Aligned(order, idx)
      /\ \A k \in DOMAIN m : k \in MapKeys /\ m[k] \in Values
  BY DEF MapInv, MapTypeOK
<1>2. /\ MapBindings = [i \in 1..Len(order) |-> [key |-> order[i], val |-> m[order[i]]]]
      /\ \A i \in 1..Len(order) : [key |-> order[i], val |-> m[order[i]]] \in Pairs
  BY <1>1 DEF MapBindings, Aligned, Pairs
<1>3. /\ MapBindings \in Seq(Pairs)
      /\ Len(MapBindings) = Len(order) /\ DOMAIN MapBindings = 1..Len(order)
      /\ \A i \in 1..Len(order) : MapBindings[i] = [key |-> order[i], val |-> m[order[i]]]
  BY <1>1, <1>2
<1>4. \A i \in 1..Len(order) : MapBindings[i].key = order[i] /\ MapBindings[i].val = m[order[i]]
  BY <1>3
<1>5. Recency!KeysOf(MapBindings) = DOMAIN m
  <2>1. Recency!KeysOf(MapBindings) = {order[i] : i \in 1..Len(order)}
    BY <1>3, <1>4 DEF Recency!KeysOf
  <2>2. \A i \in 1..Len(order) : order[i] \in DOMAIN m
    BY <1>1 DEF Aligned
  <2>3. \A k \in DOMAIN m : idx[k] \in 1..Len(order) /\ order[idx[k]] = k
    BY <1>1 DEF Aligned
  <2> QED
    BY <2>1, <2>2, <2>3
<1>6. ASSUME NEW k \in DOMAIN m
      PROVE  Recency!Place(MapBindings, k) = idx[k] /\ Recency!ValueOf(MapBindings, k) = m[k]
  <2>1. /\ idx[k] \in DOMAIN MapBindings
        /\ MapBindings[idx[k]].key = k /\ MapBindings[idx[k]].val = m[k]
    BY <1>1, <1>3, <1>4 DEF Aligned
  <2>2. \A i \in DOMAIN MapBindings : MapBindings[i].key = k => i = idx[k]
    BY <1>1, <1>3, <1>4 DEF Aligned
  <2>3. Recency!Place(MapBindings, k) = idx[k]
    BY <2>1, <2>2 DEF Recency!Place
  <2> QED
    BY <2>1, <2>3 DEF Recency!ValueOf
<1> QED
  BY <1>3, <1>5, <1>6

\* The new bindings, from the new slice and map.
LEMMA NewBindings ==
  ASSUME MapInv'
  PROVE  /\ MapBindings' \in Seq(Pairs)
         /\ Len(MapBindings') = Len(order')
         /\ \A i \in 1..Len(order') :
              MapBindings'[i] = [key |-> order'[i], val |-> m'[order'[i]]]
<1>1. MapInv' =>
        (/\ MapBindings \in Seq(Pairs)
         /\ Len(MapBindings) = Len(order)
         /\ \A i \in 1..Len(order) : MapBindings[i] = [key |-> order[i], val |-> m[order[i]]]
         /\ Recency!KeysOf(MapBindings) = DOMAIN m
         /\ \A k \in DOMAIN m : Recency!Place(MapBindings, k) = idx[k]
         /\ \A k \in DOMAIN m : Recency!ValueOf(MapBindings, k) = m[k])'
  BY BindingsProperties, PTL
<1> QED
  BY <1>1 DEF Pairs

\* Whatever the value a touched key is left with, the new bindings are the old ones with that
\* key at the end.
LEMMA TouchedBindings ==
  ASSUME MapInv, MapInv', NEW k \in DOMAIN m, NEW v \in Values, touch(k),
         m'[k] = v, \A x \in DOMAIN m \ {k} : m'[x] = m[x]
  PROVE  MapBindings' = Append(Recency!Without(MapBindings, k), Recency!Binding(k, v))
<1> DEFINE i == idx[k]
           b == Recency!Binding(k, v)
           new == Append(RemoveAt(MapBindings, i), b)
<1>1. /\ order \in Seq(MapKeys) /\ Len(order) \in Nat /\ Aligned(order, idx)
      /\ DOMAIN m = DOMAIN idx /\ k \in MapKeys
  BY DEF MapInv, MapTypeOK
<1>2. i \in 1..Len(order) /\ order[i] = k /\ \A j \in 1..Len(order) : order[j] = k => j = i
  BY <1>1 DEF Aligned
<1>3. b \in Pairs /\ b = [key |-> k, val |-> v]
  BY <1>1 DEF Recency!Binding, Pairs
<1>4. Recency!Without(MapBindings, k) = RemoveAt(MapBindings, i)
  BY <1>1, BindingsProperties DEF Recency!Without, Recency!RemoveAt, RemoveAt
<1>5. /\ MapBindings \in Seq(Pairs) /\ Len(MapBindings) = Len(order)
      /\ \A j \in 1..Len(order) : MapBindings[j] = [key |-> order[j], val |-> m[order[j]]]
  BY BindingsProperties
<1>6. /\ order' = Append(RemoveAt(order, i), k)
      /\ Len(order') = Len(order)
      /\ \A j \in 1..Len(order) :
           order'[j] = IF j < i THEN order[j] ELSE IF j < Len(order) THEN order[j + 1] ELSE k
  <2>1. order' = Append(RemoveAt(order, i), k) /\ Len(order') = Len(order)
    BY <1>1, TouchAligned
  <2> HIDE DEF i
  <2>2. /\ Append(RemoveAt(order, i), k) \in Seq(MapKeys)
        /\ Len(Append(RemoveAt(order, i), k)) = Len(order)
        /\ \A j \in 1..Len(order) :
             Append(RemoveAt(order, i), k)[j] =
               IF j < i THEN order[j] ELSE IF j < Len(order) THEN order[j + 1] ELSE k
    BY <1>1, <1>2, MoveToEnd
  <2> QED
    BY <2>1, <2>2
<1> HIDE DEF i, b
<1>7. /\ new \in Seq(Pairs) /\ Len(new) = Len(order)
      /\ \A j \in 1..Len(order) :
           new[j] = IF j < i THEN MapBindings[j]
                    ELSE IF j < Len(order) THEN MapBindings[j + 1] ELSE b
  BY <1>2, <1>3, <1>5, MoveToEnd
<1> HIDE DEF new
<1>8. ASSUME NEW j \in 1..Len(order)
      PROVE  MapBindings'[j] = new[j]
  <2>1. MapBindings'[j] = [key |-> order'[j], val |-> m'[order'[j]]]
    BY <1>6, NewBindings
  <2>2. CASE j < i
    <3>1. order[j] \in DOMAIN m /\ order[j] # k
      BY <1>1, <1>2, <2>2 DEF Aligned
    <3>2. order'[j] = order[j] /\ m'[order[j]] = m[order[j]]
      BY <1>6, <2>2, <3>1
    <3>3. new[j] = MapBindings[j]
      BY <1>7, <2>2
    <3> QED
      BY <1>5, <2>1, <3>2, <3>3
  <2>3. CASE j >= i /\ j < Len(order)
    <3>1. j + 1 \in 1..Len(order) /\ j + 1 # i
      BY <1>1, <1>2, <2>3
    <3>2. order[j + 1] \in DOMAIN m /\ order[j + 1] # k
      BY <1>1, <1>2, <3>1 DEF Aligned
    <3>3. order'[j] = order[j + 1] /\ m'[order[j + 1]] = m[order[j + 1]]
      BY <1>1, <1>2, <1>6, <2>3, <3>2
    <3>4. new[j] = MapBindings[j + 1]
      BY <1>1, <1>2, <1>7, <2>3
    <3> QED
      BY <1>5, <2>1, <3>1, <3>3, <3>4
  <2>4. CASE j >= i /\ j = Len(order)
    BY <1>1, <1>2, <1>3, <1>6, <1>7, <2>1, <2>4
  <2> QED
    BY <1>1, <1>2, <2>2, <2>3, <2>4
<1>9. MapBindings' \in Seq(Pairs) /\ Len(MapBindings') = Len(order)
  BY <1>6, NewBindings
<1>10. MapBindings' = new
  BY <1>7, <1>8, <1>9, SeqEqual
<1> QED
  BY <1>4, <1>10 DEF new, b, i

\* lruMap refines RecencyMap: each get and set of the three structures is one of the abstract
\* map, evictions included.
THEOREM MapRefinement == MapSpec => ImplementsRecencyMap
<1>1. MapInit => Recency!Init
  BY DEF MapInit, Recency!Init
<1>2. ASSUME MapInv, MapInv', [MapNext]_mapVars
      PROVE  [Recency!Next]_(Recency!vars)
  <2> USE <1>2
  <2>1. /\ order \in Seq(MapKeys) /\ Len(order) \in Nat /\ Len(order) <= Cap
        /\ DOMAIN m = DOMAIN idx /\ Aligned(order, idx)
        /\ \A k \in DOMAIN m : m[k] \in Values
    BY DEF MapInv, MapTypeOK
  <2>2. /\ MapBindings \in Seq(Pairs) /\ Len(MapBindings) = Len(order)
        /\ Recency!KeysOf(MapBindings) = DOMAIN m
        /\ \A k \in DOMAIN m : Recency!ValueOf(MapBindings, k) = m[k]
    BY BindingsProperties
  <2>3. ASSUME NEW k \in MapKeys, get(k)
        PROVE  Recency!Get(k)
    <3>1. MapBindings' = Recency!Touch(MapBindings, k)
      <4>1. CASE k \in DOMAIN m
        <5>1. touch(k) /\ m' = m /\ m[k] \in Values
          BY <2>1, <2>3, <4>1 DEF get
        <5> QED
          BY <2>2, <4>1, <5>1, TouchedBindings DEF Recency!Touch
      <4>2. CASE k \notin DOMAIN m
        <5>1. MapBindings' = MapBindings
          BY <2>3, <4>2 DEF get, MapBindings
        <5> QED
          BY <2>2, <4>2, <5>1 DEF Recency!Touch
      <4> QED
        BY <4>1, <4>2
    <3>2. answer' = (IF k \in DOMAIN m THEN m[k] ELSE "miss")
      BY <2>3 DEF get
    <3> QED
      BY <2>2, <3>1, <3>2 DEF Recency!Get, MapBindings
  <2>4. ASSUME NEW k \in MapKeys, NEW v \in Values, set(k, v)
        PROVE  Recency!Set(k, v)
    <3>1. MapBindings' = Recency!Bind(MapBindings, k, v)
      <4>1. CASE Rebind(k, v)
        <5>1. k \in DOMAIN m /\ touch(k) /\ m' = [m EXCEPT ![k] = v]
          BY <4>1 DEF Rebind
        <5>2. m'[k] = v /\ \A x \in DOMAIN m \ {k} : m'[x] = m[x]
          BY <5>1
        <5>3. MapBindings' = Append(Recency!Without(MapBindings, k), Recency!Binding(k, v))
          BY <5>1, <5>2, TouchedBindings
        <5> QED
          BY <2>2, <5>1, <5>3 DEF Recency!Bind
      <4> DEFINE b == Recency!Binding(k, v)
      <4>2. b \in Pairs /\ b = [key |-> k, val |-> v]
        BY DEF Recency!Binding, Pairs
      <4> HIDE DEF b
      <4>3. CASE BindNew(k, v)
        <5>1. /\ k \notin DOMAIN m /\ Len(order) < Cap
              /\ order' = Append(order, k) /\ m' = WithKey(m, k, v)
          BY <4>3, Count DEF BindNew, AppendKey
        <5>2. Recency!Bind(MapBindings, k, v) = Append(MapBindings, b)
          BY <2>1, <2>2, <5>1, CapAssumption DEF Recency!Bind, Recency!Without, b
        <5>3. /\ m'[k] = v /\ \A x \in DOMAIN m : m'[x] = m[x]
              /\ \A j \in 1..Len(order) : order[j] \in DOMAIN m
          BY <2>1, <5>1 DEF WithKey, Aligned
        <5>4. /\ Len(order') = Len(order) + 1
              /\ \A j \in 1..(Len(order) + 1) :
                   MapBindings'[j] = [key |-> order'[j], val |-> m'[order'[j]]]
              /\ MapBindings' \in Seq(Pairs) /\ Len(MapBindings') = Len(order) + 1
          BY <2>1, <5>1, NewBindings
        <5>5. /\ Append(MapBindings, b) \in Seq(Pairs)
              /\ Len(Append(MapBindings, b)) = Len(order) + 1
              /\ Append(MapBindings, b)[Len(order) + 1] = b
              /\ \A j \in 1..Len(order) : Append(MapBindings, b)[j] = MapBindings[j]
          BY <2>2, <4>2
        <5>6. ASSUME NEW j \in 1..(Len(order) + 1)
              PROVE  MapBindings'[j] = Append(MapBindings, b)[j]
          <6>1. CASE j = Len(order) + 1
            BY <2>1, <4>2, <5>1, <5>3, <5>4, <5>5, <6>1
          <6>2. CASE j \in 1..Len(order)
            BY <2>1, <5>1, <5>3, <5>4, <5>5, <6>2, BindingsProperties
          <6>3. j = Len(order) + 1 \/ j \in 1..Len(order)
            BY <2>1
          <6> QED
            BY <6>1, <6>2, <6>3, Zenon
        <5> QED
          BY <5>2, <5>4, <5>5, <5>6, SeqEqual
      <4>4. CASE BindEvicting(k, v)
        <5>1. /\ k \notin DOMAIN m /\ Len(order) = Cap /\ order # <<>>
              /\ order' = Append(Tail(order), k)
              /\ m' = WithKey(Delete(m, Head(order)), k, v)
          BY <2>1, <4>4, Count, CapAssumption DEF BindEvicting, AppendKey
        <5>2. Recency!Bind(MapBindings, k, v) = Append(Tail(MapBindings), b)
          BY <2>2, <5>1 DEF Recency!Bind, b
        <5>3. /\ m'[k] = v
              /\ \A j \in 2..Len(order) : m'[order[j]] = m[order[j]]
          <6>1. Len(order) >= 1 /\ Head(order) = order[1]
            BY <2>1, <5>1
          <6>2. \A j \in 2..Len(order) :
                  order[j] \in DOMAIN m \ {Head(order)}
            BY <2>1, <6>1 DEF Aligned
          <6> QED
            BY <5>1, <6>2 DEF WithKey, Delete
        <5>4. /\ order' \in Seq(MapKeys) /\ Len(order') = Len(order)
              /\ \A j \in 1..Len(order) : order'[j] = IF j < Len(order) THEN order[j + 1] ELSE k
          BY <2>1, <5>1, DropFirst
        <5>5. /\ Append(Tail(MapBindings), b) \in Seq(Pairs)
              /\ Len(Append(Tail(MapBindings), b)) = Len(MapBindings)
              /\ \A j \in 1..Len(MapBindings) :
                   Append(Tail(MapBindings), b)[j] =
                     IF j < Len(MapBindings) THEN MapBindings[j + 1] ELSE b
          <6>1. MapBindings # <<>>
            BY <2>1, <2>2, <5>1
          <6> QED
            BY <2>2, <4>2, <6>1, DropFirst
        <5>6. /\ MapBindings' \in Seq(Pairs) /\ Len(MapBindings') = Len(order)
              /\ \A j \in 1..Len(order) :
                   MapBindings'[j] = [key |-> order'[j], val |-> m'[order'[j]]]
          BY <5>4, NewBindings
        <5>7. ASSUME NEW j \in 1..Len(order)
              PROVE  MapBindings'[j] = Append(Tail(MapBindings), b)[j]
          <6>1. CASE j = Len(order)
            BY <2>1, <2>2, <4>2, <5>3, <5>4, <5>5, <5>6, <6>1
          <6>2. CASE j < Len(order)
            <7>1. j + 1 \in 2..Len(order) /\ j + 1 \in 1..Len(order)
              BY <2>1, <6>2
            <7>2. MapBindings'[j] = [key |-> order[j + 1], val |-> m[order[j + 1]]]
              BY <5>3, <5>4, <5>6, <6>2, <7>1
            <7>3. Append(Tail(MapBindings), b)[j] = MapBindings[j + 1]
              BY <2>2, <5>5, <6>2
            <7> QED
              BY <7>1, <7>2, <7>3, BindingsProperties
          <6>3. j = Len(order) \/ j < Len(order)
            BY <2>1
          <6> QED
            BY <6>1, <6>2, <6>3, Zenon
        <5> QED
          BY <2>2, <5>2, <5>5, <5>6, <5>7, SeqEqual
      <4> QED
        BY <2>4, <4>1, <4>3, <4>4 DEF set
    <3>2. answer' = answer
      BY <2>4 DEF set, Rebind, BindNew, BindEvicting
    <3> QED
      BY <3>1, <3>2 DEF Recency!Set, MapBindings
  <2>5. CASE UNCHANGED mapVars
    BY <2>5 DEF mapVars, Recency!vars
  <2> QED
    BY <2>3, <2>4, <2>5 DEF MapNext, Recency!Next
<1> QED
  BY <1>1, <1>2, MapInvariance, PTL DEF MapSpec, ImplementsRecencyMap, Recency!Spec

=============================================================================
