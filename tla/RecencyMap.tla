----------------------------- MODULE RecencyMap -----------------------------
(***************************************************************************)
(* What the scheduler relies on in its map of sticky bindings: a map of at *)
(* most Cap keys which, when full, forgets the key that was used longest   *)
(* ago.  A map is written as the sequence of its bindings, the least       *)
(* recently used one first.                                                *)
(***************************************************************************)
EXTENDS Naturals, SequencesExt

CONSTANTS Keys, Values, Cap

Binding(k, v) == [key |-> k, val |-> v]

KeysOf(r) == {r[i].key : i \in DOMAIN r}

\* Where the binding of a bound key stands.
Place(r, k) == CHOOSE i \in DOMAIN r : r[i].key = k

ValueOf(r, k) == r[Place(r, k)].val

Without(r, k) == IF k \in KeysOf(r) THEN RemoveAt(r, Place(r, k)) ELSE r

\* A key that is looked up becomes the most recently used one.
Touch(r, k) ==
  IF k \in KeysOf(r) THEN Append(Without(r, k), Binding(k, ValueOf(r, k))) ELSE r

\* So does a key that is bound; a new key pushes the oldest one out of a full map.
Bind(r, k, v) ==
  IF k \notin KeysOf(r) /\ Len(r) = Cap
  THEN Append(Tail(r), Binding(k, v))
  ELSE Append(Without(r, k), Binding(k, v))

VARIABLES
  bindings,   \* the map
  answer      \* what the last lookup returned, "miss" if the key was not bound

vars == <<bindings, answer>>

Init == bindings = <<>> /\ answer = "miss"

Get(k) ==
  /\ bindings' = Touch(bindings, k)
  /\ answer' = (IF k \in KeysOf(bindings) THEN ValueOf(bindings, k) ELSE "miss")

Set(k, v) ==
  /\ bindings' = Bind(bindings, k, v)
  /\ UNCHANGED answer

Next == \E k \in Keys : Get(k) \/ \E v \in Values : Set(k, v)

Spec == Init /\ [][Next]_vars
=============================================================================
