------------------------------ MODULE StickyMap ------------------------------
(***************************************************************************)
(* lruMap of scheduler_state.go, the map behind stickyGet and stickySet: a *)
(* Go map, a slice of keys in order of use and an index from keys to       *)
(* places in that slice.  Both operations run under schedulerState.mu, so  *)
(* that each is one step.                                                  *)
(***************************************************************************)
EXTENDS Naturals, FiniteSets, SequencesExt

CONSTANTS MapKeys, Values, Cap

ASSUME CapAssumption == Cap \in Nat \ {0}

VARIABLES
  m,       \* lruMap.m, a function on the bound keys
  order,   \* lruMap.order
  idx,     \* lruMap.idx: the places in order, counted from 1 here
  answer   \* what the last get returned

mapVars == <<m, order, idx, answer>>

\* A Go map without one of its keys, and with one set.
Delete(f, k) == [x \in DOMAIN f \ {k} |-> f[x]]
WithKey(f, k, v) == [x \in DOMAIN f \union {k} |-> IF x = k THEN v ELSE f[x]]

\* The rebuild loops: places i and after of the slice s are entered in the index f again.
Reindex(f, s, i) ==
  [x \in DOMAIN f \union {s[j] : j \in i..Len(s)} |->
     IF \E j \in i..Len(s) : s[j] = x
     THEN CHOOSE j \in i..Len(s) : s[j] = x
     ELSE f[x]]

touch(k) ==
  IF k \notin DOMAIN idx \/ idx[k] >= Len(order)
  THEN UNCHANGED <<order, idx>>
  ELSE LET rest == RemoveAt(order, idx[k])
       IN  /\ order' = Append(rest, k)
           /\ idx' = WithKey(Reindex(idx, rest, idx[k]), k, Len(rest) + 1)

MapInit ==
  /\ m = <<>>
  /\ order = <<>>
  /\ idx = <<>>
  /\ answer = "miss"

\* A slip: a binding that is not touched.
get_withoutTouch(k) ==
  /\ answer' = (IF k \in DOMAIN m THEN m[k] ELSE "miss")
  /\ UNCHANGED <<m, order, idx>>

get(k) ==
  /\ IF k \in DOMAIN m THEN touch(k) ELSE UNCHANGED <<order, idx>>
  /\ answer' = (IF k \in DOMAIN m THEN m[k] ELSE "miss")
  /\ UNCHANGED m

Rebind(k, v) ==
  /\ k \in DOMAIN m
  /\ m' = [m EXCEPT ![k] = v]
  /\ touch(k)
  /\ UNCHANGED answer

AppendKey(f, s, g, k, v) ==
  /\ m' = WithKey(f, k, v)
  /\ order' = Append(s, k)
  /\ idx' = WithKey(g, k, Len(s) + 1)

BindNew(k, v) ==
  /\ k \notin DOMAIN m
  /\ Cardinality(DOMAIN m) < Cap
  /\ AppendKey(m, order, idx, k, v)
  /\ UNCHANGED answer

\* A slip: the index is not rebuilt after the eviction.
BindEvicting_staleIndex(k, v) ==
  /\ k \notin DOMAIN m
  /\ Cardinality(DOMAIN m) >= Cap
  /\ AppendKey(Delete(m, Head(order)), Tail(order), Delete(idx, Head(order)), k, v)
  /\ UNCHANGED answer

\* evictOldest, then the new key.
BindEvicting(k, v) ==
  /\ k \notin DOMAIN m
  /\ Cardinality(DOMAIN m) >= Cap
  /\ order # <<>>
  /\ LET oldest == Head(order)
         rest == Tail(order)
     IN  AppendKey(Delete(m, oldest), rest, Reindex(Delete(idx, oldest), rest, 1), k, v)
  /\ UNCHANGED answer

set(k, v) == Rebind(k, v) \/ BindNew(k, v) \/ BindEvicting(k, v)

MapNext == \E k \in MapKeys : get(k) \/ \E v \in Values : set(k, v)

MapSpec == MapInit /\ [][MapNext]_mapVars

-----------------------------------------------------------------------------

\* Go map and slice keep their types.
MapTypeOK ==
  /\ DOMAIN m \subseteq MapKeys
  /\ \A k \in DOMAIN m : m[k] \in Values
  /\ order \in Seq(MapKeys)
  /\ DOMAIN idx \subseteq MapKeys
  /\ \A k \in DOMAIN idx : idx[k] \in Nat
  /\ answer \in Values \union {"miss"}

\* Map, slice and index describe the same keys, at most Cap of them, after every sequence of
\* operations: each key stands in the slice once, where the index says.
Consistent ==
  /\ MapTypeOK
  /\ DOMAIN m = DOMAIN idx
  /\ Len(order) = Cardinality(DOMAIN m)
  /\ Len(order) <= Cap
  /\ \A k \in DOMAIN idx : idx[k] \in DOMAIN order /\ order[idx[k]] = k

Recency == INSTANCE RecencyMap WITH
  Keys <- MapKeys,
  bindings <- [i \in DOMAIN order |-> [key |-> order[i], val |-> m[order[i]]]]

\* To its callers the three structures are one map that forgets the least recently used key.
ImplementsRecencyMap == Recency!Spec
=============================================================================
