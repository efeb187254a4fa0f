---------------------------- MODULE MCScheduler ----------------------------
(* Values of Scheduler's constants for TLC. *)
EXTENDS Scheduler, TLC

CONSTANTS a1, a2, x

\* The host prefers a2.
PreferSecond == [a \in Accounts |-> IF a = a2 THEN 5 ELSE 1]

\* Both accounts beside a foreign candidate, or the foreign one alone.
MixedOrForeign == {{a1, a2, x}, {x}}

\* Goroutines are alike, and so are conversations.
Alike == Permutations(Pickers) \union Permutations(Keys)
=============================================================================
