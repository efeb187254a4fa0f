----------------------------- MODULE MCExecutor -----------------------------
(* Values of Executor's constants for TLC. *)
EXTENDS Executor

\* One refusal that is waited out and one, over the cap, that is not.
TwoRefusals == {[payload |-> TRUE, retryAfter |-> r, waitTime |-> 0] : r \in {2, 4}}
=============================================================================
