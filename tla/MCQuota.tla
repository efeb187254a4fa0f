------------------------------ MODULE MCQuota ------------------------------
(***************************************************************************)
(* An instance of Quota: two records of one account (the host registers a  *)
(* file when it scans it and again when it is saved), or one each of two   *)
(* accounts, one without an index; an account with a limit and one without,*)
(* and the flag raised for either.                                         *)
(***************************************************************************)
EXTENDS Quota

Record(id, key, indexed, label) ==
    [id |-> id, key |-> key, indexed |-> indexed, label |-> label]

Twice(first, second) ==
    << Record("r1", "a", TRUE, first), Record("r2", "a", TRUE, second) >>

MCLists ==
    { Twice("none", "none"), Twice("none", "custom"), Twice("custom", "none"),
      << Record("r2", "b", TRUE, "file"), Record("r1", "a", FALSE, "none") >> }

MCTruths ==
    { [limit |-> 2, remaining |-> 1, exceeded |-> FALSE],
      [limit |-> 2, remaining |-> 0, exceeded |-> FALSE],
      [limit |-> 0, remaining |-> 0, exceeded |-> TRUE] }
============================================================================
