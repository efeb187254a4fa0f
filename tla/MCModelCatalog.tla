--------------------------- MODULE MCModelCatalog ---------------------------
(* The instance of ModelCatalog that TLC checks.  In the first catalog two   *)
(* models share a name and a third is called like the ID of one of them; in  *)
(* the second one model is in two scenes under two names; the third is empty.*)
EXTENDS ModelCatalog, TLC

CONSTANTS i1, i2, i3, n1, n2

Entry(id, name, reasoning, limit) ==
    [id |-> id, name |-> name, meta |-> [reasoning |-> reasoning, limit |-> limit]]

MCCatalogs == {
    << <<Entry(i1, n1, TRUE, 1)>>, <<Entry(i2, n1, FALSE, 2)>>, <<Entry(i3, i2, FALSE, 3)>> >>,
    << <<Entry(i1, n1, TRUE, 1), Entry(i2, NoWord, FALSE, 2)>>,
       <<Entry(NoWord, n1, FALSE, 1), Entry(i1, n2, TRUE, 1)>> >>,
    <<>>}

MCSymmetry == Permutations(Refreshers)
============================================================================
