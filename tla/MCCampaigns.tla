---------------------------- MODULE MCCampaigns ----------------------------
(* The instance of Campaigns that TLC checks: two accounts, of which the    *)
(* host's list may hold one twice, beside files that are not the plugin's.  *)
EXTENDS Campaigns, TLC

CONSTANTS a1, a2

File(a)   == [auth |-> a, qoder |-> TRUE]
Foreign   == [auth |-> a2, qoder |-> FALSE]
MCLists   == {<<File(a1), File(a2), File(a1)>>, <<File(NoIndex), Foreign>>}
MCJitters == 0 .. 1
MCSymmetry == Permutations(Requests)
============================================================================
