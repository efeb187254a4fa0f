CONSTANT Polls = {p1, p2, p3}
SPECIFICATION LoginSpec
INVARIANTS OneToken TokenReachesHost
PROPERTY EveryPollReturns
