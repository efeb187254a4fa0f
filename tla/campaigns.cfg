CONSTANTS
    a1 = a1
    a2 = a2
    Accounts = {a1, a2}
    NoIndex = NoIndex
    FileLists <- MCLists
    Offers = {daily, share}
    Benefits = {daily}
    Requests = {r1, r2}
    Claimer = Claimer
    User = User
    Nobody = Nobody
    DayLen = 3
    ClaimHour = 1
    Jitters <- MCJitters
    MaxClock = 6
    MaxRestarts = 1
SPECIFICATION Spec
INVARIANTS
    EveryAccountTried
    ReplayComesFromOutside
    NoDayMissed
SYMMETRY MCSymmetry
CHECK_DEADLOCK FALSE
