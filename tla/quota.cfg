CONSTANTS
    Records = {"r1", "r2"}
    NoRecord = ""
    Lists <- MCLists
    Truths <- MCTruths
    HostCalls = {h1}
    Panel = panel
SPECIFICATION QuotaSpec
INVARIANTS
    SnapshotTellsExhaustion
    EveryRecordNoted
    RowsKeepIdentity
