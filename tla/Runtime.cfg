SPECIFICATION FairSpec
CONSTANTS
    f1 = f1
    f2 = f2
    p1 = p1
    p2 = p2
    api = api
    Listener = listener
    Flows = {f1, f2}
    Peers = {p1, p2}
    Reporters = {listener, api}
    MaxDownPeers = 1
    MaxWorkers = 2
    Plans <- MCPlans
INVARIANTS NoRunOutlivesItsPeer JoinTellsOrigin FailedSpawnIsUndone IdleMeansDone
PROPERTY EverythingReturns
CHECK_DEADLOCK FALSE
