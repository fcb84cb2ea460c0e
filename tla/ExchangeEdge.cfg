SPECIFICATION LiveSpec
CHECK_DEADLOCK FALSE
CONSTANTS
    Workers = {1, 2}
    Plans <- MCPlans
    Capacity = 1
    Times <- Pairs
    Minimum <- MCMinimum
    LessEqual <- PairLeq
    MaxFailures = 1
INVARIANTS
    ExactlyOnceInOrder
    MarksAreHonest
ACTION_CONSTRAINT LocalFirst
PROPERTY EveryEdgeEnds
