SPECIFICATION LiveSpec
CONSTANTS
    Plans <- MCPlans
    InCapacity = 1
    OutCapacity = 1
    Budget = 1
    MaxIdleSweeps = 2
CHECK_DEADLOCK FALSE
INVARIANTS AcceptedIsDelivered OkMeansProduced
PROPERTIES CancelEndsRun ClosedInputsEnd
ACTION_CONSTRAINT LocalFirst
