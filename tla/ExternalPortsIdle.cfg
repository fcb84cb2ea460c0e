SPECIFICATION LiveSpec
CONSTANTS
    Plans <- MCPlans
    InCapacity = 1
    OutCapacity = 1
    Budget = 1
    MaxIdleSweeps = 1
CHECK_DEADLOCK FALSE
PROPERTY ClosedInputsEnd
ACTION_CONSTRAINT LocalFirst
