SPECIFICATION Spec
CONSTANTS
  a = a
  b = b
  Nodes = {a, b}
  Workers <- Both
  MaxRecords <- OneFromA
  MaxQueue = 1
  Scenarios <- AllFaults
  Modes = {TRUE}
INVARIANTS OkMeansDelivered GoodbyeIsFinal AckMeansArrived StopLosesNothing 
ACTION_CONSTRAINT OneAtATime
ACTION_CONSTRAINT Promptly
