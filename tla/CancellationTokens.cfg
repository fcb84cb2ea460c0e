SPECIFICATION LiveSpec
CONSTANTS
  NoToken = NoToken
  NoThread = NoThread
  NoReason = NoReason
  root = root
  dataflow = dataflow
  w1 = w1
  w2 = w2
  p1 = p1
  p2 = p2
  p3 = p3
  Tokens <- MCTokens
  Threads <- MCThreads
  Parent <- MCParent
  Up <- MCUp
  Stops = {"user", "shutdown"}
  Failures = {"worker", "network"}
  MinPruneAt = 1
  Plans <- MCPlans
CHECK_DEADLOCK FALSE
INVARIANTS ReasonIsStable
PROPERTIES CancelIsNoticed FailureStopsDrain
