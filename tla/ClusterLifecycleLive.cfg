SPECIFICATION LiveSpec
CHECK_DEADLOCK FALSE
CONSTANTS
  a = a
  b = b
  Nodes = {a, b}
  Workers <- One
  MaxRecords <- TwoFromA
  MaxQueue = 1
  Scenarios <- WriteFaults
  Modes = {TRUE, FALSE}
INVARIANT OrderlyEndIsClean
PROPERTY EveryNodeEnds
