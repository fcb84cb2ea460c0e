CONSTANTS
    na = na
    nb = nb
    ra = ra
    rx = rx
    rb = rb
    sa = sa
    sb = sb
    id1 = id1
    id2 = id2
    Nodes = {na, nb}
    Runs = {ra, rx, rb, sa, sb}
    Ids = {id1, id2}
    NoRun = NoRun
    MaxConns = 3
    WriterQueue = 2
    MaxPendingFrames = 2
    Plans <- MCPlans
SPECIFICATION LiveSpec
CHECK_DEADLOCK FALSE
INVARIANTS LaneIsFaithful BystandersUnharmed
PROPERTIES EveryRunEnds
