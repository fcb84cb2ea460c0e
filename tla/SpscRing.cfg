\* Two usable slots of four allocated, indices of three bits: the ring is full and
\* empty with its indices on either side of the wrap.
CONSTANTS
    Items = {v1, v2}
    Capacity = 2
    Size = 4
    W = 8
    Uninit = Uninit
SPECIFICATION FairSpec
INVARIANTS IInv SlotSafety DropExact
PROPERTIES ImplementsFifo NobodyIsForgotten
CHECK_DEADLOCK FALSE
