CONSTANTS
    w1 = w1
    w2 = w2
    Workers = {w1, w2}
    Fresh = {u1, u2, u3}
    Free = Free
    Ops <- MCOps
    Inputs <- MCInputs
    Outputs <- MCOutputs
    Op <- MCOp
    Edges <- MCEdges
    Hosts <- Uneven
    Initial <- MCInitial
    Reaches <- MCReaches
    Plans <- SafetyPlans
SYMMETRY Symmetry
SPECIFICATION Spec
INVARIANT FrontierSafe
INVARIANT NothingAfterShutdown
INVARIANT SealIsLast
INVARIANT SuccessIsGlobal
PROPERTY FrontierMonotone
