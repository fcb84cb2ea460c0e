\* No symmetry: the property is a liveness property.
CONSTANTS
    w1 = w1
    w2 = w2
    Workers = {w1, w2}
    Fresh = {u1, u2}
    Free = Free
    Ops <- MCOps
    Inputs <- MCInputs
    Outputs <- MCOutputs
    Op <- MCOp
    Edges <- MCEdges
    Hosts <- Uneven
    Initial <- MCInitial
    Reaches <- MCReaches
    Plans <- LivePlans
SPECIFICATION FairSpec
PROPERTY AllSucceed
