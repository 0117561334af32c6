\* FailedCommandLeavesNothing against the autoscale commands.
CONSTANTS
    f1 = f1
    f2 = f2
    vInt = vInt
    vQty = vQty
    vBad = vBad
    Functions <- MCFunctions
    Values <- MCValues
    Int32Values <- MCInt32Values
    QtyValues <- MCQtyValues
    Metrics <- MCMetrics
    MaxFailures = 2
    MaxOps = 4
SPECIFICATION Spec
PROPERTY FailedCommandLeavesNothing
\* The commands are bounded: a state after the last one is not an error.
CHECK_DEADLOCK FALSE
