SPECIFICATION Spec
CONSTANTS
    Outputs <- MCOutputs
    NodeCount = 2
    Repeats = 2
    Period = 2
    Duration = 9
    MaxTime = 10
    MaxFrames = 3
    MaxRuns = 2
INVARIANTS SuccessMeansDelivered KeyOpensSession SafeIsNewest EndsClosed NoStateAcrossJump
CHECK_DEADLOCK FALSE
