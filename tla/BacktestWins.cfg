SPECIFICATION Spec
CONSTANTS
    BucketSize = 2
    Window = 8
    Quantile = 10
    Ring = 6
    Percentile = 60
    DeltaValue <- MCDeltaValue
    ThreshDelta = 1
    MinCancelZ <- MCMinCancelZ
    Records <- MCRecords
    Gap <- MCGap
    MaxRecords = 5
    LookForward = 8
    TickMove = 1
    SfMinCancelZ <- MCSfMinCancelZ
INVARIANTS
    WinWithinHorizon
CHECK_DEADLOCK FALSE
