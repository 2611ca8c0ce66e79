SPECIFICATION Spec
CONSTANTS
    Window = 4
    BucketSize = 2
    Ring = 4
    Mid <- MCMid
    TradePrice <- MCTradePrice
    Volume <- MCVolume
    Gap <- MCGap
    MaxTime = 40
    MaxEvents = 5
INVARIANTS
    NetDeltaExact
    WindowExact
PROPERTIES
    ShortSilenceHarmless
CHECK_DEADLOCK FALSE
