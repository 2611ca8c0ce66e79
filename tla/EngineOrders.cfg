SPECIFICATION FlowingSpec
CONSTANTS
    Price <- MCPrice
    FillPrice <- CleanFills
    Quotes <- MCQuotes
    ExecTypes <- HandledExecTypes
    TimeMod = 64
    MaxDailyLoss = 200
    TickSize = 1
    ConsecSlips = 2
    SlipTicks = 200
    AbortTicks = 500
    CooldownDuration = 2
    PositionTimeout = 1
    MaxReports = 1
    Lot = 2
    MaxTime = 2
    MaxSeq = 2
    MaxQueue = 1
INVARIANTS
    FlagBackedByOpenOrder
    LiveOrdersKnown
PROPERTIES
    TimeoutForcesClose
    ShutdownCompletes
CHECK_DEADLOCK FALSE
