SPECIFICATION Spec
CONSTANTS
    Price <- MCPrice
    FillPrice <- SlippedFills
    Quotes <- MCQuotes
    ExecTypes <- TwoExecTypes
    TimeMod = 64
    MaxDailyLoss = 200
    TickSize = 1
    ConsecSlips = 2
    SlipTicks = 200
    AbortTicks = 500
    CooldownDuration = 2
    PositionTimeout = 1
    MaxReports = 1
    Lot = 1
    MaxTime = 3
    MaxSeq = 3
    MaxQueue = 1
INVARIANTS
    TypeOK
    EntryNeverOverwrites
    OneEntryPastFuse
    OneEntryPerCooldown
CHECK_DEADLOCK FALSE
