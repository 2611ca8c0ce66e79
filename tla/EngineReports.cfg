SPECIFICATION Spec
CONSTANTS
    Price <- MCPrice
    FillPrice <- CleanFills
    Quotes <- MCQuotes
    ExecTypes <- DictionaryExecTypes
    TimeMod = 64
    MaxDailyLoss = 200
    TickSize = 1
    ConsecSlips = 2
    SlipTicks = 200
    AbortTicks = 500
    CooldownDuration = 2
    PositionTimeout = 1
    MaxReports = 1
    Lot = 1
    MaxTime = 3
    MaxSeq = 2
    MaxQueue = 1
PROPERTIES
    FillsReachRisk
CHECK_DEADLOCK FALSE
