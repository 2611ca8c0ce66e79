SPECIFICATION Spec
CONSTANTS
    Price <- MCPrice
    TimeMod = 64
    MaxDailyLoss = 700
    TickSize = 1
    ConsecSlips = 3
    SlipTicks = 200
    AbortTicks = 500
    CooldownDuration = 3
    PositionTimeout = 2
    MaxTime = 7
    MaxFills = 5
INVARIANTS
    TypeOK
    SlipRunStartsCooldown
    NoSpuriousCooldown
    CooldownBlocks
    FuseTracksLoss
