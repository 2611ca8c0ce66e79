SPECIFICATION FairSpec
CONSTANTS
    HasSymbolId = TRUE
    FastLogout = 2
    MaxLogons = 3
    BookPrice = {0}
    EntryId = {0}
    EntryQty = {0, 1}
    QueueLimit = 1
    MaxEvents = 2
INVARIANTS
    TypeOK
    SilentOnlyAfterFastLogout
    NoGhostOrders
    ExitOnWholeEntries
PROPERTIES
    AuthFailureStops
    SignalStops
CHECK_DEADLOCK FALSE
