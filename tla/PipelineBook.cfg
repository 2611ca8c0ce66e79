SPECIFICATION DataSpec
CONSTANTS
    BookPrice = {0, 1}
    EntryId = {0, 1}
    EntryQty = {0, 1, 2}
    QueueLimit = 1
    MaxEvents = 3
INVARIANTS
    LevelsMatchEntries
    ReplayMatchesBook
    ReplayKnowsLiveOrders
    BookAheadOfQueue
PROPERTIES
    DeletesNameOrders
CHECK_DEADLOCK FALSE
