SPECIFICATION Spec
CONSTANTS
    BufSize = 6
    HeaderSize = 2
    Length <- MCLength
    MaxRecords = 4
    MaxFiles = 2
INVARIANTS
    RecordsInOrder
    NothingWithheld
    EntriesStayValid
    ReaderBounded
    BounceOnce
CHECK_DEADLOCK FALSE
