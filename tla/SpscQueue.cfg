SPECIFICATION FairSpec
CONSTANTS
    Item = {z, a}
    Zero = z
    Capacity = 4
INVARIANTS
    TypeOK
    NoSlotRace
PROPERTIES
    ImplementsFifo
