SPECIFICATION FairSpec
CONSTANTS
    Slots = {1, 2}
    MaxSlotSessions = 1
    MaxOpenings = 2
    MaxWire = 2
    MaxLost = 1
    None = None
PROPERTIES
    ClosesEnd
INVARIANTS
    TableShared
    NumbersNeverCross
    SidesAgree
    EventsTellTheTable
