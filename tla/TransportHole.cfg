SPECIFICATION Spec
CONSTANTS
    s1 = s1
    Slots <- OneSlot
    MaxParts = 2
    MaxPieces = 3
    Capacity = 2
    MaxSent = 2
    MaxAnswered = 2
    MaxControl = 1
    None = None
INVARIANT DeliveredWhole
