SPECIFICATION FairSpec
CONSTANTS
    p1 = p1
    p2 = p2
    v1 = v1
    v2 = v2
    Programs <- TwoPrograms
    Versions <- TwoVersions
    Intervals <- FewIntervals
    Settle = 1
    Cap = 2
    Overflow = Overflow
    NoProgram = NoProgram
    Nothing = Nothing
PROPERTIES SpacedRelease LastRequestWins QueueDrains
