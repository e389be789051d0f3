SPECIFICATION FairSpec
CONSTANTS
    DrainBatch = 2
    TickPeriod = 1
    RetryInterval = 2
    MaxFrames = 2
    MaxEvents = 1
    MaxCommands = 1
    None = None
INVARIANTS WatchTellsGate NoStrandedFrame
PROPERTIES TicksGoOn ResetsRetried
