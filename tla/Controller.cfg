SPECIFICATION FairSpec
CONSTANTS
    SlotsNum = 1
    ResponseTimeout = 2
    CreateTimeout = 3
    PollInterval = 1
    RetryInterval = 2
    StatusInterval = 1
    MaxStep = 2
    MaxQueue = 2
    MaxRestore = 2
    Infos <- AllInfos
    Kinds <- BothKinds
    None = None
INVARIANTS TimersRunning SlotsOrderly CamStatusTrue
PROPERTIES SilenceEnds ConnectionDecided LinkResumes DataIsAskedFor
