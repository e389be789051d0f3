SPECIFICATION Spec
CONSTANTS
    Base = 8
    Half = 4
    MaxTpduSize = 44
    Malformed = Malformed
    Slots = 2
    Sessions = {1, 2}
    Interests <- MCInterests
    Inputs <- MCInputs
    Dialogues <- MCDialogues
    Chunks = {5, 99}
    Answers <- MCAnswers
    Walls <- MCWalls
    MaxObjectSize = 12
    MaxNow = 3
    MaxRevision = 3
    None = None
INVARIANTS ApdusArrive InfoFromLatest TimeIsTold ObjectsWhole RepliesReadable
