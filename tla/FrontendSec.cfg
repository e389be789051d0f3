SPECIFICATION SecSpec
CONSTANTS
    Word = 1073741824
    Error = Error
    Setups <- MCSetups
    RawSequences <- MCRawSequences
    Nothing = Nothing
INVARIANTS SilentWhileTalking LineServesTune
