SPECIFICATION AccessSpec
CONSTANTS
    a = a
    b = b
    s1 = s1
    s2 = s2
    ProgramNumbers <- TwoPrograms
    Contents <- SomeContents
    Systems <- TwoSystems
    Sessions <- TwoSessions
    Lossy <- OneSession
    None = None
INVARIANTS SelectionComplete ModuleFollows
