SPECIFICATION Spec
CONSTANTS
    Lines <- ShortLines
    MaxLines = 3
INVARIANTS
    TypeOK
    OnlyGrammarIsSent
    ReadyLinesAreKnown
    NameIsAllowed
    FitsBuffer
PROPERTIES
    FaultyLinesKeepName
CHECK_DEADLOCK FALSE
