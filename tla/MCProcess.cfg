SPECIFICATION FairSpec
CONSTANTS
    CommandLines <- MCCommandLines
INVARIANTS
    TypeOK
    ArgumentsAsMeant
    ByeHasAddress
    WaitsAreBounded
    EndsClosed
    FailureIsTold

    
CHECK_DEADLOCK FALSE
