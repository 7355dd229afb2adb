SPECIFICATION FairSpec
CONSTANTS
    Lines <- MCLines
    Messages <- MCMessages
    MaxLines = 2
    MaxMessages = 2
INVARIANTS
    TypeOK
    OneRequestAtATime
    InputHeldBack
PROPERTIES
    DepartureSpec
    ReplyIsTaken
    CloseEnds
    LinesAreRead
CHECK_DEADLOCK FALSE
