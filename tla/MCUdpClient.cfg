SPECIFICATION Spec
CONSTANTS
    IdSpace = 8
    MaxRetrans = 1
    MaxMsgs = 2
    Ports = {"base", "dyn", "unset"}
    ServerPort = "base"
    UnsetPort = "unset"
    Inputs <- MCInputs
    Datagrams <- MCDatagrams
INVARIANTS
    TypeOK
    StartIsClean
    ReplyOutstanding
    StopAndWait
    ShownOnce
    ConfirmsAreSeen
PROPERTIES
    IdsAreNew
    SeenIsConfirmed
    DepartureSpec
CHECK_DEADLOCK FALSE
