SPECIFICATION Spec
CONSTANTS
    IdSpace = 8
    MaxRetrans = 1
    MaxMsgs = 2
    Ports = {"base", "dyn", "unset"}
    ServerPort = "base"
    UnsetPort = "unset"
    Inputs <- MCInputs
    Datagrams <- MCDatagrams
INVARIANTS
    FaultyLinesStayLocal
CHECK_DEADLOCK FALSE
