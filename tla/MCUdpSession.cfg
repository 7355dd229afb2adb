SPECIFICATION FairSession
CONSTANTS
    IdSpace = 6
    MaxRetrans = 1
    MaxMsgs = 3
    MaxSrvMsgs = 2
    Ports = {"base", "dyn", "unset"}
    ServerPort = "base"
    UnsetPort = "unset"
    DynPort = "dyn"
    Inputs <- MCInputs
    Datagrams <- MCDatagrams
INVARIANTS
    SessionTypeOK
    OpenIsAccepted
    PromptMeansAnswered
    DroppedWasPrinted
PROPERTIES
    ConfirmsAreReal
    ChannelSpec
    PromptReturns
    ExitEnds
CHECK_DEADLOCK FALSE
