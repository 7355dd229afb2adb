SPECIFICATION Spec
CONSTANTS
    Lines <- LiveLines
    Messages <- LiveMessages
    MaxLines = 2
    MaxMessages = 1
INVARIANTS
    EndsByExitProgram
CHECK_DEADLOCK FALSE
