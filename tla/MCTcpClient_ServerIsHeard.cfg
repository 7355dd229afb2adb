SPECIFICATION FairSpec
CONSTANTS
    Lines <- LiveLines
    Messages <- LiveMessages
    MaxLines = 2
    MaxMessages = 3
PROPERTIES
    ServerIsHeard
CHECK_DEADLOCK FALSE
