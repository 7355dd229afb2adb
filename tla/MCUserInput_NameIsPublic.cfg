SPECIFICATION Spec
CONSTANTS
    Lines <- FewLines
    MaxLines = 4
INVARIANTS
    NameIsPublic
CHECK_DEADLOCK FALSE
