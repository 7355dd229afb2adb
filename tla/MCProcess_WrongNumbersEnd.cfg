SPECIFICATION Spec
CONSTANTS
    CommandLines <- MCCommandLines
INVARIANTS
    WrongNumbersEnd
CHECK_DEADLOCK FALSE
