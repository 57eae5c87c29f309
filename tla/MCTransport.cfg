CONSTANTS
    MinLength = 4
    LineBytes = 3
    Messages <- MCMessages
    PieceSizes = {1, 2, 5}
SPECIFICATION Spec
INVARIANTS ArrivesWhole
PROPERTIES Settles
CHECK_DEADLOCK FALSE
