SPECIFICATION Spec
CONSTANTS
    FdLimit = 26
    Contested = {3, 4, 5, 10, 11, 20, 25}
    MaxOthers = 2
    OldLengths = {0, 3, 5, 7}
CHECK_DEADLOCK FALSE
INVARIANTS Dup2Exact ContentAsDocumented
