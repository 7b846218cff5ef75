CONSTANTS
    a = a
    old = old
    NUL = NUL
    Bytes <- MCBytes
    Sources <- MCSources
    Targets <- MCTargets
    Batch = 2
    MaxLen = 8
SPECIFICATION Spec
INVARIANT NullBytesWritten
\* The programs end.
CHECK_DEADLOCK FALSE
