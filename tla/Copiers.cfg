CONSTANTS
    a = a
    old = old
    NUL = NUL
    Bytes <- MCBytes
    Sources <- MCSources
    Targets <- MCTargets
    Batch = 2
    MaxLen = 8
SPECIFICATION FairSpec
INVARIANTS
    ExactCopy PrefixOnly SparseCopy SelfCopyHarmless TeeInStep
PROPERTY Ends
\* The programs end.
CHECK_DEADLOCK FALSE
