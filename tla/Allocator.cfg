CONSTANTS
    LEN_SIZE = 1
    PTR_SIZE = 1
    Sizes <- MCSizes
    ForeignSizes <- MCForeignSizes
    Limit = 16
    HALF = 32
    NULL = NULL
    Junk = Junk
SPECIFICATION FairSpec
INVARIANTS TypeOK HeapPartition PayloadFits FreeListSound TopTrimmed
PROPERTIES ShrinkTerminates ImplementsHeap
\* The program stops when sbrk fails and its result is dereferenced.
CHECK_DEADLOCK FALSE
