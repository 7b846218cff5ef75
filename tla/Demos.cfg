SPECIFICATION FairSpec
CONSTANTS
    BUF_SIZE = 3
    NL = "nl"
    MaxGrowth = 2
    MaxText = 6
    LineCounts <- MCLineCounts
    Contents <- MCContents
    Characters <- MCCharacters
    Strings <- MCStrings
    Environs <- MCEnvirons
    Arrays <- MCArrays
    EQ = "="
    MaxEntries = 4
    MaxEnvCalls = 2
    Word = 2
    Instances = {a, b}
    MaxBytes = 3
    Files <- MCFiles
    Old = Old
    HOLE = HOLE
    QueueLength = 2
    Size = 3
    MaxDatagrams = 4
CHECK_DEADLOCK FALSE
INVARIANTS LastLines RoundTrip NoHoles OldKept AppendsKept NoSelfLoss
PROPERTIES ImplementsEnvMap Delivered
