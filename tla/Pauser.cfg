\* SIGUSR1 (1) and another signal, one that is dropped until it is handled (2).
CONSTANTS
    NSIG = 3
    SIGUSR1 = 1
    RealTime = {}
    Uncatchable = {}
    Stop = {}
    Harmless = {2}
    SIGCONT = 2
    MaxSent = 4
SPECIFICATION Spec
INVARIANT IgnoresAfterThree
CHECK_DEADLOCK FALSE
