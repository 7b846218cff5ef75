\* A signal that stops (1), SIGINT (2), SIGKILL (3), a real-time one (4), SIGSTOP
\* (5) and SIGCONT (6), which is also the one that is dropped by default; four
\* signals are sent, enough for one to repeat while the others nest.
CONSTANTS
    NSIG = 7
    SIGINT = 2
    RealTime = {4}
    Uncatchable = {3, 5}
    Stop = {1, 5}
    Harmless = {6}
    SIGCONT = 6
    MaxSent = 4
SPECIFICATION FairSpec
INVARIANTS TypeOK CountExact NoSignalVanishes ReportComplete
PROPERTIES SigintEnds
\* The program exits, is killed or stays stopped, or nobody ever sends SIGINT.
CHECK_DEADLOCK FALSE
