\* A grace shorter than the interval, as shipped (15 s and 20 s), and one of more
\* than two intervals, as the transport's own test has it, so that sockets are
\* given up and grace timers outlive them.
CONSTANTS
    Interval = 2
    Graces = {1, 5}
    MaxSockets = 3
    MaxQuiet = 3
SPECIFICATION FairSpec
INVARIANTS
    TypeOK
    OneWayIn
    NeverDropped
PROPERTIES
    OnlySilenceDrops
    BackInFleet
