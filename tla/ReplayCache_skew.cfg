\* Two ticks of skew against three of memory, which the constructor allows; the
\* check takes no time, so the clocks alone are to blame.
CONSTANTS
    Ids = {s1, l1}
    MutatingIds = {s1}
    MaxSkew = 2
    ReplayTTL = 3
    ReplayMax = 2
    MaxCheck = 0
    Stamps <- MCStamps
    MaxFrames = 3
    MaxClock = 5
SPECIFICATION Spec
INVARIANT OneRunPerEnvelope
CHECK_DEADLOCK FALSE
