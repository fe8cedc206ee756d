\* The shipped times, 20 s and 15 s, in ticks of 5 s, and one socket.
CONSTANTS
    Interval = 4
    Graces = {3}
    MaxSockets = 1
    MaxQuiet = 5
SPECIFICATION FairSpec
PROPERTY SilenceIsDropped
