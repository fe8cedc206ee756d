\* One session, two starts of the hub: a stop while restore is under way.
CONSTANTS
    SessionNames = {n1}
    NoRecord = NoRecord
    NoName = NoName
    Cap = 1
    RcRequired = TRUE
    Launches = {l1}
    MaxBoots = 2
SPECIFICATION SessionsSpec
PROPERTY RestoreLeavesStopped
