\* One clock ahead or behind by MaxSkew, a check that may take a tick, a cache that
\* remembers for exactly as long as both add up to, and room for one reply in it:
\* three deliveries are enough to evict one and have it sent again.
CONSTANTS
    Ids = {s1, s2, l1}
    MutatingIds = {s1, s2}
    MaxSkew = 1
    ReplayTTL = 3
    ReplayMax = 1
    MaxCheck = 1
    Stamps <- MCStamps
    MaxFrames = 3
    MaxClock = 4
SPECIFICATION FairSpec
INVARIANTS
    TypeOK
    OneRunPerEnvelope
    NoRerunWhileRemembered
    ReplyIsOwnRun
    OneEntryPerId
PROPERTIES
    EveryFrameAnswered
CHECK_DEADLOCK FALSE
