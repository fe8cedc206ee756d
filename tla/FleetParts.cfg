CONSTANTS
    x1 = x1 x2 = x2
    p1 = p1 p2 = p2 j1 = j1 v1 = v1 m1 = m1 m2 = m2 alice = alice bob = bob box = box desk = desk
    AnyName = AnyName Nobody = Nobody Wrong = Wrong
    Pins = {p1, p2}
    JobTickets = {j1}
    VmTickets = {v1}
    Starting = {j1}
    People = {alice, bob}
    OwnerOf <- MCOwnerOf
    PinNames = {box, desk}
    BoundTo <- MCBoundTo
    Readmits = {p2}
    Machines = {x1, x2}
    TTL <- MCTTL
    PerPerson = 1
    MaxPending = 2
    MaxSpent = 1
    MaxLive = 1
    MaxFailures = 1
    Window = 2
    Step = 2
    PenaltyMax = 2
    MaxQueue = 1
    Mixes <- MCMixes
    MaxArrivals = 3
    MaxClock = 3

    s3 = s3 ja = ja run = run
    Hosts = {run}
    Ephemeral = {}
    CoreRevoked = {run}
    Sockets = {x1, x2, s3}
    HostOf <- MCHostOf
    NoSocket = NoSocket
    CryptoYields = TRUE
    ClosingListed = TRUE
    Stranded = 1
    MaxKeys = 3
    MaxTicks = 1

    Relays = {x1, x2}
    Jobs = {ja}
    NoJob = NoJob
    NoRelay = NoRelay
    MaxEach = 1
    MaxStreams = 1
    MaxSetups = 1
    MaxWire = 2
    MaxRelayUpsets = 1

    pa = pa pb = pb pc = pc ha = ha hb = hb
    Panes = {pa, pb, pc}
    PaneHost <- MCPaneHost
    Quiet = 2
    HostWindow = 3
    HostEach = 1
    Estimate = 2
    Costs = {1}
    Budget = 4
    DayLength = 2
    MaxAsks = 3
    MaxHours = 3

    SessionNames = {n1}
    NoRecord = NoRecord
    NoName = NoName
    Cap = 1
    RcRequired = TRUE
    Launches = {x1, x2}
    MaxBoots = 1

    Releases = {ra, rb, rc}
    NoRelease = NoRelease
    Installed = ra
    NoSession = {rb}
    NoLink = {rc}
    KeepReleases = 2
    MaxUpdates = 2
    MaxMishaps = 1

    Boxes = {box, run}
    Temporary = {run}
    BoxPerson <- MCBoxPerson
    Sessions = {n1}
    Persons = {alice, bob}
    Anyone = Anyone
    NoPerson = NoPerson
    StaleAge = 1
    PinAge = 2
    DroppedAge = 2
    MaxEvents = 4

    Kinds = {ka}
    MachineIds = {v1, v2}
    Holders = {x1, x2}
    NoWish = NoWish
    NotEnrolled = NotEnrolled
    MaxReady = 1
    Pending = 1
    MaxChanges = 1

    SignIns = {g1, g2}
    First = g1
    Callers = {x1, x2}
    NothingTold = NothingTold
    NotesKept = 3
    MaxTokens = 2
    MaxTime = 2
    MaxTroubles = 1

    Members = {alice, bob}
    Admins = {alice}
    FleetBoxes = {x1, x2}
    EnrolledBy <- MCEnrolledBy
    RemovalsKept = 1
    NoAsk = NoAsk
    MaxRemovals = 2
    MaxAbsences = 1
SPECIFICATION PartsSpec
SYMMETRY Swap
VIEW Moving
CHECK_DEADLOCK FALSE
INVARIANTS
    PartsTypeOK
    RacesAgree
      LookupsTakeTurns FreeGuessesBounded
    StreamsServeAUse  StoppedStaysDown 
     ReachesItsPerson GivenUpStaysAway EndToldOnce OwedUntilPaid
PROPERTIES
     SurplusIsStale SpentOnlyOnceLost
