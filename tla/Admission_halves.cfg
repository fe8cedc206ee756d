CONSTANTS
    p1 = p1 p2 = p2 j1 = j1 v1 = v1 m1 = m1 m2 = m2 alice = alice bob = bob box = box desk = desk
    AnyName = AnyName Nobody = Nobody Wrong = Wrong
    Pins = {p1, p2}
    JobTickets = {j1}
    VmTickets = {v1}
    Starting = {}
    People = {alice, bob}
    OwnerOf <- MCOwnerOf
    PinNames = {box, desk}
    BoundTo <- MCBoundTo
    Readmits = {p2}
    Machines = {m1, m2}
    TTL <- MCTTL
    PerPerson = 1
    MaxPending = 2
    MaxSpent = 1
    MaxLive = 1
    MaxFailures = 1
    Window = 2
    Step = 1
    PenaltyMax = 2
    MaxQueue = 1
    Mixes <- MCMixes
    MaxArrivals = 4
    MaxClock = 3
SPECIFICATION Spec
SYMMETRY Machinery
INVARIANTS BothHalves
