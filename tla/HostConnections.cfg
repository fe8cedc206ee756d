\* A box and a runner, two connections and two keys each; a request is handled
\* to its end and a rebuilt object gets only the sockets that are open.
CONSTANTS
    box = box
    run = run
    b1 = b1
    b2 = b2
    r1 = r1
    r2 = r2
    s1 = s1
    s2 = s2
    s3 = s3
    Hosts = {box, run}
    Ephemeral = {run}
    CoreRevoked = {}
    Sockets = {b1, b2, r1, r2}
    HostOf <- MCHostOf
    NoSocket = NoSocket
    CryptoYields = FALSE
    ClosingListed = FALSE
    Stranded = 1
    MaxKeys = 2
    MaxTicks = 2
SPECIFICATION HostsSpec
INVARIANTS
    HostsTypeOK
    OpenIsCurrent
    RegistryFollowsSocket
    RevokedIsOut
    
PROPERTIES
    NoLiveRetirement
SYMMETRY Symmetry
