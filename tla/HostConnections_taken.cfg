\* A machine whose ticket was presented twice is revoked in the core, its socket
\* is left open, and the object hibernates.
CONSTANTS
    box = box
    run = run
    b1 = b1
    b2 = b2
    r1 = r1
    r2 = r2
    s1 = s1
    s2 = s2
    s3 = s3
    Hosts = {run}
    Ephemeral = {run}
    CoreRevoked = {run}
    Sockets = {s1, s2, s3}
    HostOf <- OneHostOf
    NoSocket = NoSocket
    CryptoYields = FALSE
    ClosingListed = FALSE
    Stranded = 1
    MaxKeys = 2
    MaxTicks = 2
SPECIFICATION HostsSpec
INVARIANT RevokedIsOut
