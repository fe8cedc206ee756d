\* A runner that dials back and drops again between two passes of the timer.
CONSTANTS
    box = box
    run = run
    b1 = b1
    b2 = b2
    r1 = r1
    r2 = r2
    s1 = s1
    s2 = s2
    s3 = s3
    Hosts = {run}
    Ephemeral = {run}
    CoreRevoked = {}
    Sockets = {s1, s2, s3}
    HostOf <- OneHostOf
    NoSocket = NoSocket
    CryptoYields = FALSE
    ClosingListed = FALSE
    Stranded = 2
    MaxKeys = 1
    MaxTicks = 4
SPECIFICATION HostsSpec
PROPERTY RetiredOnlyWhenAway
