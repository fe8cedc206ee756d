\* Two boxes, one start and one read, three calls: enough for a call, its
\* retry elsewhere, and a third that meets the late replies of both.
CONSTANTS
    Hosts = {h1, h2}
    Ids = {s1, r1}
    MutatingIds = {s1}
    MaxCalls = 3
SPECIFICATION Spec
INVARIANTS
    TypeOK
    WaiterPerCall
    
    

    
SYMMETRY Symmetry
