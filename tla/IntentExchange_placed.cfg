\* A start, and the same start sent again after its timer.
CONSTANTS
    Hosts = {h1, h2}
    Ids = {s1}
    MutatingIds = {s1}
    MaxCalls = 2
SPECIFICATION Spec
INVARIANT OneHostPerId
