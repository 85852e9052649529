SPECIFICATION FairSpec
CONSTANTS
    a = a
    b = b
    p = p
    NoIP = NoIP
    V4 = {a}
    V6 = {}
    Private = {p}
    Reqs = {1}
    Loop = 0
    Chunk = 1
    Handlers = {"event", "block", "unblock", "config"}
INVARIANT TypeOK
PROPERTIES
    BlockReachesKernel
    
    ChainEventuallyDrops
