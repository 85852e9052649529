SPECIFICATION Spec
CONSTANTS
    r1 = r1
    r2 = r2
    Reqs = {r1, r2}
    Passwords = {"p", "q"}
    Tokens = {"t"}
    SIDs = {"s"}
    Ops = {"login", "reset", "password", "delete"}
    DelayStep = 1
    DelayCap = 2
    SessionTTL = 1
    ResetTTL = 1
    MaxTime = 2
    MaxFails = 5
    MaxUsers = 2
    MaxSecrets = 0
    MaxCodes = 0
INVARIANTS
    TypeOK
    NoOrphans
    LockBounded
    
SYMMETRY MCSymmetry
