SPECIFICATION Spec
CONSTANTS
    r1 = r1
    r2 = r2
    Reqs = {r1, r2}
    Passwords = {"p"}
    Tokens = {"t"}
    SIDs = {"s"}
    Ops = {"login", "enrol", "disable", "admin"}
    DelayStep = 1
    DelayCap = 2
    SessionTTL = 1
    ResetTTL = 1
    MaxTime = 0
    MaxFails = 1
    MaxUsers = 1
    MaxSecrets = 2
    MaxCodes = 2
INVARIANTS
    RecoveryCodeOnce
    ConfirmedSecret
    MFANotSkipped
SYMMETRY MCSymmetry
