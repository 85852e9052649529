SPECIFICATION Spec
CONSTANTS
    r1 = r1
    r2 = r2
    Sched = Sched
    Reqs = {r1, r2}
    Keys = {"k1", "k2"}
    FirstKey = "k1"
    Phrases = {"w"}
    Foreign <- MCForeign
    Schedules <- MCSchedules
    FirstSecrets <- MCSecrets
    Ops = {"apply", "create", "now", "delete", "restore", "save"}
    MaxInterval = 2
    DefaultKeep = 1
    MaxKeep = 1
    MaxTime = 3
    MaxIds = 4
    MaxNames = 2
    MaxHeld = 1
    MaxStarts = 2
    MaxFaults = 1
    OTSTTL = 2
    UnlockTTL = 3
    CooldownTTL = 1
    MaxAttempts = 2
    MaxGen = 2
INVARIANTS
    GuessesBounded
    KeyFollowsDatabase
    NewestArchiveKept
PROPERTIES
    SetupPromise
    GateOpensWithUser
    RunsSpaced
SYMMETRY MCSymmetry
CHECK_DEADLOCK FALSE
