SPECIFICATION Spec
CONSTANTS
    a = a
    NoIP = NoIP
    IPs = {a}
    Reqs = {1}
    Signals <- MCScans
    Configs <- MCTwoConfigs
    MaxLevel = 4
    XPDecayIdle = 2
    LevelDecayIdle = 288
    SoftBlock = 1
    Retention = 5760
    StateRetention = 5760
    Instants <- MCShort
    Entries = {"auth", "forward"}
    AdminOps = {"block", "allow", "unallow", "config"}
    Restarts = FALSE
INVARIANTS
    OneBanAtATime
