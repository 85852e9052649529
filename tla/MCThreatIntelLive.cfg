SPECIFICATION FairSpec
CONSTANTS
    a = a
    NoIP = NoIP
    IPs = {a}
    Reqs = {1}
    Signals <- MCScans
    Configs <- MCOneConfig
    MaxLevel = 4
    XPDecayIdle = 2
    LevelDecayIdle = 288
    SoftBlock = 1
    Retention = 5760
    StateRetention = 5760
    Instants <- MCDecay
    Entries = {"edge"}
    AdminOps = {"block", "unblock"}
    Restarts = FALSE
PROPERTIES
    HardLevelIsBlocked
    HistoryRepaired
    BlockEventuallyLifted
