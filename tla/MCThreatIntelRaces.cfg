SPECIFICATION Spec
CONSTANTS
    a = a
    NoIP = NoIP
    IPs = {a}
    Reqs = {1, 2}
    Signals <- MCBoth
    Configs <- MCOneConfig
    MaxLevel = 4
    XPDecayIdle = 2
    LevelDecayIdle = 288
    SoftBlock = 1
    Retention = 5760
    StateRetention = 5760
    Instants <- MCDecay
    Entries = {"edge"}
    AdminOps = {}
    Restarts = TRUE
INVARIANTS
    TypeOK
    XPBounded
    OneBanAtATime
