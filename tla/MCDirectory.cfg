SPECIFICATION Spec
CONSTANTS
    Reqs = {"r1", "r2"}
    Names = {"a"}
    MaxFlows = 2
    Posix = {}
    GroupSets <- MCGroupSets
    Roles = {"admin"}
    MaxIds = 2
    MaxEvents = 2
INVARIANTS
    OIDCCodeOnce
    SessionOfItsProvider
PROPERTIES
    SyncSparesOthers
    QueueDrains
    ShadowsFollow
CHECK_DEADLOCK FALSE
