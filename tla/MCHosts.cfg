SPECIFICATION Spec
CONSTANTS
    a = a
    b = b
    r1 = r1
    r2 = r2
    NoIP = NoIP
    Sync = Sync
    Maint = Maint
    Reqs = {r1, r2}
    Labels = {"www"}
    Standing = {"apex"}
    IPs = {a}
    FirstIP = a
    FirstStored = {NoIP, a}
    TornIPs = {}
    Modes = {"cloudflare", "manual"}
    Ops = {"create", "toggle", "retry", "remove", "remove_domain", "deactivate", "upsert_domain"}
    MaxIDs = 2
    MaxStarts = 1
    MaxEnv = 1
INVARIANTS
    TypeOK
    NoOrphanHosts
PROPERTIES
    PendingResolves
\* the loops are off and the handlers of the run are finite
CHECK_DEADLOCK FALSE
