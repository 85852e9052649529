SPECIFICATION Spec
CONSTANTS
    a = a
    b = b
    r1 = r1
    r2 = r2
    NoIP = NoIP
    Sync = Sync
    Maint = Maint
    Reqs = {r1}
    Labels = {}
    Standing = {"apex"}
    IPs = {a, b}
    FirstIP = a
    FirstStored = {a}
    TornIPs = {NoIP}
    Modes = {"cloudflare"}
    Ops = {"upsert_domain", "dyndns", "settings", "view", "sync", "maint"}
    MaxIDs = 2
    MaxStarts = 2
    MaxEnv = 1
PROPERTIES
    RecordsFollowAddress
