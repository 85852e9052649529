SPECIFICATION Spec
CONSTANTS
    Reqs = {1, 2}
    Hosts = {"h"}
    Classes = {"human", "crawler"}
    Clients = {"c"}
    QueueCap = 1
    StreamCap = 1
    MaxRequests = 2
    MaxStreams = 2
    MaxStarts = 2
INVARIANTS
    NeverCountedTwice
    EveryRequestCounted
    NoStatisticsWithoutHost
PROPERTIES
    RequestsEnd
    RecorderDrains
\* a returned recorder and finished requests leave nothing to do
CHECK_DEADLOCK FALSE
