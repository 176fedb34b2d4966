\* Two clients share two keys of a linearizable service that never fails.
CONSTANTS
    c1 = c1
    c2 = c2
    v1 = v1
    Null = Null
    Clients = {c1, c2}
    Keys = {1, 2}
    Values = {v1}
    KeyPool <- MCSharedPool
    OpKinds = {"Put", "Scan", "Delete"}
    TotalOps = 3
    REMAIN_THRESH = 2
    Replies <- MCServiceReplies
    ServiceResp <- MCServiceResp
SPECIFICATION HealthySpec
INVARIANTS NoFalseAlarm
PROPERTIES CompletesHealthy
