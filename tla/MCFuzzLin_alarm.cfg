\* Two clients share one key of a linearizable service.
CONSTANTS
    c1 = c1
    c2 = c2
    v1 = v1
    Null = Null
    Clients = {c1, c2}
    Keys = {1}
    Values = {v1}
    KeyPool <- MCSharedPool
    OpKinds = {"Swap", "Get", "Delete"}
    TotalOps = 5
    REMAIN_THRESH = 3
    Replies <- MCServiceReplies
    ServiceResp <- MCServiceResp
SPECIFICATION LSpec
SYMMETRY MCSymmetry
INVARIANTS NoFalseAlarm
