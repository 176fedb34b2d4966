\* One reference client with two keys, Scans included.
CONSTANTS
    c1 = c1
    v1 = v1
    Null = Null
    Clients = {c1}
    Keys = {1, 2}
    Values = {v1}
    KeyPool <- MCSharedPool
    OpKinds = {"Put", "Swap", "Get", "Scan", "Delete"}
    TotalOps = 4
    REMAIN_THRESH = 3
    Replies <- MCReplies
SPECIFICATION RSpec
INVARIANTS RefNeverAccused
