\* A single client with two keys, answering anything.
CONSTANTS
    c1 = c1
    v1 = v1
    Null = Null
    Clients = {c1}
    Keys = {1, 2}
    Values = {v1}
    KeyPool <- MCSharedPool
    OpKinds = {"Put", "Swap", "Get", "Scan", "Delete"}
    TotalOps = 3
    REMAIN_THRESH = 2
    Replies <- MCUnrulyReplies
SPECIFICATION FairSpec
INVARIANTS SoloExact
PROPERTIES Terminates
