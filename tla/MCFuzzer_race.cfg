\* Two clients race on one key.
CONSTANTS
    c1 = c1
    c2 = c2
    v1 = v1
    Null = Null
    Clients = {c1, c2}
    Keys = {1}
    Values = {v1}
    KeyPool <- MCSharedPool
    OpKinds = {"Put", "Get", "Delete"}
    TotalOps = 4
    REMAIN_THRESH = 3
    Replies <- MCReplies
SPECIFICATION Spec
SYMMETRY MCSymmetry
INVARIANTS TypeOK VerdictsFinal TrimInvisible NoOverdueCheck ResponsesAccounted
PROPERTIES CheckerIsOracle LinksKept
