CONSTANTS
    Clients = {1, 2}
    Keys = {0}
    NumReqs = 2
    InitVals = {1}
    MaxTs = 2
SPECIFICATION Spec
INVARIANTS TypeOK MonitorAccepts MonitorPoolCatchesUp
PROPERTIES AllFinish
