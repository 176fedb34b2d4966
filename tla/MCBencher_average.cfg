CONSTANTS
    NumClis = 3
    Keys = {1}
    Counts = {1}
    MaxOps = 1
    Latencies = {0, 12}
SPECIFICATION Spec
INVARIANTS OverallAverage
