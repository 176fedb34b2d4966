CONSTANTS
    NumClis = 2
    Keys = {1, 2}
    Counts = {1, 2}
    MaxOps = 2
    Latencies = {1}
SPECIFICATION Spec
INVARIANTS TypeOK KeysCarriedOver NothingLeftBehind NoFailureMasked ScanCovers OpsSummed
PROPERTIES BenchReturns
