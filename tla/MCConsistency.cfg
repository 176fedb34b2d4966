CONSTANTS
    Nodes = {1, 2, 3}
    Dangling = {9}
    Heads = {1}
    CIds = {1, 2}
    MaxTs = 2
    TypOf <- MCTypOf
SPECIFICATION SCSpec
INVARIANTS SCTypeOK LevelRight ChildrenDone HandOver LevelExact TotalOrdersMean PartialOrdersMean
PROPERTIES TerminatesOnTrees
