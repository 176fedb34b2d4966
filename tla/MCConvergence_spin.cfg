CONSTANTS
    Nodes = {0, 1, 2}
    Dangling = {}
    Heads = {0, 1, 2}
SPECIFICATION Spec
PROPERTIES Terminates
