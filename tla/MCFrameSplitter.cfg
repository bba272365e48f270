SPECIFICATION Spec
CONSTANTS
    Shapes <- MCShapes
    Stamps = {1, 2}
    Infinity = 3
    MaxSent = 3
    MaxCancels = 1
INVARIANT TypeOK
PROPERTIES KeepsRuns InputIsRead
CHECK_DEADLOCK FALSE
