CONSTANTS
    EQ = EQ
    SEP = SEP
    A = A
    Other <- MCOther
    MaxLine = 3
    MaxLines = 2
    MaxPath = 2
    MaxPaths = 3

SPECIFICATION Spec

INVARIANT EnvListsProcessVariables
