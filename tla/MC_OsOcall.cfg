\* Every sequence of wrapper calls on names and paths of up to two bytes
\* and values of up to one byte, each OCALL answering or failing.
CONSTANTS
    EQ = EQ
    NUL = NUL
    A = A
    Other <- MCOther
    Dirs <- MCDirs
    MaxName = 2
    MaxValue = 1

SPECIFICATION Spec

PROPERTY OcallsPassExactBytes
INVARIANT GetenvReadsStore
