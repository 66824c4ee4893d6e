\* Two exception objects, stacks of up to three frames (the design's
\* F1/F2/F3 scenario), every mix of the six frames.
CONSTANTS
    P1 = P1
    P2 = P2
    ForeignPayload = ForeignPayload
    NoPayload = NoPayload
    Payloads <- MCPayloads
    Fns <- MCFns
    Frames <- MCFrames
    MaxDepth = 3
    MaxExceptions = 2
    CallLen = 1

SPECIFICATION Spec

INVARIANT TypeOK
INVARIANT PadsFollowCallSites
INVARIANT PointerSafety
INVARIANT ResolvedPanics
INVARIANT ForeignIsolation
PROPERTY UnwindTerminates
PROPERTY OutcomeRefinement

\* The process stops at an abort, and the thread stops raising once the
\* two exception objects are used.
CHECK_DEADLOCK FALSE
