CONSTANTS
    NoOut = NoOut
    Seeds <- MCSeeds
    RandKeys <- MCRandKeys
    CounterArgs <- MCCounterArgs
    MaxDraws = 17
    core <- MCcore

SPECIFICATION Spec

INVARIANT TypeOK
INVARIANT ZeroKeyBlockMatchesVector

PROPERTY StreamRefinement
