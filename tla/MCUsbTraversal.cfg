CONSTANTS
    h1 = h1
    h2 = h2
    NULL = NULL
    Hubs <- MCHubs
    TravSize <- MCTravSize
SPECIFICATION Spec
INVARIANTS
    TypeOK
PROPERTIES
    FifoRefinement
