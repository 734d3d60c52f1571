SPECIFICATION OnceSpec
CONSTANTS
    g1 = g1  g2 = g2  g3 = g3  g4 = g4
    NoOwner = NoOwner
    Doers = {g1, g2, g3, g4}
INVARIANTS ReturnsAfterF
PROPERTIES DoReturnsOrAbandoned
CHECK_DEADLOCK FALSE
