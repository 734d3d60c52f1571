SPECIFICATION Spec
CONSTANTS
    g1 = g1  g2 = g2  g3 = g3
    G = {g1, g2, g3}
INVARIANTS MutualExclusion OneOwner WaitersExact
PROPERTIES RegisteredGetsLock
