SPECIFICATION Spec
CONSTANTS
    c1 = c1  c2 = c2  k1 = k1  k2 = k2
    Callers = {c1, c2}
    Workers = {k1, k2}
    Width = 2
INVARIANTS NoStrandedWaiter
PROPERTIES WaitMeansZero ZeroReleases
