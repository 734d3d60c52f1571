SPECIFICATION Spec
CONSTANTS
    p1 = p1  p2 = p2
    g1 = g1  g2 = g2  g3 = g3  g4 = g4  g5 = g5  g6 = g6
    None = None
    P = {p1, p2}
    G = {g1, g2, g3, g4, g5, g6}
    Main = g1
    Size = 4
    Width = 3
    Start = 3
    Loaded <- MCLoaded
    MaxReady = 2
INVARIANTS ExactlyOnce RingBounded
CHECK_DEADLOCK FALSE
