SPECIFICATION Spec
CONSTANTS
    g1 = g1  g2 = g2  g3 = g3
    None = None
    G = {g1, g2, g3}
    NChan = 2
    Cap <- MCCap
    Menu <- MCMenu
    MaxOps <- MCMaxOps
INVARIANTS NoMissedRendezvous NoDanglingSudog CommitFrameAlive NoInternalPanic
PROPERTIES ImplementsChanSpec OperationsReturn
CHECK_DEADLOCK FALSE
