SPECIFICATION Spec
CONSTANTS
    t1 = t1  t2 = t2  None = None
    Tok = {t1, t2}
    D = {0, 1}
    Nap = 2
    MaxHeap = 2
    MaxScan = 1
    MaxResets = 1
INVARIANTS OnlyResetBreaks StopPreventsFire OversleepsByScan
PROPERTIES SleeperWakes
CHECK_DEADLOCK FALSE
