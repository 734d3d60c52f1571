SPECIFICATION Spec
CONSTANTS
    t1 = t1  t2 = t2  t3 = t3
    NoVal = NoVal
    T = {t1, t2, t3}
    Cap = 2
    MaxOps = 2
INVARIANTS SlotExclusive
PROPERTIES ImplementsRingSpec HonestFailure CallReturns
CHECK_DEADLOCK FALSE
