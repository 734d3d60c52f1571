SPECIFICATION Spec
CONSTANTS
    c1 = c1  c2 = c2  p1 = p1  p2 = p2  m1 = m1  None = None
    PD_NIL = PD_NIL  PD_READY = PD_READY  PD_WAIT = PD_WAIT
    Conn = {c1, c2}
    Mode = {"r"}
    PD = {p1}
    Poller = {m1}
    NShards = 1
    MaxTime = 1
    Controlled = {c1}
INVARIANTS WordOwner NoLostReadiness StrandedOnlyInWindow
PROPERTIES FiresOnlyDue ReadableReturns
