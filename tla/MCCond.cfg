SPECIFICATION CondBehavior
CONSTANTS
    g1 = g1  g2 = g2  g3 = g3
    Nobody = Nobody
    Parties = {g1, g2, g3}
    TicketWidth = 3
INVARIANTS ParkedIsReachable
PROPERTIES ImplementsCondSpec NoLostNotification NotifiedReturns
CHECK_DEADLOCK FALSE
