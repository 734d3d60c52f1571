SPECIFICATION Spec
CONSTANTS
    m0 = m0  m1 = m1  g1 = g1  g2 = g2  s0 = s0  s1 = s1  Sysmon = Sysmon  None = None
    M = {m0, m1}  Main = m0
    G = {g1, g2}  Main_g = g1  Locker = {g2}
    Shard = {s0, s1}  ShardOf <- MCShardOf  NextShard <- MCNextShard
INVARIANTS NoDoubleWakeup NoSleepOverWork OwnerAwake
CHECK_DEADLOCK FALSE
