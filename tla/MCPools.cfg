CONSTANTS
  Threads = {t1, t2, t3, t4}
  Pools = {p1, p2, p3}
  NoThread = NoThread
  NoPool = NoPool
SPECIFICATION FairSpec
INVARIANTS PassFindsPool PoolsApart NoLostWakeup
PROPERTIES ImplementsAllocation PoolsKeepMoving
