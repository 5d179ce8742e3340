SPECIFICATION PLSpec
CONSTANTS
  Requests = {r1, r2, r3}
  Counters = {c1, c2, c3, c4}
  Limit = 2
  None = None
  TTL = 4
  RefreshInterval = 1
  MaxTime = 7
  MaxFaults = 2
INVARIANTS
  LimitRespected SharedLimitRespected ReleasedSlotStaysFree DeadSlotsAreReclaimed
PROPERTY IsASlotLimiter
SYMMETRY Interchangeable
