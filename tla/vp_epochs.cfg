SPECIFICATION VPSpec
CONSTANTS
  Requests = {r1, r2}
  Amounts = {0, 1, 2}
  AmountTotal = 3
  Limit5h = 0
  Limit7d = 0
  Window5h = 1
  Window7d = 1
  Cycle = 2
  DustLimit = 0
  Retention = 1
  InitCards = 1
  GiftCards = 0
  Deltas <- RefundAndFee
  MaxDrift = 1
  Lag = 1
  MaxTime = 3
  MaxEnd = 5
INVARIANTS VPTypeOK LedgerOffByAdjustmentsOnly NeverOverTotal
PROPERTY LateRequestsLeaveNewEpochAlone
SYMMETRY RequestSymmetry
