SPECIFICATION TBFairSpec
CONSTANTS
  Tasks = {v1}
  Suno = {}
  Realtime = {}
  OnPackage = {}
  PerCall = {}
  Legacy = {}
  Pollers = {p1, p2}
  Estimate = 2
  Quotas = {0, 1}
  ActualQuotas = {1, 3}
  AmountTotal = 4
  MaxFaults = 2
  MaxQueries = 2
  MaxSubmitted = 1
  NoRow = NoRow
INVARIANTS GuardedRefundOnce RefundOrResult FinalTaskBill
