SPECIFICATION TBSpec
CONSTANTS
  Tasks = {r1}
  Suno = {}
  Realtime = {r1}
  OnPackage = {}
  PerCall = {}
  Legacy = {}
  Pollers = {p1}
  Estimate = 2
  Quotas = {2}
  ActualQuotas = {1, 3}
  AmountTotal = 4
  MaxFaults = 0
  MaxQueries = 2
  MaxSubmitted = 1
  NoRow = NoRow
INVARIANT NoDoubleRefund
