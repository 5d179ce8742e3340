SPECIFICATION TBFairSpec
CONSTANTS
  Tasks = {s1, c1, v1}
  Suno = {s1}
  Realtime = {c1}
  OnPackage = {s1}
  PerCall = {c1}
  Legacy = {c1}
  Pollers = {p1}
  Estimate = 2
  Quotas = {1, 2}
  ActualQuotas = {3}
  AmountTotal = 4
  MaxFaults = 2
  MaxQueries = 2
  MaxSubmitted = 1
  NoRow = NoRow
INVARIANTS TBTypeOK PerCallPriceIsFinal
PROPERTY EveryTaskEnds
