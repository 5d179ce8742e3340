SPECIFICATION VPSpec
CONSTANTS
  Requests = {r1, r2}
  Amounts = {1, 2}
  AmountTotal = 4
  Limit5h = 2
  Limit7d = 3
  Window5h = 2
  Window7d = 3
  Cycle = 6
  DustLimit = 1
  Retention = 9
  InitCards = 0
  GiftCards = 1
  Deltas = {}
  MaxDrift = 0
  Lag = 1
  MaxTime = 4
  MaxEnd = 13
INVARIANT SevenDayLimitUnlessOvertaken
PROPERTY OnlyAReleaseOverrunsFiveHours
SYMMETRY RequestSymmetry
