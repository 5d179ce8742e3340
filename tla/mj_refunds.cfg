SPECIFICATION MBFairSpec
CONSTANTS
  Tasks = {t1}
  Pollers = {p1, p2}
  Bills <- MCBills
  MaxFaults = 1
  NoRow = NoRow
INVARIANTS MBTypeOK EachLegOnce DeliveredIsPaid
PROPERTIES FinishedIsFinal EveryRowEnds
