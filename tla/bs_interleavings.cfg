SPECIFICATION BSSpec
CONSTANTS
  Sessions = {s1, s2}
  Quotas = {1, 2}
  Initial <- Small
  Kinds = {"wallet", "subscription", "package"}
  Playground = {FALSE}
  TrustQuota = 2
  RefundAttempts = 2
  MaxFailures = 2
INVARIANTS BSTypeOK NoFreeQuota Conserved FinalBill
SYMMETRY SessionSymmetry
