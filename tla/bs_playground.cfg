SPECIFICATION BSFairSpec
CONSTANTS
  Sessions = {s1}
  Quotas = {1}
  Initial <- Small
  Kinds = {"wallet", "subscription", "package"}
  Playground = {TRUE}
  TrustQuota = 0
  RefundAttempts = 2
  MaxFailures = 1
PROPERTY FailedRequestsAreRefunded
