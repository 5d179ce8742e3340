SPECIFICATION BSFairSpec
CONSTANTS
  Sessions = {s1}
  Quotas = {0, 1, 2, 3}
  Initial <- UnlimitedSubscription
  Kinds = {"wallet", "subscription", "package"}
  Playground = {TRUE, FALSE}
  TrustQuota = 0
  RefundAttempts = 3
  MaxFailures = 3
INVARIANT UsageRecordAgrees
PROPERTY TokenRequestsAreRefunded
