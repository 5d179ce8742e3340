--------------------------- MODULE MCBillingSession ---------------------------
EXTENDS BillingSession, TLC

SessionSymmetry == Permutations(Sessions)

\* Balances small enough that a request can find an account too poor.
Small == [a \in Accounts |-> 3]

\* The same with a regular subscription that has no limit (AmountTotal = 0).
UnlimitedSubscription == [Small EXCEPT !["subscription"] = 0]
============================================================================
