------------------------- MODULE MCValuePackageQuota -------------------------
EXTENDS ValuePackageQuota, TLC

\* A task refund of one unit and a fee of one unit.
RefundAndFee == {-1, 1}

RequestSymmetry == Permutations(Requests)
============================================================================
