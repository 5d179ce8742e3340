---------------------------- MODULE MCTaskBilling ----------------------------
EXTENDS TaskBilling, TLC

Interchangeable == Permutations(Pollers)
============================================================================
