-------------------------- MODULE MCPackageLimiter --------------------------
(* Instances of PackageLimiter for TLC. *)
EXTENDS PackageLimiter, TLC

Interchangeable == Permutations(Requests) \cup Permutations(Counters)
=============================================================================
