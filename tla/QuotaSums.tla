----------------------------- MODULE QuotaSums -----------------------------
(***************************************************************************)
(* Sums of natural-number amounts over a finite set of requests.  A unit   *)
(* of an amount is a pair <<request, i>>, so the sum of the amounts of the *)
(* requests in S is the number of their units.  Written with Cardinality   *)
(* rather than as a fold, because what Cardinality does when one element   *)
(* is added or replaced can be proved for every finite set.                *)
(***************************************************************************)
EXTENDS Integers, FiniteSets

\* The units of the amounts q[x] of the elements x of S.
Units(q, S) == UNION {{x} \X (1..q[x]) : x \in S}

\* The sum of the amounts q[x] over the elements x of S.
Total(q, S) == Cardinality(Units(q, S))
============================================================================
