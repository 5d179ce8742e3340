-------------------------- MODULE QuotaSumsProofs --------------------------
(* What Total does when an element is added to, or replaced in, a sum.      *)
EXTENDS QuotaSums, FiniteSetTheorems, TLAPS

\* One element has as many units as its amount.
LEMMA UnitsOfOne ==
    ASSUME NEW x, NEW n \in Nat
    PROVE  /\ IsFiniteSet({x} \X (1..n))
           /\ Cardinality({x} \X (1..n)) = n
<1>1. IsFiniteSet(1..n) /\ Cardinality(1..n) = n
  BY FS_Interval
<1>2. IsFiniteSet({x}) /\ Cardinality({x}) = 1
  BY FS_Singleton
<1> QED
  BY <1>1, <1>2, FS_Product

\* The empty sum is 0.
LEMMA EmptyTotal ==
    ASSUME NEW q, NEW S, S = {}
    PROVE  IsFiniteSet(Units(q, S)) /\ Total(q, S) = 0
<1>1. Units(q, S) = {}
  BY DEF Units
<1> QED
  BY <1>1, FS_EmptySet DEF Total

\* The sum depends only on the amounts of the elements summed over.
LEMMA SameTotal ==
    ASSUME NEW q, NEW p, NEW S, \A x \in S : q[x] = p[x]
    PROVE  Units(q, S) = Units(p, S) /\ Total(q, S) = Total(p, S)
<1>1. Units(q, S) = Units(p, S)
  BY DEF Units
<1> QED
  BY <1>1 DEF Total

\* Adding an element adds its amount.
LEMMA AddToTotal ==
    ASSUME NEW q, NEW S, NEW x, x \notin S, q[x] \in Nat, IsFiniteSet(Units(q, S))
    PROVE  /\ IsFiniteSet(Units(q, S \cup {x}))
           /\ Total(q, S \cup {x}) = Total(q, S) + q[x]
<1> DEFINE One == {x} \X (1..q[x])
<1>1. Units(q, S \cup {x}) = Units(q, S) \cup One
  BY DEF Units
<1>2. Units(q, S) \cap One = {}
  BY DEF Units
<1>3. IsFiniteSet(One) /\ Cardinality(One) = q[x]
  BY UnitsOfOne
<1>4. /\ IsFiniteSet(Units(q, S) \cup One)
      /\ Cardinality(Units(q, S) \cup One)
           = Cardinality(Units(q, S)) + Cardinality(One)
               - Cardinality(Units(q, S) \cap One)
  BY <1>3, FS_Union
<1>5. Cardinality(Units(q, S) \cap One) = 0
  BY <1>2, FS_EmptySet
<1>6. Cardinality(Units(q, S)) \in Nat
  BY FS_CardinalityType
<1> HIDE DEF One
<1>7. Cardinality(Units(q, S) \cup One) = Cardinality(Units(q, S)) + q[x]
  BY <1>3, <1>4, <1>5, <1>6
<1> QED
  BY <1>1, <1>4, <1>7 DEF Total

\* A sum with one element singled out: its amount plus the rest.
LEMMA SplitTotal ==
    ASSUME NEW q, NEW S, NEW x \in S, q[x] \in Nat, IsFiniteSet(Units(q, S))
    PROVE  /\ IsFiniteSet(Units(q, S \ {x}))
           /\ Total(q, S \ {x}) \in Nat
           /\ Total(q, S) = Total(q, S \ {x}) + q[x]
<1>1. Units(q, S \ {x}) \subseteq Units(q, S)
  BY DEF Units
<1>2. IsFiniteSet(Units(q, S \ {x}))
  BY <1>1, FS_Subset
<1>3. (S \ {x}) \cup {x} = S
  OBVIOUS
<1>4. Total(q, (S \ {x}) \cup {x}) = Total(q, S \ {x}) + q[x]
  BY <1>2, AddToTotal
<1>5. Total(q, S \ {x}) \in Nat
  BY <1>2, FS_CardinalityType DEF Total
<1> QED
  BY <1>2, <1>3, <1>4, <1>5

\* Replacing the amount of one element moves the sum by the difference.
LEMMA ReplaceInTotal ==
    ASSUME NEW q, NEW p, NEW S, NEW x \in S, q[x] \in Nat, p[x] \in Nat,
           \A y \in S \ {x} : p[y] = q[y],
           IsFiniteSet(Units(q, S))
    PROVE  /\ IsFiniteSet(Units(p, S))
           /\ Total(p, S) = Total(q, S) - q[x] + p[x]
           /\ Total(q, S) \in Nat
           /\ q[x] <= Total(q, S)
<1>1. /\ IsFiniteSet(Units(q, S \ {x}))
      /\ Total(q, S \ {x}) \in Nat
      /\ Total(q, S) = Total(q, S \ {x}) + q[x]
  BY SplitTotal
<1>2. Units(p, S \ {x}) = Units(q, S \ {x}) /\ Total(p, S \ {x}) = Total(q, S \ {x})
  BY SameTotal
<1>3. (S \ {x}) \cup {x} = S
  OBVIOUS
<1>4. /\ IsFiniteSet(Units(p, (S \ {x}) \cup {x}))
      /\ Total(p, (S \ {x}) \cup {x}) = Total(p, S \ {x}) + p[x]
  BY <1>1, <1>2, AddToTotal
<1> QED
  BY <1>1, <1>2, <1>3, <1>4

\* A sum over fewer elements, of smaller amounts, is smaller.
LEMMA SmallerTotal ==
    ASSUME NEW q, NEW p, NEW T, NEW S \in SUBSET T, IsFiniteSet(Units(q, T)),
           \A x \in S : p[x] \in Nat /\ q[x] \in Nat /\ p[x] <= q[x]
    PROVE  /\ IsFiniteSet(Units(p, S))
           /\ Total(p, S) \in Nat /\ Total(q, T) \in Nat
           /\ Total(p, S) <= Total(q, T)
<1>1. \A x \in S : (1..p[x]) \subseteq (1..q[x])
  OBVIOUS
<1>2. Units(p, S) \subseteq Units(q, T)
  BY <1>1 DEF Units
<1>3. /\ IsFiniteSet(Units(p, S))
      /\ Cardinality(Units(p, S)) <= Cardinality(Units(q, T))
  BY <1>2, FS_Subset
<1>4. Cardinality(Units(p, S)) \in Nat /\ Cardinality(Units(q, T)) \in Nat
  BY <1>3, FS_CardinalityType
<1> QED
  BY <1>3, <1>4 DEF Total
============================================================================
