------------------------------- MODULE Ranks -------------------------------
(***************************************************************************)
(* Finite sets of numbers in their order: the rank of a member, which is   *)
(* the number of members below it, and the first n members.  Sets page by  *)
(* rank, and streams trim and deliver from their lower end.                *)
(***************************************************************************)
EXTENDS Integers, FiniteSets, TLAPS, FiniteSetTheorems, WellFoundedInduction

Below(S, x) == {y \in S : y < x}
Firsts(S, n) == {m \in S : Cardinality(Below(S, m)) < n}

LEMMA LeastOf ==
    ASSUME NEW S, S \subseteq Nat, S # {}
    PROVE  \E m \in S : \A x \in S : m <= x
<1>. DEFINE R == OpToRel(<, Nat)
<1>0. \A z \in S : z \in Nat
  OBVIOUS
<1>1. \E m \in S : \A x \in S : ~ (<<x, m>> \in R)
  BY NatLessThanWellFounded, WFMin
<1>2. PICK m \in S : \A x \in S : ~ (<<x, m>> \in R)
  BY <1>1
<1>3. \A x \in S : ~ (x < m)
  BY <1>0, <1>2 DEF OpToRel
<1>. QED
  BY <1>0, <1>3

LEMMA BelowIs ==
    ASSUME NEW S, S \subseteq Nat, NEW x \in S
    PROVE  /\ x \notin Below(S, x)
           /\ \A y : y \in Below(S, x) <=> y \in S /\ y < x
           /\ \A y \in S : ~(y < x) => x <= y
           /\ \A y \in Nat : x < y => Below(S, x) \cup {x} \subseteq Below(S, y)
<1>0. \A z \in S : z \in Nat
  OBVIOUS
<1>1. \A z, y : y \in Below(S, z) <=> y \in S /\ y < z
  BY DEF Below
<1>2. \A y \in Nat, z \in S : x < y /\ z < x => z < y
  BY <1>0
<1>3. ~(x < x) /\ \A y \in S : ~(y < x) => x <= y
  BY <1>0
<1>. QED
  BY <1>1, <1>2, <1>3

LEMMA FiniteRank ==
    ASSUME NEW S, IsFiniteSet(S), NEW x
    PROVE  IsFiniteSet(Below(S, x)) /\ Cardinality(Below(S, x)) \in Nat
BY FS_Subset, FS_CardinalityType DEF Below

\* The rank of a member is smaller than that of anything above it.
LEMMA RankOrder ==
    ASSUME NEW S, S \subseteq Nat, IsFiniteSet(S), NEW x \in S, NEW y \in Nat, x < y
    PROVE  Cardinality(Below(S, x)) < Cardinality(Below(S, y))
<1>0. \A z \in S : z \in Nat
  OBVIOUS
<1>1. Below(S, x) \cup {x} \subseteq Below(S, y) /\ x \notin Below(S, x)
  BY BelowIs
<1>2. Cardinality(Below(S, x) \cup {x}) = Cardinality(Below(S, x)) + 1
  BY <1>1, FiniteRank, FS_AddElement
<1>3. Cardinality(Below(S, x) \cup {x}) <= Cardinality(Below(S, y))
  BY <1>1, FiniteRank, FS_Subset
<1>. QED
  BY <1>2, <1>3, FiniteRank

LEMMA GreatestOf ==
    ASSUME NEW S, S \subseteq Nat, IsFiniteSet(S), S # {}
    PROVE  \E m \in S : \A x \in S : x <= m
<1>. DEFINE above(x) == {y \in S : x < y}
            T == {Cardinality(above(x)) : x \in S}
<1>0. \A z \in S : z \in Nat
  OBVIOUS
<1>1. \A x \in S : IsFiniteSet(above(x)) /\ Cardinality(above(x)) \in Nat
  BY FS_Subset, FS_CardinalityType
<1>2. \E n \in T : \A i \in T : n <= i
  <2>1. T \subseteq Nat /\ T # {}
    BY <1>1
  <2>. HIDE DEF T
  <2>. QED
    BY <2>1, LeastOf
<1>3. PICK m \in S : \A x \in S : Cardinality(above(m)) <= Cardinality(above(x))
  BY <1>2
<1>4. ASSUME NEW x \in S, m < x PROVE FALSE
  <2>1. above(x) \subseteq above(m) /\ x \in above(m) /\ x \notin above(x)
    <3>1. \A y \in S : x < y => m < y
      BY <1>0, <1>4
    <3>2. ~(x < x)
      BY <1>0
    <3>. QED
      BY <1>4, <3>1, <3>2
  <2>. HIDE DEF above
  <2>2. /\ Cardinality(above(x)) <= Cardinality(above(m))
        /\ Cardinality(above(x)) # Cardinality(above(m))
    BY <1>1, <2>1, FS_Subset
  <2>. QED
    BY <1>1, <1>3, <2>2
<1>. QED
  BY <1>0, <1>4

LEMMA FirstsIn ==
    ASSUME NEW S, NEW n
    PROVE  /\ Firsts(S, n) \subseteq S
           /\ \A x : x \in Firsts(S, n) <=> x \in S /\ Cardinality(Below(S, x)) < n
BY DEF Firsts, Below

\* Firsts is closed downwards.
LEMMA FirstsBelow ==
    ASSUME NEW S, S \subseteq Nat, IsFiniteSet(S), NEW n \in Nat,
           NEW x \in Firsts(S, n), NEW y \in S, y <= x
    PROVE  y \in Firsts(S, n)
<1>0. x \in Nat /\ y \in Nat
  BY FirstsIn
<1>1. CASE y = x
  BY <1>1
<1>2. CASE y < x
  <2>1. Cardinality(Below(S, y)) < Cardinality(Below(S, x))
    BY <1>2, FirstsIn, RankOrder
  <2>. QED
    BY <2>1, FirstsIn, FiniteRank
<1>. QED
  BY <1>0, <1>1, <1>2

\* It has n members, or all there are.
LEMMA FirstsSize ==
    ASSUME NEW S, S \subseteq Nat, IsFiniteSet(S), NEW n \in Nat
    PROVE  /\ IsFiniteSet(Firsts(S, n)) /\ Cardinality(Firsts(S, n)) \in 0 .. n
           /\ Firsts(S, n) # S => Cardinality(Firsts(S, n)) = n
<1>. DEFINE F == Firsts(S, n)
<1>0. \A z \in S : z \in Nat
  OBVIOUS
<1>1. F \subseteq S /\ IsFiniteSet(F) /\ Cardinality(F) \in Nat
  BY FirstsIn, FS_Subset, FS_CardinalityType
<1>2. Cardinality(F) <= n
  <2>1. CASE F = {}
    BY <2>1, FS_EmptySet
  <2>2. CASE F # {}
    <3>1. PICK m \in F : \A x \in F : x <= m
      BY <1>1, <2>2, GreatestOf
    <3>2. F \subseteq Below(S, m) \cup {m}
      <4>1. \A x \in F : x \in Nat /\ m \in Nat
        BY <1>0, <1>1
      <4>2. \A x \in F : x = m \/ x < m
        BY <3>1, <4>1
      <4>. QED
        BY <1>1, <4>2 DEF Below
    <3>3. m \notin Below(S, m)
      BY <1>1, BelowIs
    <3>4. Cardinality(F) <= Cardinality(Below(S, m)) + 1
      <4>1. /\ IsFiniteSet(Below(S, m) \cup {m})
            /\ Cardinality(Below(S, m) \cup {m}) = Cardinality(Below(S, m)) + 1
        BY <3>3, FiniteRank, FS_AddElement
      <4>. QED
        BY <3>2, <4>1, FS_Subset
    <3>5. Cardinality(Below(S, m)) < n
      BY FirstsIn
    <3>. QED
      BY <1>1, <3>4, <3>5, FiniteRank
  <2>. QED
    BY <2>1, <2>2
<1>3. ASSUME F # S PROVE Cardinality(F) >= n
  <2>1. S \ F \subseteq Nat /\ S \ F # {}
    BY <1>1, <1>3
  <2>2. PICK m \in S \ F : \A x \in S \ F : m <= x
    <3>. HIDE DEF F
    <3>. QED
      BY <2>1, LeastOf
  <2>3. Below(S, m) \subseteq F
    <3>1. \A x \in S : x < m => x \in F
      BY <1>0, <2>2
    <3>. QED
      BY <3>1 DEF Below
  <2>4. Cardinality(Below(S, m)) >= n
    BY <2>2, FirstsIn, FiniteRank
  <2>5. Cardinality(Below(S, m)) <= Cardinality(F)
    BY <1>1, <2>3, FS_Subset
  <2>. QED
    BY <1>1, <2>4, <2>5, FiniteRank
<1>. QED
  BY <1>1, <1>2, <1>3
=============================================================================
