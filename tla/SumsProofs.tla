----------------------------- MODULE SumsProofs -----------------------------
(***************************************************************************)
(* Sums of natural numbers: nothing adds up to zero, one element more adds *)
(* its number, and a larger set has a larger sum.                          *)
(***************************************************************************)
EXTENDS Sums, FiniteSetTheorems, TLAPS

LEMMA UnitsAreFinite ==
    ASSUME NEW S, IsFiniteSet(S), NEW f \in [S -> Nat], NEW T \in SUBSET S
    PROVE  IsFiniteSet(Units(f, T))
<1> DEFINE Some(x) == {x} \X (1 .. f[x])
           Family == {Some(x) : x \in T}
<1>1. IsFiniteSet(T)
    BY FS_Subset
<1>2. IsFiniteSet(Family)
    <2> DEFINE g == [x \in T |-> Some(x)]
    <2>1. g \in Surjection(T, Family)
        BY DEF Surjection
    <2> QED BY <1>1, <2>1, FS_Surjection
<1>3. \A x \in T : IsFiniteSet(Some(x))
    <2> TAKE x \in T
    <2>1. f[x] \in Nat
        OBVIOUS
    <2>2. IsFiniteSet({x})
        BY FS_Singleton
    <2>3. IsFiniteSet(1 .. f[x])
        BY <2>1, FS_Interval
    <2> QED BY <2>2, <2>3, FS_Product
<1>4. \A U \in Family : IsFiniteSet(U)
    BY <1>3
<1>5. IsFiniteSet(UNION Family)
    BY <1>2, <1>4, FS_UNION
<1> QED BY <1>5 DEF Units

\* A sum is a natural number.
LEMMA TotalIsNat ==
    ASSUME NEW S, IsFiniteSet(S), NEW f \in [S -> Nat], NEW T \in SUBSET S
    PROVE  Total(f, T) \in Nat
BY UnitsAreFinite, FS_CardinalityType DEF Total

LEMMA TotalOfNone == ASSUME NEW f PROVE Total(f, {}) = 0
<1>1. Units(f, {}) = {}
    BY DEF Units
<1> QED BY <1>1, FS_EmptySet DEF Total

\* One element more adds its number.
LEMMA TotalOfOneMore ==
    ASSUME NEW S, IsFiniteSet(S), NEW f \in [S -> Nat],
           NEW T \in SUBSET S, NEW x \in S, x \notin T
    PROVE  Total(f, T \cup {x}) = Total(f, T) + f[x]
<1> DEFINE More == {x} \X (1 .. f[x])
<1>1. Units(f, T \cup {x}) = Units(f, T) \cup More
    BY DEF Units
<1>2. Units(f, T) \cap More = {}
    BY DEF Units
<1>3. IsFiniteSet(Units(f, T)) /\ Cardinality(Units(f, T)) \in Nat
    BY UnitsAreFinite, FS_CardinalityType
<1>4. IsFiniteSet(More) /\ Cardinality(More) = f[x]
    <2>1. IsFiniteSet({x}) /\ Cardinality({x}) = 1
        BY FS_Singleton
    <2>2. IsFiniteSet(1 .. f[x]) /\ Cardinality(1 .. f[x]) = f[x]
        BY FS_Interval
    <2>3. IsFiniteSet(More) /\ Cardinality(More) = 1 * f[x]
        BY <2>1, <2>2, FS_Product
    <2> QED BY <2>3
<1>5. Cardinality(Units(f, T) \cup More) = Cardinality(Units(f, T)) + Cardinality(More) - Cardinality({})
    BY <1>2, <1>3, <1>4, FS_Union
<1>6. Cardinality({}) = 0 /\ f[x] \in Nat
    BY FS_EmptySet
<1> HIDE DEF More
<1>7. Cardinality(Units(f, T) \cup More) = Cardinality(Units(f, T)) + f[x]
    <2>1. ASSUME NEW a \in Nat, NEW b \in Nat PROVE a + b - 0 = a + b
        OBVIOUS
    <2> QED BY <1>3, <1>4, <1>5, <1>6, <2>1
<1> QED BY <1>1, <1>7 DEF Total

\* A larger set has a larger sum.
LEMMA TotalIsMonotone ==
    ASSUME NEW S, IsFiniteSet(S), NEW f \in [S -> Nat], NEW T \in SUBSET S, NEW U \in SUBSET T
    PROVE  Total(f, U) <= Total(f, T)
<1>1. Units(f, U) \subseteq Units(f, T)
    BY DEF Units
<1>2. IsFiniteSet(Units(f, T))
    BY UnitsAreFinite
<1> QED BY <1>1, <1>2, FS_Subset DEF Total
=============================================================================
