------------------------------ MODULE Folding ------------------------------
(***************************************************************************)
(* What the proofs about sequences and orders rest on: induction over a     *)
(* range of numbers, the equation a fold over a sequence satisfies, and the *)
(* ranks that a strict total order gives to the elements of a finite set.   *)
(*                                                                         *)
(* Induction is stated about a set of numbers, which the provers can        *)
(* instantiate, where the library's rule is about an operator.              *)
(***************************************************************************)
EXTENDS Integers, FiniteSets, Sequences, SequencesExt, FiniteSetTheorems,
        WellFoundedInduction, TLAPS

(* Every set of numbers that is not empty has a least one.                  *)
LEMMA LeastElement ==
  ASSUME NEW T, T \subseteq Nat, T # {}
  PROVE  \E n \in T : \A m \in T : n <= m
<1> DEFINE R == OpToRel(<, Nat)
<1>1. IsWellFoundedOn(R, Nat)
  BY NatLessThanWellFounded
<1>2. \A x, y \in Nat : <<x, y>> \in R <=> x < y
  BY DEF OpToRel
<1> HIDE DEF R
<1>3. PICK n \in T : \A m \in T : ~(<<m, n>> \in R)
  BY <1>1, WFMin
<1>4. ASSUME NEW m \in T PROVE n <= m
  <2>1. n \in Nat /\ m \in Nat
    OBVIOUS
  <2>2. ~(m < n)
    BY <1>2, <1>3, <2>1
  <2> QED
    BY <2>1, <2>2
<1> QED
  BY <1>4

(* Induction from 0 to n.                                                   *)
LEMMA UpTo ==
  ASSUME NEW n \in Nat, NEW T, 0 \in T,
         \A k \in 0..(n - 1) : k \in T => k + 1 \in T
  PROVE  \A k \in 0..n : k \in T
<1> SUFFICES ASSUME ~(\A k \in 0..n : k \in T) PROVE FALSE
  OBVIOUS
<1> DEFINE F == {k \in 0..n : k \notin T}
<1>1. F \subseteq Nat /\ F # {}
  OBVIOUS
<1>2. PICK k \in F : \A m \in F : k <= m
  BY <1>1, LeastElement
<1>3. k \in 0..n /\ k \notin T /\ k # 0
  OBVIOUS
<1>4. k - 1 \in 0..(n - 1) /\ k - 1 \in 0..n /\ (k - 1) + 1 = k
  BY <1>3
<1>5. k - 1 \in T
  <2>1. k - 1 \notin F
    BY <1>2, <1>3
  <2> QED
    BY <1>4, <2>1
<1> QED
  BY <1>3, <1>4, <1>5

-----------------------------------------------------------------------------
(* Folds *)

(* FoldLeft takes the last place of a sequence first, then the one before.  *)
LEMMA LastPlace ==
  ASSUME NEW k \in Nat
  PROVE  /\ (CHOOSE x \in 1..(k + 1) : \A y \in 1..(k + 1) : x >= y) = k + 1
         /\ (1..(k + 1)) \ {k + 1} = 1..k
<1>1. k + 1 \in 1..(k + 1) /\ \A y \in 1..(k + 1) : k + 1 >= y
  OBVIOUS
<1>2. \A x \in 1..(k + 1) : (\A y \in 1..(k + 1) : x >= y) => x = k + 1
  OBVIOUS
<1> QED
  BY <1>1, <1>2

(* The first k + 1 places of n, and the first k. *)
LEMMA FirstPlaces ==
  ASSUME NEW n \in Nat, NEW k \in 0..(n - 1)
  PROVE  /\ 1..(k + 1) \in SUBSET (1..n) /\ 1..(k + 1) # {}
         /\ (CHOOSE x \in 1..(k + 1) : \A y \in 1..(k + 1) : x >= y) = k + 1
         /\ (1..(k + 1)) \ {k + 1} = 1..k
<1>1. k \in Nat /\ k + 1 <= n /\ 1 \in 1..(k + 1)
  OBVIOUS
<1>2. \A i \in 1..(k + 1) : i \in 1..n
  BY <1>1
<1> QED
  BY <1>1, <1>2, LastPlace

LastIn(S) == CHOOSE x \in S : \A y \in S : x >= y

(* A set of places that is not empty has a last one.                        *)
LEMMA LastOf ==
  ASSUME NEW n \in Nat, NEW S \in SUBSET (1..n), S # {}
  PROVE  LastIn(S) \in S /\ \A y \in S : LastIn(S) >= y
<1> DEFINE T == {m \in Nat : \A y \in S : m >= y}
<1>1. n \in T /\ T \subseteq Nat
  OBVIOUS
<1> HIDE DEF T
<1>2. PICK m \in T : \A k \in T : m <= k
  BY <1>1, LeastElement
<1>3. m \in S
  <2>1. m \in Nat /\ \A y \in S : m >= y
    BY DEF T
  <2>2. SUFFICES ASSUME m \notin S PROVE FALSE
    OBVIOUS
  <2>3. PICK z \in S : TRUE
    OBVIOUS
  <2>4. m >= 1 /\ \A y \in S : m - 1 >= y
    BY <2>1, <2>2, <2>3
  <2>5. m - 1 \in T
    BY <2>1, <2>4 DEF T
  <2> QED
    BY <1>2, <2>1, <2>5
<1>4. \A y \in S : m >= y
  BY DEF T
<1>5. \E x \in S : \A y \in S : x >= y
  BY <1>3, <1>4
<1> QED
  BY <1>5 DEF LastIn

(* There is a function from sets of places to values that takes a step at   *)
(* the last place of a set.                                                 *)
IsFold(f, n, V, base, step) ==
  /\ f \in [SUBSET (1..n) -> V]
  /\ \A S \in SUBSET (1..n) :
       f[S] = IF S = {} THEN base ELSE step[<<f[S \ {LastIn(S)}], LastIn(S)>>]

LEMMA FoldExists ==
  ASSUME NEW n \in Nat, NEW V, NEW base \in V, NEW step \in [V \X (1..n) -> V]
  PROVE  \E f : IsFold(f, n, V, base, step)
<1> DEFINE Good(k, f) ==
             \A S \in SUBSET (1..k) :
               f[S] = IF S = {} THEN base ELSE step[<<f[S \ {LastIn(S)}], LastIn(S)>>]
           T == {k \in 0..n : \E f \in [SUBSET (1..n) -> V] : Good(k, f)}
<1>1. 0 \in T
  <2> DEFINE f == [S \in SUBSET (1..n) |-> base]
  <2>1. f \in [SUBSET (1..n) -> V]
    OBVIOUS
  <2>2. Good(0, f)
    <3>1. \A S \in SUBSET (1..0) : S = {}
      OBVIOUS
    <3> QED
      BY <3>1
  <2> HIDE DEF f
  <2>3. 0 \in 0..n
    OBVIOUS
  <2> QED
    BY <2>1, <2>2, <2>3
<1>2. ASSUME NEW k \in 0..(n - 1), k \in T PROVE k + 1 \in T
  <2>1. PICK f \in [SUBSET (1..n) -> V] : Good(k, f)
    BY <1>2
  <2> DEFINE g == [S \in SUBSET (1..n) |->
                     IF S \in SUBSET (1..k) THEN f[S]
                     ELSE IF S = {} THEN base
                     ELSE IF S \ {LastIn(S)} \in SUBSET (1..k)
                     THEN step[<<f[S \ {LastIn(S)}], LastIn(S)>>] ELSE base]
  <2>2. \A S \in SUBSET (1..n) : S # {} => LastIn(S) \in 1..n /\ LastIn(S) \in S
    BY LastOf
  <2>3. g \in [SUBSET (1..n) -> V]
    BY <2>2
  <2>4. Good(k + 1, g)
    <3>1. SUFFICES ASSUME NEW S \in SUBSET (1..(k + 1))
                   PROVE  g[S] = IF S = {} THEN base
                                 ELSE step[<<g[S \ {LastIn(S)}], LastIn(S)>>]
      OBVIOUS
    <3>2. S \in SUBSET (1..n) /\ k \in Nat /\ k + 1 \in Nat
      OBVIOUS
    <3>3. CASE S \in SUBSET (1..k)
      <4>1. g[S] = f[S] /\ S \ {LastIn(S)} \in SUBSET (1..k)
        BY <3>2, <3>3
      <4>2. g[S \ {LastIn(S)}] = f[S \ {LastIn(S)}]
        BY <3>2, <4>1
      <4> QED
        BY <2>1, <3>3, <4>1, <4>2
    <3>4. CASE S \notin SUBSET (1..k)
      <4>1. S # {} /\ k + 1 \in S
        BY <3>4
      <4>2. LastIn(S) \in S /\ \A y \in S : LastIn(S) >= y
        BY <3>2, <4>1, LastOf
      <4>3. LastIn(S) = k + 1
        <5>1. LastIn(S) \in 1..(k + 1) /\ LastIn(S) >= k + 1
          BY <4>1, <4>2
        <5> QED
          BY <3>2, <5>1
      <4>4. S \ {LastIn(S)} \in SUBSET (1..k)
        BY <3>2, <4>3
      <4>5. g[S \ {LastIn(S)}] = f[S \ {LastIn(S)}]
        BY <3>2, <4>4
      <4>6. g[S] = step[<<f[S \ {LastIn(S)}], LastIn(S)>>]
        BY <3>2, <3>4, <4>1, <4>4
      <4> QED
        BY <4>1, <4>5, <4>6
    <3> QED
      BY <3>3, <3>4
  <2> HIDE DEF g
  <2>5. k + 1 \in 0..n
    OBVIOUS
  <2> QED
    BY <2>3, <2>4, <2>5
<1> HIDE DEF T
<1>3. \A k \in 0..n : k \in T
  BY <1>1, <1>2, UpTo
<1>4. n \in T
  BY <1>3
<1> QED
  BY <1>4 DEF T, IsFold

-----------------------------------------------------------------------------
(* Ranks *)

(* A strict total order of a set, as a set of pairs.                        *)
Orders(R, S) ==
  /\ \A x \in S : <<x, x>> \notin R
  /\ \A x, y \in S : x # y => <<x, y>> \in R \/ <<y, x>> \in R
  /\ \A x, y, z \in S : <<x, y>> \in R /\ <<y, z>> \in R => <<x, z>> \in R

Before(R, S, x) == {y \in S : <<y, x>> \in R}

(* What comes first has fewer elements before it.                           *)
LEMMA RankOrders ==
  ASSUME NEW S, NEW R, IsFiniteSet(S), Orders(R, S), NEW x \in S
  PROVE  /\ Cardinality(Before(R, S, x)) \in 0..(Cardinality(S) - 1)
         /\ IsFiniteSet(Before(R, S, x))
         /\ \A y \in S : <<x, y>> \in R =>
              Cardinality(Before(R, S, x)) < Cardinality(Before(R, S, y))
<1>1. ASSUME NEW y \in S
      PROVE  /\ IsFiniteSet(Before(R, S, y)) /\ Cardinality(Before(R, S, y)) \in Nat
             /\ Before(R, S, y) \in SUBSET (S \ {y})
  <2>1. Before(R, S, y) \in SUBSET (S \ {y}) /\ Before(R, S, y) \in SUBSET S
    BY DEF Before, Orders
  <2> QED
    BY <2>1, FS_Subset, FS_CardinalityType
<1>2. /\ IsFiniteSet(S \ {x}) /\ Cardinality(S \ {x}) = Cardinality(S) - 1
      /\ Cardinality(S) \in Nat
  BY FS_RemoveElement, FS_CardinalityType
<1>3. Cardinality(Before(R, S, x)) <= Cardinality(S \ {x})
  BY <1>1, <1>2, FS_Subset
<1>4. ASSUME NEW y \in S, <<x, y>> \in R
      PROVE  Cardinality(Before(R, S, x)) < Cardinality(Before(R, S, y))
  <2>1. Before(R, S, x) \in SUBSET Before(R, S, y)
    BY <1>4 DEF Before, Orders
  <2>2. x \in Before(R, S, y) /\ x \notin Before(R, S, x)
    BY <1>4 DEF Before, Orders
  <2>3. /\ Cardinality(Before(R, S, x)) <= Cardinality(Before(R, S, y))
        /\ Cardinality(Before(R, S, x)) # Cardinality(Before(R, S, y))
    BY <1>1, <2>1, <2>2, FS_Subset
  <2> QED
    BY <1>1, <2>3
<1> QED
  BY <1>1, <1>2, <1>3, <1>4

(* Every rank below the number of elements is taken, by one element.        *)
LEMMA RankTaken ==
  ASSUME NEW S, NEW R, IsFiniteSet(S), Orders(R, S)
  PROVE  /\ \A k \in 0..(Cardinality(S) - 1) :
              \E x \in S : Cardinality(Before(R, S, x)) = k
         /\ \A x, y \in S :
              Cardinality(Before(R, S, x)) = Cardinality(Before(R, S, y)) => x = y
<1> DEFINE rank == [x \in S |-> Cardinality(Before(R, S, x))]
           T == 0..(Cardinality(S) - 1)
<1>1. \A x, y \in S :
        Cardinality(Before(R, S, x)) = Cardinality(Before(R, S, y)) => x = y
  <2>1. SUFFICES ASSUME NEW x \in S, NEW y \in S, x # y
                 PROVE  Cardinality(Before(R, S, x)) # Cardinality(Before(R, S, y))
    OBVIOUS
  <2>2. Cardinality(Before(R, S, x)) \in Int /\ Cardinality(Before(R, S, y)) \in Int
    BY RankOrders
  <2>3. <<x, y>> \in R \/ <<y, x>> \in R
    BY <2>1 DEF Orders
  <2>4. \/ Cardinality(Before(R, S, x)) < Cardinality(Before(R, S, y))
        \/ Cardinality(Before(R, S, y)) < Cardinality(Before(R, S, x))
    BY <2>3, RankOrders
  <2> QED
    BY <2>2, <2>4
<1>2. rank \in Injection(S, T)
  <2>1. rank \in [S -> T]
    BY RankOrders
  <2>2. \A x, y \in S : rank[x] = rank[y] => x = y
    BY <1>1
  <2> QED
    BY <2>1, <2>2 DEF Injection, IsInjective
<1>3. IsFiniteSet(T) /\ Cardinality(T) = Cardinality(S) /\ Cardinality(S) \in Nat
  <2>1. Cardinality(S) \in Nat
    BY FS_CardinalityType
  <2>2. /\ IsFiniteSet(T)
        /\ Cardinality(T) = IF 0 > Cardinality(S) - 1 THEN 0 ELSE Cardinality(S) - 1 - 0 + 1
    BY <2>1, FS_Interval
  <2> QED
    BY <2>1, <2>2
<1> HIDE DEF T, rank
<1>4. rank \in Surjection(S, T)
  BY <1>2, <1>3, FS_Injection
<1>5. \A k \in T : \E x \in S : rank[x] = k
  BY <1>4 DEF Surjection
<1> QED
  BY <1>1, <1>5 DEF T, rank

(* The places below a place, and the numbers below a number.                *)
LEMMA NumberRanks ==
  ASSUME NEW S, S \subseteq Nat, IsFiniteSet(S)
  PROVE  /\ \A x \in S : /\ Cardinality({y \in S : y < x}) \in 0..(Cardinality(S) - 1)
                         /\ \A z \in S : x < z =>
                              Cardinality({y \in S : y < x}) < Cardinality({y \in S : y < z})
         /\ \A k \in 0..(Cardinality(S) - 1) :
              \E x \in S : Cardinality({y \in S : y < x}) = k
         /\ \A x, z \in S :
              Cardinality({y \in S : y < x}) = Cardinality({y \in S : y < z}) => x = z
<1> DEFINE R == {p \in S \X S : p[1] < p[2]}
<1>1. \A x, y \in S : <<x, y>> \in R <=> x < y
  OBVIOUS
<1> HIDE DEF R
<1>2. Orders(R, S)
  BY <1>1 DEF Orders
<1>3. \A x \in S : Before(R, S, x) = {y \in S : y < x}
  BY <1>1 DEF Before
<1>4. ASSUME NEW x \in S
      PROVE  /\ Cardinality({y \in S : y < x}) \in 0..(Cardinality(S) - 1)
             /\ \A z \in S : x < z =>
                  Cardinality({y \in S : y < x}) < Cardinality({y \in S : y < z})
  BY <1>1, <1>2, <1>3, RankOrders
<1>5. /\ \A k \in 0..(Cardinality(S) - 1) :
           \E x \in S : Cardinality(Before(R, S, x)) = k
      /\ \A x, z \in S :
           Cardinality(Before(R, S, x)) = Cardinality(Before(R, S, z)) => x = z
  BY <1>2, RankTaken
<1> QED
  BY <1>3, <1>4, <1>5
=============================================================================
