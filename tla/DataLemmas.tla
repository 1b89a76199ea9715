------------------------------ MODULE DataLemmas ------------------------------
(***************************************************************************)
(* What the recursive functions of the models compute: SumFunction of the  *)
(* community module Functions, for the invariants that relate a total to   *)
(* the sum over all nodes, and Filter, for the lists that are kept in      *)
(* order while entries are taken out.  And what it means to sort a list    *)
(* by the rank of its entries.                                             *)
(*                                                                         *)
(* SumFunction recurses over the subsets of a function's domain, Filter    *)
(* over the prefixes of a sequence.  There is no induction rule to cite,   *)
(* so each lemma takes a smallest counterexample, which LeastNatural       *)
(* provides.                                                               *)
(***************************************************************************)
EXTENDS Integers, Sequences, FiniteSets, Functions, Filters, FiniteSetTheorems, SequenceTheorems,
        WellFoundedInduction, TLAPS

(* A set of naturals that is not empty has a least element. *)
LEMMA LeastNatural ==
  ASSUME NEW S, S \subseteq Nat, S # {}
  PROVE  \E a \in S : \A b \in S : a =< b
  <1> DEFINE R == {xy \in Nat \X Nat : xy[1] < xy[2]}
  <1>1. R = OpToRel(<, Nat)
    BY DEF OpToRel
  <1>2. IsWellFoundedOn(R, Nat)
    <2> HIDE DEF R
    <2> QED BY <1>1, NatLessThanWellFounded, Zenon
  <1>3. PICK a \in S : \A b \in S : ~(<<b, a>> \in R)
    <2> HIDE DEF R
    <2> QED BY <1>2, WFMin
  <1>4. ASSUME NEW b \in S PROVE a =< b
    <2>1. a \in Nat /\ b \in Nat
      OBVIOUS
    <2>2. ~(b < a)
      BY <1>3, <2>1
    <2> QED BY <2>1, <2>2
  <1> QED BY <1>3, <1>4

(* A family of subsets of a finite set has a smallest member. *)
LEMMA SmallestSubset ==
  ASSUME NEW S, IsFiniteSet(S), NEW C \in SUBSET (SUBSET S), C # {}
  PROVE  \E T \in C : \A U \in SUBSET T : U # T => U \notin C
  <1>1. \A T \in SUBSET S : IsFiniteSet(T) /\ Cardinality(T) \in Nat
    BY FS_Subset, FS_CardinalityType
  <1> DEFINE sizes == {Cardinality(T) : T \in C}
  <1>2. sizes \subseteq Nat /\ sizes # {}
    BY <1>1
  <1>3. PICK a \in sizes : \A b \in sizes : a =< b
    <2> HIDE DEF sizes
    <2> QED BY <1>2, LeastNatural
  <1>4. PICK T \in C : Cardinality(T) = a
    OBVIOUS
  <1>5. ASSUME NEW U \in SUBSET T, U # T PROVE U \notin C
    <2>1. Cardinality(U) < Cardinality(T) /\ Cardinality(U) \in Nat /\ Cardinality(T) \in Nat
      BY <1>1, <1>5, FS_Subset
    <2> QED BY <1>3, <1>4, <2>1
  <1> QED BY <1>5

-----------------------------------------------------------------------------
(* The sums over the subsets of a function's domain. *)

OneOf(T) == CHOOSE x \in T : TRUE
SumStep(f, g, T) == IF T = {} THEN 0 ELSE f[OneOf(T)] + g[T \ {OneOf(T)}]
PartialSums(f, S) == CHOOSE g : g = [T \in SUBSET S |-> SumStep(f, g, T)]

LEMMA SumUnfolds ==
  ASSUME NEW f
  PROVE  SumFunction(f) = PartialSums(f, DOMAIN f)[DOMAIN f]
  BY DEF SumFunction, SumFunctionOnSet, FoldFunctionOnSet, MapThenFoldSet, PartialSums, SumStep, OneOf

(* The recursion of SumFunction defines a function. *)
LEMMA SumsExist ==
  ASSUME NEW S, IsFiniteSet(S), NEW f \in [S -> Int]
  PROVE  \E g \in [SUBSET S -> Int] : \A T \in SUBSET S : g[T] = SumStep(f, g, T)
  <1> DEFINE Upto(k) == {T \in SUBSET S : Cardinality(T) =< k}
             Sums(k, g) == g \in [Upto(k) -> Int] /\ \A T \in Upto(k) : g[T] = SumStep(f, g, T)
             missing == {k \in Nat : ~ \E g : Sums(k, g)}
  <1>1. \A T \in SUBSET S : IsFiniteSet(T) /\ Cardinality(T) \in Nat /\ Cardinality(T) =< Cardinality(S)
    BY FS_Subset, FS_CardinalityType
  <1>2. ASSUME NEW T \in SUBSET S, T # {}
        PROVE  /\ OneOf(T) \in T /\ f[OneOf(T)] \in Int
               /\ T \ {OneOf(T)} \in SUBSET S /\ Cardinality(T \ {OneOf(T)}) = Cardinality(T) - 1
    <2>1. OneOf(T) \in T
      BY <1>2 DEF OneOf
    <2> QED BY <1>1, <2>1, FS_RemoveElement
  <1>3. missing = {}
    <2> SUFFICES ASSUME missing # {} PROVE FALSE
      OBVIOUS
    <2>1. missing \subseteq Nat
      OBVIOUS
    <2>2. PICK k \in missing : \A m \in missing : k =< m
      <3> HIDE DEF missing
      <3> QED BY <2>1, LeastNatural
    <2>3. k # 0
      <3> SUFFICES ASSUME k = 0 PROVE FALSE
        OBVIOUS
      <3> DEFINE g == [T \in Upto(0) |-> 0]
      <3>1. \A T \in Upto(0) : T = {}
        BY <1>1, FS_EmptySet
      <3>2. Sums(0, g)
        BY <3>1 DEF SumStep
      <3> QED BY <3>2
    <2>4. k - 1 \in Nat /\ k - 1 \notin missing
      <3>1. k \in Nat
        BY <2>1, <2>2
      <3> HIDE DEF missing
      <3> QED BY <2>2, <2>3, <3>1
    <2>5. PICK g : Sums(k - 1, g)
      BY <2>4
    <2> DEFINE h == [T \in Upto(k) |-> SumStep(f, g, T)]
    <2>6. ASSUME NEW T \in Upto(k), T # {} PROVE T \ {OneOf(T)} \in Upto(k - 1)
      BY <1>1, <1>2, <2>4, <2>6
    <2>7. ASSUME NEW U \in Upto(k - 1) PROVE U \in Upto(k) /\ h[U] = g[U]
      BY <1>1, <2>4, <2>5, <2>7
    <2>8. ASSUME NEW T \in Upto(k) PROVE h[T] \in Int /\ h[T] = SumStep(f, h, T)
      <3>1. CASE T = {}
        BY <3>1 DEF SumStep
      <3>2. CASE T # {}
        <4>1. g[T \ {OneOf(T)}] \in Int /\ h[T \ {OneOf(T)}] = g[T \ {OneOf(T)}]
          BY <2>5, <2>6, <2>7, <3>2
        <4> QED BY <1>2, <3>2, <4>1 DEF SumStep
      <3> QED BY <3>1, <3>2
    <2>9. Sums(k, h)
      <3>1. h \in [Upto(k) -> Int]
        BY <2>8
      <3> QED BY <2>8, <3>1
    <2> QED BY <2>2, <2>9
  <1>4. Cardinality(S) \in Nat
    BY FS_CardinalityType
  <1>5. PICK g : Sums(Cardinality(S), g)
    BY <1>3, <1>4
  <1>6. Upto(Cardinality(S)) = SUBSET S
    BY <1>1
  <1>7. g \in [SUBSET S -> Int] /\ \A T \in SUBSET S : g[T] = SumStep(f, g, T)
    BY <1>5, <1>6
  <1> QED BY <1>7

LEMMA SumsDefined ==
  ASSUME NEW S, IsFiniteSet(S), NEW f \in [S -> Int]
  PROVE  /\ PartialSums(f, S) \in [SUBSET S -> Int]
         /\ PartialSums(f, S)[{}] = 0
         /\ \A T \in SUBSET S : T # {} =>
               /\ OneOf(T) \in T
               /\ PartialSums(f, S)[T] = f[OneOf(T)] + PartialSums(f, S)[T \ {OneOf(T)}]
  <1> DEFINE g == PartialSums(f, S)
  <1>2. PICK h \in [SUBSET S -> Int] : \A T \in SUBSET S : h[T] = SumStep(f, h, T)
    BY SumsExist
  <1>1. g = [T \in SUBSET S |-> SumStep(f, g, T)]
    <2>1. h = [T \in SUBSET S |-> SumStep(f, h, T)]
      BY <1>2
    <2>2. \E x : x = [T \in SUBSET S |-> SumStep(f, x, T)]
      BY <2>1
    <2> QED BY <2>2 DEF PartialSums
  <1> HIDE DEF g
  <1>3. \A T \in SUBSET S : g[T] = SumStep(f, g, T) /\ h[T] = SumStep(f, h, T)
    BY <1>1, <1>2
  <1>4. g[{}] = 0
    BY <1>3 DEF SumStep
  <1>5. ASSUME NEW T \in SUBSET S, T # {}
        PROVE  OneOf(T) \in T /\ g[T] = f[OneOf(T)] + g[T \ {OneOf(T)}]
    BY <1>3, <1>5 DEF SumStep, OneOf
  <1>6. \A T \in SUBSET S : g[T] = h[T]
    <2> DEFINE C == {T \in SUBSET S : g[T] # h[T]}
    <2> SUFFICES ASSUME C # {} PROVE FALSE
      OBVIOUS
    <2>1. C \in SUBSET (SUBSET S)
      OBVIOUS
    <2>2. PICK T \in C : \A U \in SUBSET T : U # T => U \notin C
      <3> HIDE DEF C
      <3> QED BY <2>1, SmallestSubset
    <2>3. T # {}
      BY <1>3 DEF SumStep
    <2>4. OneOf(T) \in T
      BY <2>3 DEF OneOf
    <2>5. g[T \ {OneOf(T)}] = h[T \ {OneOf(T)}]
      BY <2>2, <2>4
    <2> QED BY <1>3, <2>3, <2>5 DEF SumStep
  <1>7. g \in [SUBSET S -> Int]
    BY <1>1, <1>2, <1>6
  <1> QED BY <1>4, <1>5, <1>7 DEF g

LEMMA SumPicks ==
  ASSUME NEW S, IsFiniteSet(S), NEW f \in [S -> Int], NEW T \in SUBSET S, T # {}
  PROVE  /\ OneOf(T) \in T
         /\ PartialSums(f, S)[T] = f[OneOf(T)] + PartialSums(f, S)[T \ {OneOf(T)}]
  <1>1. \A U \in SUBSET S : U # {} =>
            /\ OneOf(U) \in U
            /\ PartialSums(f, S)[U] = f[OneOf(U)] + PartialSums(f, S)[U \ {OneOf(U)}]
    BY SumsDefined
  <1> QED BY <1>1

LEMMA SumInt ==
  ASSUME NEW S, IsFiniteSet(S), NEW f \in [S -> Int], NEW T \in SUBSET S
  PROVE  PartialSums(f, S)[T] \in Int
  <1>1. PartialSums(f, S) \in [SUBSET S -> Int]
    BY SumsDefined
  <1> QED BY <1>1

(* The element that is taken out first does not matter. *)
LEMMA SumRemove ==
  ASSUME NEW S, IsFiniteSet(S), NEW f \in [S -> Int]
  PROVE  \A T \in SUBSET S : \A x \in T : PartialSums(f, S)[T] = f[x] + PartialSums(f, S)[T \ {x}]
  <1> DEFINE sum == PartialSums(f, S)
             Fails(U) == \E y \in U : sum[U] # f[y] + sum[U \ {y}]
             C == {U \in SUBSET S : Fails(U)}
  <1>1. sum \in [SUBSET S -> Int]
    BY SumsDefined
  <1>2. \A U \in SUBSET S : U # {} => OneOf(U) \in U /\ sum[U] = f[OneOf(U)] + sum[U \ {OneOf(U)}]
    BY SumsDefined
  <1> HIDE DEF sum
  <1>3. C = {}
    <2> SUFFICES ASSUME C # {} PROVE FALSE
      OBVIOUS
    <2>1. PICK U \in C : \A V \in SUBSET U : V # U => V \notin C
      <3>1. C \in SUBSET (SUBSET S)
        OBVIOUS
      <3> HIDE DEF C
      <3> QED BY <3>1, SmallestSubset
    <2>2. PICK y \in U : sum[U] # f[y] + sum[U \ {y}]
      OBVIOUS
    <2> DEFINE c == OneOf(U)
    <2>3. c \in U /\ sum[U] = f[c] + sum[U \ {c}]
      BY <1>2, <2>2
    <2> HIDE DEF c
    <2>4. c # y
      BY <2>2, <2>3
    <2>5. ASSUME NEW a \in U, NEW b \in U, a # b PROVE sum[U \ {a}] = f[b] + sum[(U \ {a}) \ {b}]
      <3>1. U \ {a} \in SUBSET U /\ U \ {a} # U /\ U \ {a} \in SUBSET S
        OBVIOUS
      <3>2. ~Fails(U \ {a})
        BY <2>1, <3>1
      <3> QED BY <2>5, <3>2
    <2>6. sum[U \ {c}] = f[y] + sum[(U \ {c}) \ {y}] /\ sum[U \ {y}] = f[c] + sum[(U \ {y}) \ {c}]
      BY <2>3, <2>4, <2>5
    <2>7. (U \ {c}) \ {y} = (U \ {y}) \ {c} /\ (U \ {c}) \ {y} \in SUBSET S
      OBVIOUS
    <2>8. f[y] \in Int /\ f[c] \in Int /\ sum[(U \ {c}) \ {y}] \in Int
      BY <1>1, <2>3, <2>7
    <2> DEFINE rest == sum[(U \ {c}) \ {y}]
    <2>9. sum[U] = f[c] + (f[y] + rest) /\ sum[U \ {y}] = f[c] + rest
      BY <2>3, <2>6, <2>7
    <2>10. rest \in Int
      BY <2>8
    <2> HIDE DEF rest
    <2> QED BY <2>2, <2>8, <2>9, <2>10
  <1> QED BY <1>3 DEF sum

(* Functions that agree on a set have the same sum over it. *)
LEMMA SumAgrees ==
  ASSUME NEW S, IsFiniteSet(S), NEW f \in [S -> Int],
         NEW R, IsFiniteSet(R), NEW g \in [R -> Int],
         NEW T, T \subseteq S, T \subseteq R, \A x \in T : f[x] = g[x]
  PROVE  PartialSums(f, S)[T] = PartialSums(g, R)[T]
  <1> DEFINE C == {U \in SUBSET T : PartialSums(f, S)[U] # PartialSums(g, R)[U]}
  <1> SUFFICES ASSUME C # {} PROVE FALSE
    OBVIOUS
  <1>1. PICK U \in C : \A V \in SUBSET U : V # U => V \notin C
    <2>1. C \in SUBSET (SUBSET T) /\ IsFiniteSet(T)
      BY FS_Subset
    <2> HIDE DEF C
    <2> QED BY <2>1, SmallestSubset
  <1>2. U \in SUBSET S /\ U \in SUBSET R
    OBVIOUS
  <1>3. U # {}
    BY SumsDefined
  <1>4. /\ OneOf(U) \in U
        /\ PartialSums(f, S)[U] = f[OneOf(U)] + PartialSums(f, S)[U \ {OneOf(U)}]
        /\ PartialSums(g, R)[U] = g[OneOf(U)] + PartialSums(g, R)[U \ {OneOf(U)}]
    <2>1. OneOf(U) \in U /\ PartialSums(f, S)[U] = f[OneOf(U)] + PartialSums(f, S)[U \ {OneOf(U)}]
      BY <1>2, <1>3, SumPicks
    <2>2. PartialSums(g, R)[U] = g[OneOf(U)] + PartialSums(g, R)[U \ {OneOf(U)}]
      BY <1>2, <1>3, SumPicks
    <2> QED BY <2>1, <2>2
  <1>5. PartialSums(f, S)[U \ {OneOf(U)}] = PartialSums(g, R)[U \ {OneOf(U)}]
    BY <1>1, <1>4
  <1> QED BY <1>4, <1>5

-----------------------------------------------------------------------------
(* What the proofs about the contracts and the node API cite. *)

LEMMA SumIsInteger ==
  ASSUME NEW S, IsFiniteSet(S), NEW f \in [S -> Int]
  PROVE  SumFunction(f) \in Int /\ SumFunction(f) = PartialSums(f, S)[S]
  <1>1. DOMAIN f = S /\ S \in SUBSET S
    OBVIOUS
  <1>2. SumFunction(f) = PartialSums(f, S)[S]
    BY <1>1, SumUnfolds
  <1>3. PartialSums(f, S)[S] \in Int
    BY <1>1, SumInt
  <1> QED BY <1>2, <1>3

(* One value changes, and the sum changes by as much. *)
LEMMA SumUpdates ==
  ASSUME NEW S, IsFiniteSet(S), NEW f \in [S -> Int], NEW g \in [S -> Int], NEW x \in S,
         \A y \in S \ {x} : g[y] = f[y]
  PROVE  /\ SumFunction(f) \in Int /\ SumFunction(g) \in Int
         /\ SumFunction(g) = SumFunction(f) + g[x] - f[x]
  <1> DEFINE a == PartialSums(f, S)[S \ {x}]
             b == PartialSums(g, S)[S \ {x}]
  <1>1. a \in Int /\ b \in Int /\ f[x] \in Int /\ g[x] \in Int
    <2>1. S \ {x} \in SUBSET S
      OBVIOUS
    <2> QED BY <2>1, SumInt
  <1>2. a = b
    BY SumAgrees
  <1>3. SumFunction(f) = f[x] + a /\ SumFunction(g) = g[x] + b
    <2>1. S \in SUBSET S
      OBVIOUS
    <2>2. PartialSums(f, S)[S] = f[x] + a /\ PartialSums(g, S)[S] = g[x] + b
      <3>1. \A T \in SUBSET S : \A y \in T : PartialSums(f, S)[T] = f[y] + PartialSums(f, S)[T \ {y}]
        BY SumRemove
      <3>2. \A T \in SUBSET S : \A y \in T : PartialSums(g, S)[T] = g[y] + PartialSums(g, S)[T \ {y}]
        BY SumRemove
      <3> QED BY <2>1, <3>1, <3>2
    <2>3. SumFunction(f) = PartialSums(f, S)[S] /\ SumFunction(g) = PartialSums(g, S)[S]
      BY SumIsInteger, Zenon
    <2> QED BY <2>2, <2>3
  <1> QED BY <1>1, <1>2, <1>3

LEMMA SumOfZeros ==
  ASSUME NEW S, IsFiniteSet(S), NEW f \in [S -> Int], \A x \in S : f[x] = 0
  PROVE  SumFunction(f) = 0
  <1> DEFINE C == {U \in SUBSET S : PartialSums(f, S)[U] # 0}
  <1> SUFFICES ASSUME C # {} PROVE FALSE
    BY SumIsInteger
  <1>1. PICK U \in C : \A V \in SUBSET U : V # U => V \notin C
    <2>1. C \in SUBSET (SUBSET S)
      OBVIOUS
    <2> HIDE DEF C
    <2> QED BY <2>1, SmallestSubset
  <1>2. U # {}
    BY SumsDefined
  <1>3. OneOf(U) \in U /\ PartialSums(f, S)[U] = f[OneOf(U)] + PartialSums(f, S)[U \ {OneOf(U)}]
    BY <1>2, SumsDefined
  <1>4. PartialSums(f, S)[U \ {OneOf(U)}] = 0
    BY <1>1, <1>3
  <1> QED BY <1>3, <1>4

LEMMA SumIsNatural ==
  ASSUME NEW S, IsFiniteSet(S), NEW f \in [S -> Nat]
  PROVE  SumFunction(f) \in Nat
  <1>1. f \in [S -> Int]
    OBVIOUS
  <1> DEFINE C == {U \in SUBSET S : PartialSums(f, S)[U] \notin Nat}
  <1> SUFFICES ASSUME C # {} PROVE FALSE
    BY <1>1, SumIsInteger
  <1>2. PICK U \in C : \A V \in SUBSET U : V # U => V \notin C
    <2>1. C \in SUBSET (SUBSET S)
      OBVIOUS
    <2> HIDE DEF C
    <2> QED BY <2>1, SmallestSubset
  <1>3. U # {}
    <2>1. PartialSums(f, S)[{}] = 0
      BY <1>1, SumsDefined
    <2> QED BY <2>1
  <1>4. OneOf(U) \in U /\ PartialSums(f, S)[U] = f[OneOf(U)] + PartialSums(f, S)[U \ {OneOf(U)}]
    BY <1>1, <1>3, SumPicks
  <1>5. PartialSums(f, S)[U \ {OneOf(U)}] \in Nat /\ f[OneOf(U)] \in Nat
    BY <1>2, <1>4
  <1> QED BY <1>4, <1>5

(* The sum of a sum of functions. *)
LEMMA SumPlus ==
  ASSUME NEW S, IsFiniteSet(S), NEW f \in [S -> Int], NEW g \in [S -> Int], NEW h \in [S -> Int],
         \A x \in S : h[x] = f[x] + g[x]
  PROVE  SumFunction(h) = SumFunction(f) + SumFunction(g)
  <1> DEFINE F == PartialSums(f, S)
             G == PartialSums(g, S)
             H == PartialSums(h, S)
             C == {U \in SUBSET S : H[U] # F[U] + G[U]}
  <1>1. ASSUME C = {} PROVE SumFunction(h) = SumFunction(f) + SumFunction(g)
    <2>1. S \in SUBSET S
      OBVIOUS
    <2>2. H[S] = F[S] + G[S]
      BY <1>1, <2>1
    <2>3. SumFunction(h) = H[S] /\ SumFunction(f) = F[S] /\ SumFunction(g) = G[S]
      BY SumIsInteger, Zenon
    <2> QED BY <2>2, <2>3
  <1> SUFFICES ASSUME C # {} PROVE FALSE
    BY <1>1
  <1>2. PICK U \in C : \A V \in SUBSET U : V # U => V \notin C
    <2>1. C \in SUBSET (SUBSET S)
      OBVIOUS
    <2> HIDE DEF C
    <2> QED BY <2>1, SmallestSubset
  <1>3. U \in SUBSET S /\ H[U] # F[U] + G[U]
    BY <1>2
  <1>4. U # {}
    <2>1. F[{}] = 0 /\ G[{}] = 0 /\ H[{}] = 0
      BY SumsDefined
    <2>2. H[{}] = F[{}] + G[{}]
      BY <2>1
    <2> HIDE DEF F, G, H
    <2> QED BY <1>3, <2>2
  <1> DEFINE y == OneOf(U)
             V == U \ {OneOf(U)}
  <1>5. y \in U /\ F[U] = f[y] + F[V] /\ G[U] = g[y] + G[V] /\ H[U] = h[y] + H[V]
    <2>1. y \in U /\ F[U] = f[y] + F[V]
      BY <1>3, <1>4, SumPicks
    <2>2. G[U] = g[y] + G[V]
      BY <1>3, <1>4, SumPicks
    <2>3. H[U] = h[y] + H[V]
      BY <1>3, <1>4, SumPicks
    <2> QED BY <2>1, <2>2, <2>3
  <1>6. y \in S /\ V \in SUBSET S /\ V \in SUBSET U /\ V # U
    BY <1>3, <1>5
  <1>7. H[V] = F[V] + G[V]
    BY <1>2, <1>6
  <1>8. F[V] \in Int /\ G[V] \in Int /\ f[y] \in Int /\ g[y] \in Int /\ h[y] = f[y] + g[y]
    BY <1>6, SumInt
  <1> HIDE DEF y, V, F, G, H, C
  <1> QED BY <1>3, <1>5, <1>7, <1>8

(* An element appended to a sequence adds itself to the sum. *)
LEMMA SumAppends ==
  ASSUME NEW s \in Seq(Int), NEW e \in Int
  PROVE  SumFunction(s) \in Int /\ SumFunction(Append(s, e)) = SumFunction(s) + e
  <1> DEFINE n == Len(s)
             t == Append(s, e)
  <1>1. n \in Nat /\ IsFiniteSet(1..n) /\ IsFiniteSet(1..(n + 1))
    BY FS_Interval
  <1>2. s \in [1..n -> Int] /\ t \in [1..(n + 1) -> Int]
    <2>1. s \in [1..n -> Int]
      OBVIOUS
    <2>2. t \in Seq(Int) /\ Len(t) = n + 1
      BY <1>1
    <2> QED BY <2>1, <2>2, LenProperties
  <1>3. t[n + 1] = e /\ \A i \in 1..n : t[i] = s[i]
    <2>1. t[n + 1] = e
      BY <1>1
    <2>2. \A i \in 1..n : t[i] = s[i]
      BY <1>1
    <2> QED BY <2>1, <2>2
  <1> HIDE DEF n, t
  <1>4. (1..(n + 1)) \ {n + 1} = 1..n /\ n + 1 \in 1..(n + 1) /\ 1..n \subseteq 1..(n + 1)
    BY <1>1
  <1>5. PartialSums(t, 1..(n + 1))[1..n] = PartialSums(s, 1..n)[1..n]
    BY <1>1, <1>2, <1>3, <1>4, SumAgrees
  <1>6. PartialSums(t, 1..(n + 1))[1..(n + 1)] = e + PartialSums(t, 1..(n + 1))[1..n]
    <2> DEFINE m == n + 1
    <2>1. 1..m \in SUBSET (1..m) /\ IsFiniteSet(1..m) /\ t \in [1..m -> Int] /\ m \in 1..m
      BY <1>1, <1>2, <1>4
    <2>2. t[m] = e /\ (1..m) \ {m} = 1..n
      BY <1>3, <1>4
    <2> HIDE DEF m
    <2>3. \A T \in SUBSET (1..m) : \A i \in T :
             PartialSums(t, 1..m)[T] = t[i] + PartialSums(t, 1..m)[T \ {i}]
      BY <2>1, SumRemove
    <2>4. PartialSums(t, 1..m)[1..m] = t[m] + PartialSums(t, 1..m)[(1..m) \ {m}]
      BY <2>1, <2>3
    <2> QED BY <2>2, <2>4 DEF m
  <1>7. SumFunction(s) \in Int /\ SumFunction(s) = PartialSums(s, 1..n)[1..n]
        /\ SumFunction(t) = PartialSums(t, 1..(n + 1))[1..(n + 1)]
    BY <1>1, <1>2, SumIsInteger
  <1>8. SumFunction(t) = SumFunction(s) + e
    BY <1>5, <1>6, <1>7
  <1> QED BY <1>7, <1>8 DEF t

-----------------------------------------------------------------------------
(* Filters of sequences. *)

(* A set with 0 and the successor of each of its members below N reaches N. *)
LEMMA ReachesAll ==
  ASSUME NEW N \in Nat, NEW P, 0 \in P, \A i \in 0..(N - 1) : i \in P => i + 1 \in P
  PROVE  \A i \in 0..N : i \in P
  <1> DEFINE missing == {i \in 0..N : i \notin P}
  <1> SUFFICES ASSUME missing # {} PROVE FALSE
    OBVIOUS
  <1>1. PICK i \in missing : \A j \in missing : i =< j
    <2>1. missing \subseteq Nat
      OBVIOUS
    <2> HIDE DEF missing
    <2> QED BY <2>1, LeastNatural
  <1>2. i \in 0..N /\ i # 0 /\ i \notin P
    BY <1>1
  <1>3. i - 1 \in 0..(N - 1) /\ i - 1 \notin missing
    <2>1. i - 1 \in 0..(N - 1) /\ i - 1 < i
      BY <1>2
    <2> HIDE DEF missing
    <2> QED BY <1>1, <1>2, <2>1
  <1>4. i - 1 \in P
    BY <1>3
  <1> QED BY <1>2, <1>3, <1>4

FilterStep(s, S, f, i) ==
    IF i = 0 THEN << >> ELSE IF s[i] \in S THEN Append(f[i - 1], s[i]) ELSE f[i - 1]
Filtered(s, S) == CHOOSE f : f = [i \in 0..Len(s) |-> FilterStep(s, S, f, i)]

LEMMA FilterUnfolds ==
  ASSUME NEW s, NEW S
  PROVE  Filter(s, S) = Filtered(s, S)[Len(s)]
  BY DEF Filter, Filtered, FilterStep

FiltersUpto(s, S, T, n, f) ==
    f \in [0..n -> Seq(T)] /\ \A i \in 0..n : f[i] = FilterStep(s, S, f, i)

(* The recursion of Filter defines a function. *)
LEMMA FiltersExist ==
  ASSUME NEW T, NEW s \in Seq(T), NEW S
  PROVE  \E f : FiltersUpto(s, S, T, Len(s), f)
  <1> USE DEF FiltersUpto
  <1> DEFINE N == Len(s)
             P == {n \in 0..N : \E f : FiltersUpto(s, S, T, n, f)}
  <1>0. N \in Nat /\ \A i \in 1..N : s[i] \in T
    OBVIOUS
  <1>1. 0 \in P
    <2> DEFINE f == [i \in 0..0 |-> << >>]
    <2>1. FiltersUpto(s, S, T, 0, f)
      BY DEF FilterStep
    <2>2. 0 \in 0..N
      BY <1>0
    <2>3. \E f1 : FiltersUpto(s, S, T, 0, f1)
      <3> HIDE DEF f
      <3> QED BY <2>1
    <2> HIDE DEF f
    <2> QED BY <2>2, <2>3
  <1>2. ASSUME NEW n \in 0..(N - 1), n \in P PROVE n + 1 \in P
    <2>1. PICK f : FiltersUpto(s, S, T, n, f)
      BY <1>2
    <2> DEFINE h == [i \in 0..(n + 1) |-> FilterStep(s, S, f, i)]
    <2>0. n \in Nat /\ n + 1 \in 0..N
      BY <1>0
    <2>2. ASSUME NEW i \in 0..n PROVE h[i] = f[i]
      BY <2>0, <2>1
    <2>3. ASSUME NEW i \in 0..(n + 1) PROVE h[i] \in Seq(T) /\ h[i] = FilterStep(s, S, h, i)
      <3>1. CASE i = 0
        BY <3>1 DEF FilterStep
      <3>2. CASE i # 0
        <4>1. i - 1 \in 0..n /\ s[i] \in T
          BY <1>0, <2>0, <3>2
        <4>2. f[i - 1] \in Seq(T) /\ h[i - 1] = f[i - 1]
          BY <2>1, <2>2, <4>1
        <4> QED BY <3>2, <4>1, <4>2 DEF FilterStep
      <3> QED BY <3>1, <3>2
    <2>4. FiltersUpto(s, S, T, n + 1, h)
      BY <2>3
    <2> QED BY <2>0, <2>4
  <1>3. N \in P
    <2> HIDE DEF P, N
    <2>1. N \in 0..N
      BY <1>0
    <2> QED BY <1>0, <1>1, <1>2, <2>1, ReachesAll
  <1> QED BY <1>3

LEMMA FilteredSteps ==
  ASSUME NEW T, NEW s \in Seq(T), NEW S
  PROVE  FiltersUpto(s, S, T, Len(s), Filtered(s, S))
  <1>1. PICK f : FiltersUpto(s, S, T, Len(s), f)
    BY FiltersExist
  <1>2. f = [i \in 0..Len(s) |-> FilterStep(s, S, f, i)]
    BY <1>1 DEF FiltersUpto
  <1> DEFINE g == Filtered(s, S)
             N == Len(s)
  <1>3. g = [i \in 0..Len(s) |-> FilterStep(s, S, g, i)]
    BY <1>2, Zenon DEF Filtered
  <1>4. N \in Nat /\ \A i \in 1..N : s[i] \in T
    OBVIOUS
  <1> HIDE DEF g
  <1>5. DOMAIN g = 0..N /\ \A i \in 0..N : g[i] = FilterStep(s, S, g, i)
    BY <1>3
  <1> DEFINE P == {i \in 0..N : g[i] \in Seq(T)}
  <1>6. 0 \in P
    <2>1. 0 \in 0..N
      BY <1>4
    <2>2. g[0] = << >>
      BY <1>5, <2>1 DEF FilterStep
    <2>3. << >> \in Seq(T)
      OBVIOUS
    <2> QED BY <2>1, <2>2, <2>3
  <1>7. ASSUME NEW i \in 0..(N - 1), i \in P PROVE i + 1 \in P
    <2>1. i + 1 \in 0..N /\ i + 1 \in 1..N /\ (i + 1) - 1 = i /\ i + 1 # 0
      BY <1>4
    <2>2. g[i] \in Seq(T) /\ s[i + 1] \in T
      BY <1>4, <1>7, <2>1
    <2>3. g[i + 1] = IF s[i + 1] \in S THEN Append(g[i], s[i + 1]) ELSE g[i]
      BY <1>5, <2>1 DEF FilterStep
    <2>4. g[i + 1] \in Seq(T)
      BY <2>2, <2>3
    <2> QED BY <2>1, <2>4
  <1>8. \A i \in 0..N : g[i] \in Seq(T)
    <2>1. \A i \in 0..N : i \in P
      <3> HIDE DEF P, N
      <3> QED BY <1>4, <1>6, <1>7, ReachesAll
    <2> QED BY <2>1
  <1>9. g \in [0..N -> Seq(T)]
    BY <1>3, <1>5, <1>8
  <1> QED BY <1>5, <1>9 DEF FiltersUpto, g

(* Nothing is left of the empty list. *)
LEMMA FilterEmpty ==
  ASSUME NEW S
  PROVE  Filter(<< >>, S) = << >>
  <1>1. FiltersUpto(<< >>, S, {}, 0, Filtered(<< >>, S))
    <2>1. << >> \in Seq({}) /\ Len(<< >>) = 0
      OBVIOUS
    <2> QED BY <2>1, FilteredSteps
  <1>2. Filtered(<< >>, S)[0] = << >>
    <2>1. 0 \in 0..0
      OBVIOUS
    <2> QED BY <1>1, <2>1 DEF FiltersUpto, FilterStep
  <1> QED BY <1>2, FilterUnfolds

(* Filter yields a sequence of what the list holds. *)
LEMMA FilterType ==
  ASSUME NEW T, NEW s \in Seq(T), NEW S
  PROVE  Filter(s, S) \in Seq(T)
  <1>1. Len(s) \in 0..Len(s)
    OBVIOUS
  <1> QED BY <1>1, FilteredSteps, FilterUnfolds DEF FiltersUpto

(* An entry at the end is kept iff it is in the set, whatever came before it. *)
LEMMA FilterAppend ==
  ASSUME NEW T, NEW s \in Seq(T), NEW x \in T, NEW S
  PROVE  Filter(Append(s, x), S) = IF x \in S THEN Append(Filter(s, S), x) ELSE Filter(s, S)
  <1> DEFINE t == Append(s, x)
             f == Filtered(s, S)
             g == Filtered(t, S)
             N == Len(s)
             P == {i \in 0..N : g[i] = f[i]}
  <1>1. N \in Nat /\ t \in Seq(T) /\ Len(t) = N + 1 /\ t[N + 1] = x /\ \A i \in 1..N : t[i] = s[i]
    OBVIOUS
  <1>2. FiltersUpto(s, S, T, N, f) /\ FiltersUpto(t, S, T, N + 1, g)
    BY <1>1, FilteredSteps
  <1> HIDE DEF f, g, t
  <1>3. /\ \A i \in 0..N : f[i] = FilterStep(s, S, f, i)
        /\ \A i \in 0..(N + 1) : g[i] = FilterStep(t, S, g, i)
    BY <1>2 DEF FiltersUpto
  <1>4. 0 \in P
    <2>1. 0 \in 0..N /\ 0 \in 0..(N + 1)
      BY <1>1
    <2> QED BY <1>3, <2>1 DEF FilterStep
  <1>5. ASSUME NEW i \in 0..(N - 1), i \in P PROVE i + 1 \in P
    <2>1. /\ i + 1 \in 0..N /\ i + 1 \in 0..(N + 1) /\ i + 1 \in 1..N
          /\ (i + 1) - 1 = i /\ i + 1 # 0
      BY <1>1
    <2>2. t[i + 1] = s[i + 1] /\ g[i] = f[i]
      BY <1>1, <1>5, <2>1
    <2> QED BY <1>3, <2>1, <2>2 DEF FilterStep
  <1>6. g[N] = f[N]
    <2>1. \A i \in 0..N : i \in P
      <3> HIDE DEF P, N
      <3> QED BY <1>1, <1>4, <1>5, ReachesAll
    <2>2. N \in 0..N
      BY <1>1
    <2> QED BY <2>1, <2>2
  <1>7. g[N + 1] = IF x \in S THEN Append(f[N], x) ELSE f[N]
    <2>1. N + 1 \in 0..(N + 1) /\ (N + 1) - 1 = N /\ N + 1 # 0
      BY <1>1
    <2> QED BY <1>1, <1>3, <1>6, <2>1 DEF FilterStep
  <1>8. Filter(t, S) = g[N + 1] /\ Filter(s, S) = f[N]
    BY <1>1, FilterUnfolds DEF f, g
  <1> QED BY <1>7, <1>8 DEF t

(* A list all of whose entries are in the set is its own filter. *)
LEMMA FilterAll ==
  ASSUME NEW T, NEW s \in Seq(T), NEW S, \A i \in 1..Len(s) : s[i] \in S
  PROVE  Filter(s, S) = s
  <1> DEFINE f == Filtered(s, S)
             N == Len(s)
             P == {i \in 0..N : Len(f[i]) = i /\ \A k \in 1..i : f[i][k] = s[k]}
  <1>1. N \in Nat /\ \A i \in 1..N : s[i] \in T
    OBVIOUS
  <1>2. FiltersUpto(s, S, T, N, f)
    BY FilteredSteps
  <1> HIDE DEF f
  <1>3. \A i \in 0..N : f[i] \in Seq(T) /\ f[i] = FilterStep(s, S, f, i)
    BY <1>2 DEF FiltersUpto
  <1>4. 0 \in P
    <2>1. 0 \in 0..N
      BY <1>1
    <2>2. f[0] = << >>
      BY <1>3, <2>1 DEF FilterStep
    <2> QED BY <2>1, <2>2
  <1>5. ASSUME NEW i \in 0..(N - 1), i \in P PROVE i + 1 \in P
    <2>1. /\ i \in 0..N /\ i + 1 \in 0..N /\ i + 1 \in 1..N
          /\ (i + 1) - 1 = i /\ i + 1 # 0 /\ i \in Nat
      BY <1>1
    <2>2. f[i + 1] = Append(f[i], s[i + 1]) /\ f[i] \in Seq(T) /\ s[i + 1] \in T
      BY <1>1, <1>3, <2>1 DEF FilterStep
    <2>3. Len(f[i]) = i /\ \A k \in 1..i : f[i][k] = s[k]
      BY <1>5
    <2>4. Len(f[i + 1]) = i + 1 /\ f[i + 1][i + 1] = s[i + 1]
          /\ \A k \in 1..i : f[i + 1][k] = f[i][k]
      BY <2>1, <2>2, <2>3
    <2>5. ASSUME NEW k \in 1..(i + 1) PROVE f[i + 1][k] = s[k]
      <3>1. k = i + 1 \/ k \in 1..i
        BY <2>1
      <3> QED BY <2>3, <2>4, <3>1
    <2> QED BY <2>1, <2>4, <2>5
  <1>6. Len(f[N]) = N /\ f[N] \in Seq(T) /\ \A k \in 1..N : f[N][k] = s[k]
    <2>1. \A i \in 0..N : i \in P
      <3> HIDE DEF P, N
      <3> QED BY <1>1, <1>4, <1>5, ReachesAll
    <2>2. N \in 0..N
      BY <1>1
    <2> QED BY <1>3, <2>1, <2>2
  <1>7. f[N] = s
    BY <1>1, <1>6
  <1> QED BY <1>7, FilterUnfolds DEF f

(* Where the entries of a filter stand in the list: their places m ascend, and *)
(* every entry in the set has one.                                             *)
Places(s, S, n, F, m) ==
    /\ m \in [1..Len(F) -> 1..n]
    /\ \A k \in 1..Len(F) : F[k] = s[m[k]] /\ F[k] \in S
    /\ \A k, l \in 1..Len(F) : k < l => m[k] < m[l]
    /\ \A i \in 1..n : s[i] \in S => \E k \in 1..Len(F) : m[k] = i

LEMMA FilterPlaces ==
  ASSUME NEW T, NEW s \in Seq(T), NEW S
  PROVE  Filter(s, S) \in Seq(T) /\ \E m : Places(s, S, Len(s), Filter(s, S), m)
  <1> DEFINE f == Filtered(s, S)
             N == Len(s)
             P == {i \in 0..N : \E m : Places(s, S, i, f[i], m)}
  <1>1. N \in Nat /\ \A i \in 1..N : s[i] \in T
    OBVIOUS
  <1>2. FiltersUpto(s, S, T, N, f)
    BY FilteredSteps
  <1> HIDE DEF f
  <1>3. \A i \in 0..N : f[i] \in Seq(T) /\ f[i] = FilterStep(s, S, f, i)
    BY <1>2 DEF FiltersUpto
  <1>4. 0 \in P
    <2>1. 0 \in 0..N
      BY <1>1
    <2>2. f[0] = << >>
      BY <1>3, <2>1 DEF FilterStep
    <2>3. Places(s, S, 0, << >>, << >>)
      BY DEF Places
    <2> QED BY <2>1, <2>2, <2>3
  <1>5. ASSUME NEW i \in 0..(N - 1), i \in P PROVE i + 1 \in P
    <2>1. /\ i \in 0..N /\ i + 1 \in 0..N /\ i + 1 \in 1..N
          /\ (i + 1) - 1 = i /\ i + 1 # 0 /\ i \in Nat
      BY <1>1
    <2>2. PICK m : Places(s, S, i, f[i], m)
      BY <1>5
    <2>3. f[i] \in Seq(T) /\ s[i + 1] \in T
      BY <1>1, <1>3, <2>1
    <2>4. CASE s[i + 1] \notin S
      <3>1. f[i + 1] = f[i]
        BY <1>3, <2>1, <2>4 DEF FilterStep
      <3>2. Places(s, S, i + 1, f[i], m)
        <4>1. m \in [1..Len(f[i]) -> 1..(i + 1)]
          BY <2>1, <2>2, <2>3 DEF Places
        <4>2. ASSUME NEW j \in 1..(i + 1), s[j] \in S PROVE j \in 1..i
          BY <2>1, <2>4, <4>2
        <4> QED BY <2>2, <4>1, <4>2 DEF Places
      <3> QED BY <2>1, <3>1, <3>2
    <2>5. CASE s[i + 1] \in S
      <3> DEFINE F == f[i]
                 L == Len(F)
                 G == Append(F, s[i + 1])
                 h == [k \in 1..(L + 1) |-> IF k = L + 1 THEN i + 1 ELSE m[k]]
      <3>1. f[i + 1] = G
        BY <1>3, <2>1, <2>5 DEF FilterStep
      <3>2. L \in Nat /\ Len(G) = L + 1 /\ G[L + 1] = s[i + 1] /\ \A k \in 1..L : G[k] = F[k]
        BY <2>3
      <3>3. /\ m \in [1..L -> 1..i]
            /\ \A k \in 1..L : F[k] = s[m[k]] /\ F[k] \in S
            /\ \A k, l \in 1..L : k < l => m[k] < m[l]
            /\ \A j \in 1..i : s[j] \in S => \E k \in 1..L : m[k] = j
        BY <2>2 DEF Places
      <3> HIDE DEF G, F, L
      <3>4. h[L + 1] = i + 1 /\ \A k \in 1..L : h[k] = m[k] /\ k \in 1..(L + 1) /\ h[k] \in 1..i
        BY <2>1, <3>2, <3>3
      <3>5. \A k \in 1..(L + 1) : k = L + 1 \/ k \in 1..L
        BY <3>2
      <3>6. h \in [1..(L + 1) -> 1..(i + 1)]
        BY <2>1, <3>3, <3>5
      <3> HIDE DEF h
      <3>7. \A k \in 1..(L + 1) : G[k] = s[h[k]] /\ G[k] \in S
        BY <2>5, <3>2, <3>3, <3>4, <3>5
      <3>8. ASSUME NEW k \in 1..(L + 1), NEW l \in 1..(L + 1), k < l PROVE h[k] < h[l]
        <4>1. k \in 1..L
          BY <3>2, <3>8
        <4>2. h[k] = m[k] /\ h[k] \in 1..i
          BY <3>4, <4>1
        <4>3. CASE l = L + 1
          BY <2>1, <3>4, <4>2, <4>3
        <4>4. CASE l \in 1..L
          BY <3>3, <3>4, <3>8, <4>1, <4>2, <4>4
        <4> QED BY <3>5, <4>3, <4>4
      <3>9. ASSUME NEW j \in 1..(i + 1), s[j] \in S PROVE \E k \in 1..(L + 1) : h[k] = j
        <4>1. CASE j = i + 1
          <5>1. L + 1 \in 1..(L + 1)
            BY <3>2
          <5> QED BY <3>4, <4>1, <5>1
        <4>2. CASE j # i + 1
          <5>1. j \in 1..i
            BY <2>1, <4>2
          <5>2. PICK k \in 1..L : m[k] = j
            BY <3>3, <3>9, <5>1
          <5> QED BY <3>4, <5>2
        <4> QED BY <4>1, <4>2
      <3>10. Places(s, S, i + 1, G, h)
        BY <3>2, <3>6, <3>7, <3>8, <3>9 DEF Places
      <3> QED BY <2>1, <3>1, <3>10
    <2> QED BY <2>4, <2>5
  <1>6. N \in P
    <2>1. \A i \in 0..N : i \in P
      <3> HIDE DEF P, N
      <3> QED BY <1>1, <1>4, <1>5, ReachesAll
    <2>2. N \in 0..N
      BY <1>1
    <2> QED BY <2>1, <2>2
  <1>7. f[N] = Filter(s, S)
    BY FilterUnfolds DEF f
  <1> QED BY <1>6, <1>7, FilterType

(* The entries of a filter are those of the list that are in the set. *)
LEMMA FilterEntries ==
  ASSUME NEW T, NEW s \in Seq(T), NEW S
  PROVE  /\ Filter(s, S) \in Seq(T)
         /\ \A k \in 1..Len(Filter(s, S)) : Filter(s, S)[k] \in S
                /\ \E i \in 1..Len(s) : Filter(s, S)[k] = s[i]
         /\ \A i \in 1..Len(s) : s[i] \in S => \E k \in 1..Len(Filter(s, S)) : Filter(s, S)[k] = s[i]
  <1> DEFINE F == Filter(s, S)
  <1>1. PICK m : Places(s, S, Len(s), F, m)
    BY FilterPlaces
  <1>2. F \in Seq(T)
    BY FilterType
  <1> HIDE DEF F
  <1>3. ASSUME NEW k \in 1..Len(F) PROVE F[k] \in S /\ \E i \in 1..Len(s) : F[k] = s[i]
    BY <1>1 DEF Places
  <1>4. ASSUME NEW i \in 1..Len(s), s[i] \in S PROVE \E k \in 1..Len(F) : F[k] = s[i]
    <2>1. PICK k \in 1..Len(F) : m[k] = i
      BY <1>1, <1>4 DEF Places
    <2> QED BY <1>1, <2>1 DEF Places
  <1> QED BY <1>2, <1>3, <1>4 DEF F

(* A set whose elements are all the same has one at most. *)
LEMMA AtMostOne == ASSUME NEW S, \A x, y \in S : x = y PROVE Cardinality(S) <= 1
<1>1. CASE S = {}
  BY <1>1, FS_EmptySet
<1>2. CASE S # {}
  <2>1. PICK x \in S : TRUE
    BY <1>2
  <2>2. Cardinality({x}) = 1
    BY FS_Singleton
  <2>3. S = {x}
    BY <2>1
  <2> QED
    BY <2>2, <2>3
<1> QED
  BY <1>1, <1>2

(* A function that is one to one and onto keeps the size of a finite set. *)
LEMMA SameSize ==
    ASSUME NEW A, NEW B, IsFiniteSet(A), NEW f \in [A -> B],
           \A x, y \in A : f[x] = f[y] => x = y, \A b \in B : \E a \in A : f[a] = b
    PROVE  IsFiniteSet(B) /\ Cardinality(B) = Cardinality(A)
<1>1. f \in Bijection(A, B)
  BY DEF Bijection, Injection, Surjection, IsInjective
<1>2. ExistsBijection(A, B)
  BY <1>1 DEF ExistsBijection
<1> QED
  BY <1>2, FS_Bijection

-----------------------------------------------------------------------------
(* Sorting *)

TotalOrder(n, R) ==
    /\ \A i, j \in 1..n : <<i, j>> \in R \/ <<j, i>> \in R
    /\ \A i, j \in 1..n : <<i, j>> \in R /\ <<j, i>> \in R => i = j
    /\ \A i, j, k \in 1..n : <<i, j>> \in R /\ <<j, k>> \in R => <<i, k>> \in R

(* The numbers up to n that do not come after i, and the place this gives it. *)
UpTo(n, R, i) == {j \in 1..n : <<j, i>> \in R}
Rank(n, R, i) == Cardinality(UpTo(n, R, i))

(* The place of a number is one of the numbers up to n, and greater than the   *)
(* places of those before it.                                                  *)
LEMMA RankGrows ==
  ASSUME NEW n \in Nat, NEW R, TotalOrder(n, R)
  PROVE  /\ \A i \in 1..n : Rank(n, R, i) \in 1..n
         /\ \A i, j \in 1..n : <<i, j>> \in R /\ i # j => Rank(n, R, i) < Rank(n, R, j)
  <1>1. IsFiniteSet(1..n) /\ Cardinality(1..n) = n
    BY FS_Interval
  <1>2. ASSUME NEW i \in 1..n
        PROVE  IsFiniteSet(UpTo(n, R, i)) /\ i \in UpTo(n, R, i) /\ Rank(n, R, i) \in 1..n
    <2>1. UpTo(n, R, i) \in SUBSET (1..n) /\ i \in UpTo(n, R, i)
      BY DEF UpTo, TotalOrder
    <2>2. IsFiniteSet(UpTo(n, R, i)) /\ Rank(n, R, i) <= n
      BY <1>1, <2>1, FS_Subset DEF Rank
    <2>3. Rank(n, R, i) \in Nat /\ Rank(n, R, i) # 0
      BY <2>1, <2>2, FS_CardinalityType, FS_EmptySet DEF Rank
    <2> QED
      BY <2>1, <2>2, <2>3
  <1>3. ASSUME NEW i \in 1..n, NEW j \in 1..n, <<i, j>> \in R, i # j PROVE Rank(n, R, i) < Rank(n, R, j)
    <2>1. UpTo(n, R, i) \in SUBSET UpTo(n, R, j) /\ j \notin UpTo(n, R, i)
      BY <1>3 DEF UpTo, TotalOrder
    <2>2. Rank(n, R, i) <= Rank(n, R, j) /\ Rank(n, R, i) # Rank(n, R, j)
      BY <1>2, <2>1, FS_Subset DEF Rank
    <2>3. Rank(n, R, i) \in Nat /\ Rank(n, R, j) \in Nat
      BY <1>2
    <2> QED
      BY <2>2, <2>3
  <1> QED
    BY <1>2, <1>3

(* What a sort does to the places of a list: at[k] is where the entry comes    *)
(* from that is at place k afterwards.                                         *)
LEMMA SortingPermutes ==
  ASSUME NEW n \in Nat, NEW R, TotalOrder(n, R), NEW at,
         \A k \in 1..n : at[k] = CHOOSE i \in 1..n : Rank(n, R, i) = k
  PROVE  /\ \A k \in 1..n : at[k] \in 1..n
         /\ \A k, l \in 1..n : at[k] = at[l] => k = l
         /\ \A i \in 1..n : \E k \in 1..n : at[k] = i
         /\ \A k, l \in 1..n : k < l => <<at[k], at[l]>> \in R
  <1>1. /\ \A i \in 1..n : Rank(n, R, i) \in 1..n
        /\ \A i, j \in 1..n : <<i, j>> \in R /\ i # j => Rank(n, R, i) < Rank(n, R, j)
    BY RankGrows
  <1>2. ASSUME NEW i \in 1..n, NEW j \in 1..n, Rank(n, R, i) <= Rank(n, R, j) PROVE <<i, j>> \in R
    <2>1. Rank(n, R, i) \in Nat /\ Rank(n, R, j) \in Nat /\ ~(Rank(n, R, j) < Rank(n, R, i))
      BY <1>1, <1>2
    <2> QED
      BY <1>1, <2>1 DEF TotalOrder
  <1>3. ASSUME NEW i \in 1..n, NEW j \in 1..n, Rank(n, R, i) = Rank(n, R, j) PROVE i = j
    <2>1. Rank(n, R, i) \in Nat /\ Rank(n, R, i) <= Rank(n, R, j) /\ Rank(n, R, j) <= Rank(n, R, i)
      BY <1>1, <1>3
    <2>2. <<i, j>> \in R /\ <<j, i>> \in R
      BY <1>2, <2>1
    <2> QED
      BY <2>2 DEF TotalOrder
  <1>4. \A k \in 1..n : \E i \in 1..n : Rank(n, R, i) = k
    <2> DEFINE place == [i \in 1..n |-> Rank(n, R, i)]
    <2>1. place \in Injection(1..n, 1..n)
      BY <1>1, <1>3 DEF Injection, IsInjective
    <2>2. place \in Surjection(1..n, 1..n)
      <3> HIDE DEF place
      <3> QED
        BY <2>1, FS_Interval, FS_Injection
    <2> QED
      BY <2>2 DEF Surjection
  <1>5. ASSUME NEW k \in 1..n PROVE at[k] \in 1..n /\ Rank(n, R, at[k]) = k
    BY <1>4
  <1>6. \A k, l \in 1..n : at[k] = at[l] => k = l
    BY <1>5
  <1>7. ASSUME NEW i \in 1..n PROVE \E k \in 1..n : at[k] = i
    <2>1. Rank(n, R, i) \in 1..n
      BY <1>1
    <2>2. at[Rank(n, R, i)] = i
      BY <1>3, <1>5, <2>1
    <2> QED
      BY <2>1, <2>2
  <1>8. ASSUME NEW k \in 1..n, NEW l \in 1..n, k < l PROVE <<at[k], at[l]>> \in R
    <2>1. at[k] \in 1..n /\ at[l] \in 1..n /\ Rank(n, R, at[k]) = k /\ Rank(n, R, at[l]) = l /\ k <= l
      BY <1>5, <1>8
    <2> QED
      BY <1>2, <2>1
  <1> QED
    BY <1>5, <1>6, <1>7, <1>8

=============================================================================
