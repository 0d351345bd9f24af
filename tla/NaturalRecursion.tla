-------------------------- MODULE NaturalRecursion ---------------------------
(***************************************************************************)
(* Induction over the natural numbers, stated about a set instead of about *)
(* a predicate, and the recursion it justifies.  What is proved is a       *)
(* membership in {n \in Nat : ...}; a function that is defined by          *)
(* recursion over 0 .. N, in a LET of the modules that use these lemmas,   *)
(* is the one that satisfies its equation.  An order of finitely many      *)
(* things numbers them.                                                    *)
(***************************************************************************)
EXTENDS Naturals, FiniteSetTheorems, WellFoundedInduction, TLAPS

(* Every set of natural numbers that is not empty has a least element.     *)
LEMMA LeastElement ==
    ASSUME NEW T \in SUBSET Nat, T # {}
    PROVE  \E n \in T : \A m \in T : n <= m
<1>1. PICK x \in T : \A y \in T : ~ (<<y, x>> \in OpToRel(<, Nat))
  BY WFMin, NatLessThanWellFounded
<1>2. \A y \in T : ~ (y < x)
  BY <1>1 DEF OpToRel
<1> QED
  BY <1>2

(* A set that has 0, and n + 1 with every n, has all natural numbers.      *)
LEMMA SetInduction ==
    ASSUME NEW T, 0 \in T, \A n \in Nat : n \in T => n + 1 \in T
    PROVE  Nat \subseteq T
<1> SUFFICES ASSUME Nat \ T # {} PROVE FALSE
  OBVIOUS
<1>1. PICK n \in Nat \ T : \A m \in Nat \ T : n <= m
  BY LeastElement
<1>2. n # 0 /\ n - 1 \in Nat /\ n - 1 \in T
  BY <1>1
<1> QED
  BY <1>2

(* h starts with c and goes on with F, up to k.                            *)
Solves(h, c, F, k) == \A n \in 0 .. k : h[n] = IF n = 0 THEN c ELSE F[h[n - 1]]

(* There is such a function.                                               *)
LEMMA Recursion ==
    ASSUME NEW S, NEW c \in S, NEW F \in [S -> S], NEW N \in Nat
    PROVE  \E h \in [0 .. N -> S] : Solves(h, c, F, N)
<1> DEFINE T == {j \in Nat : \E h \in [0 .. j -> S] : Solves(h, c, F, j)}
<1>1. 0 \in T
  <2> DEFINE g == [n \in 0 .. 0 |-> c]
  <2>1. g \in [0 .. 0 -> S] /\ Solves(g, c, F, 0)
    BY DEF Solves
  <2> QED
    BY <2>1
<1>2. ASSUME NEW k \in Nat, k \in T
      PROVE  k + 1 \in T
  <2>1. PICK h \in [0 .. k -> S] : Solves(h, c, F, k)
    BY <1>2
  <2> DEFINE g == [n \in 0 .. k + 1 |-> IF n <= k THEN h[n] ELSE F[h[k]]]
  <2>2. g \in [0 .. k + 1 -> S]
    OBVIOUS
  <2>3. Solves(g, c, F, k + 1)
    <3> SUFFICES ASSUME NEW n \in 0 .. k + 1
                 PROVE  g[n] = IF n = 0 THEN c ELSE F[g[n - 1]]
      BY DEF Solves
    <3>1. CASE n <= k
      <4>1. g[n] = h[n] /\ (n # 0 => n - 1 \in 0 .. k /\ g[n - 1] = h[n - 1])
        BY <3>1
      <4>2. h[n] = IF n = 0 THEN c ELSE F[h[n - 1]]
        BY <2>1, <3>1 DEF Solves
      <4> QED
        BY <4>1, <4>2
    <3>2. CASE n = k + 1
      BY <3>2
    <3> QED
      BY <3>1, <3>2
  <2> HIDE DEF g
  <2> QED
    BY <2>2, <2>3
<1>3. N \in T
  <2> HIDE DEF T
  <2> QED
    BY <1>1, <1>2, SetInduction
<1> QED
  BY <1>3

(* Where a finite set is in a strict order, L[x] what comes before x, each *)
(* number of predecessors from none to all but one is somebody's.          *)
LEMMA OrdersAreNumbered ==
  ASSUME NEW S, IsFiniteSet(S), NEW L \in [S -> SUBSET S],
         \A x \in S : x \notin L[x],
         \A x, y \in S : x # y => x \in L[y] \/ y \in L[x],
         \A x, y \in S : x \in L[y] => L[x] \subseteq L[y]
  PROVE  /\ Cardinality(S) \in Nat
         /\ \A x \in S : Cardinality(L[x]) \in 0 .. (Cardinality(S) - 1)
         /\ \A x, y \in S : x \in L[y] <=> Cardinality(L[x]) < Cardinality(L[y])
         /\ \A n \in 0 .. (Cardinality(S) - 1) : \E x \in S : Cardinality(L[x]) = n
<1> DEFINE N == Cardinality(S)
           r == [x \in S |-> Cardinality(L[x])]
<1>1. N \in Nat
  BY FS_CardinalityType
<1>2. \A x \in S : IsFiniteSet(L[x]) /\ Cardinality(L[x]) \in Nat
  BY FS_Subset, FS_CardinalityType
<1>3. ASSUME NEW x \in S PROVE Cardinality(L[x]) < N
  <2>1. L[x] \in SUBSET S /\ L[x] # S
    OBVIOUS
  <2> QED
    BY <1>1, <1>2, <2>1, FS_Subset
<1>4. ASSUME NEW x \in S, NEW y \in S, x \in L[y]
      PROVE  Cardinality(L[x]) < Cardinality(L[y])
  <2>1. L[x] \in SUBSET L[y] /\ L[x] # L[y]
    BY <1>4
  <2> QED
    BY <1>2, <2>1, FS_Subset
<1>5. ASSUME NEW x \in S, NEW y \in S, Cardinality(L[x]) < Cardinality(L[y])
      PROVE  x \in L[y]
  <2>1. x # y
    BY <1>2, <1>5
  <2>2. CASE y \in L[x]
    BY <1>2, <1>4, <1>5, <2>2
  <2> QED
    BY <2>1, <2>2
<1>6. r \in Injection(S, 0 .. (N - 1))
  <2>1. r \in [S -> 0 .. (N - 1)]
    BY <1>1, <1>2, <1>3
  <2>2. ASSUME NEW x \in S, NEW y \in S, x # y PROVE r[x] # r[y]
    BY <1>2, <1>4, <2>2
  <2> QED
    BY <2>1, <2>2 DEF Injection, IsInjective
<1>7. IsFiniteSet(0 .. (N - 1)) /\ Cardinality(0 .. (N - 1)) = N
  BY <1>1, FS_Interval
<1>8. r \in Surjection(S, 0 .. (N - 1))
  <2> HIDE DEF N, r
  <2>1. Cardinality(S) = Cardinality(0 .. (N - 1))
    BY <1>7 DEF N
  <2> QED
    BY <1>6, <1>7, <2>1, FS_Injection
<1>9. \A n \in 0 .. (N - 1) : \E x \in S : Cardinality(L[x]) = n
  BY <1>8 DEF Surjection
<1> QED
  BY <1>1, <1>2, <1>3, <1>4, <1>5, <1>9
=============================================================================
