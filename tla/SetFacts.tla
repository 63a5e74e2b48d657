------------------------------ MODULE SetFacts ------------------------------
(***************************************************************************)
(* Facts about finite sets that the proofs of several components need: a   *)
(* set of numbers has a least element, a set of finite sets a smallest     *)
(* one, and the sum of a function over a finite set, as MapThenSumSet      *)
(* computes it, exists, does not depend on the order in which the elements *)
(* are taken, and grows with the function.  An induction over a set is an  *)
(* argument about a smallest counterexample (LeastSubset).                 *)
(***************************************************************************)
EXTENDS Integers, FiniteSetsExt, FiniteSetTheorems, TLAPS

(* The sum of f over S. *)
SumOf(f, S) == MapThenSumSet(LAMBDA x : f[x], S)

(* The element that the library takes next. *)
Pick(s) == CHOOSE x \in s : TRUE

(* g is the function by which the library adds up f over the subsets of S.  *)
IsSum(g, f, S) ==
    g = [s \in SUBSET S |-> IF s = {} THEN 0 ELSE f[Pick(s)] + g[s \ {Pick(s)}]]

(* The recursive function of the library is one that satisfies IsSum.       *)
LEMMA SumIsChosen ==
    ASSUME NEW f, NEW S
    PROVE  SumOf(f, S) = (CHOOSE g : IsSum(g, f, S))[S]
BY DEF SumOf, MapThenSumSet, MapThenFoldSet, IsSum, Pick

(* A nonempty set of natural numbers has a least element.                   *)
LEMMA LeastNat ==
    ASSUME NEW T, T \subseteq Nat, T # {}
    PROVE  \E x \in T : \A y \in T : x <= y
<1>1. PICK x \in T : \A y \in T : ~ (<<y, x>> \in OpToRel(<, Nat))
  BY NatLessThanWellFounded, WFMin, Zenon
<1>2. ASSUME NEW y \in T PROVE x <= y
  <2>1. ~ (y < x)
    BY <1>1 DEF OpToRel
  <2> QED
    BY <2>1
<1> QED
  BY <1>2

(* What Min returns for a set of natural numbers.                           *)
LEMMA MinIsLeast ==
    ASSUME NEW T, T \subseteq Nat, T # {}
    PROVE  Min(T) \in T /\ \A y \in T : Min(T) <= y
<1>1. \E x \in T : \A y \in T : x <= y
  BY LeastNat
<1> QED
  BY <1>1, Zenon DEF Min

(* A nonempty set of subsets of a finite set has a smallest one.            *)
LEMMA LeastSubset ==
    ASSUME NEW S, IsFiniteSet(S), NEW B, B \subseteq SUBSET S, B # {}
    PROVE  \E T \in B : IsFiniteSet(T) /\ \A x \in T : T \ {x} \notin B
<1>1. B \subseteq FiniteSubsetsOf(S)
  BY FS_Subset DEF FiniteSubsetsOf
<1>2. PICK T \in B : \A U \in B : ~ (<<U, T>> \in StrictSubsetOrdering(S))
  BY <1>1, FS_StrictSubsetOrderingWellFounded, WFMin, Zenon
<1>3. ASSUME NEW x \in T PROVE T \ {x} \notin B
  <2>1. T \ {x} \in SUBSET S /\ T \in SUBSET S /\ T \ {x} # T
    BY <1>2
  <2>2. <<T \ {x}, T>> \in StrictSubsetOrdering(S)
    BY <2>1 DEF StrictSubsetOrdering
  <2> QED
    BY <2>2, <1>2
<1> QED
  BY <1>2, <1>3, FS_Subset

(* The recursion of the library defines a function: one for the subsets of  *)
(* at most n elements extends to the subsets of n + 1.                      *)
LEMMA SumExists ==
    ASSUME NEW f, NEW S, IsFiniteSet(S)
    PROVE  \E g : IsSum(g, f, S)
<1> DEFINE Upto(n) == {s \in SUBSET S : Cardinality(s) <= n}
           Partial(g, n) == g = [s \in Upto(n) |->
                               IF s = {} THEN 0 ELSE f[Pick(s)] + g[s \ {Pick(s)}]]
           Bad == {n \in Nat : ~ \E g : Partial(g, n)}
<1>1. \A s \in SUBSET S : /\ IsFiniteSet(s)
                          /\ Cardinality(s) \in Nat
                          /\ Cardinality(s) <= Cardinality(S)
  BY FS_Subset, FS_CardinalityType
<1>2. \A s \in SUBSET S : s # {} => /\ s \ {Pick(s)} \in SUBSET S
                                    /\ Cardinality(s \ {Pick(s)}) = Cardinality(s) - 1
  BY <1>1, FS_RemoveElement DEF Pick
<1>3. Bad = {}
  <2>1. SUFFICES ASSUME Bad # {} PROVE FALSE
    OBVIOUS
  <2>2. PICK n \in Bad : \A m \in Bad : n <= m
    <3>1. Bad \subseteq Nat
      OBVIOUS
    <3> HIDE DEF Bad
    <3> QED
      BY <2>1, <3>1, LeastNat
  <2>3. CASE n = 0
    <3> DEFINE g == [s \in Upto(0) |-> 0]
    <3>1. \A s \in Upto(0) : s = {}
      BY <1>1, FS_EmptySet
    <3>2. Partial(g, 0)
      BY <3>1
    <3> QED
      BY <2>3, <3>2
  <2>4. CASE n # 0
    <3>0. n \in Nat
      OBVIOUS
    <3>1. n - 1 \in Nat /\ n - 1 \notin Bad
      <4> HIDE DEF Bad
      <4> QED
        BY <2>2, <2>4, <3>0
    <3>2. PICK g : Partial(g, n - 1)
      BY <3>1
    <3> DEFINE h == [s \in Upto(n) |->
                       IF s = {} THEN 0 ELSE f[Pick(s)] + g[s \ {Pick(s)}]]
    <3>3. \A s \in Upto(n) : s # {} => s \ {Pick(s)} \in Upto(n - 1)
      BY <1>1, <1>2, <3>1
    <3>4. \A s \in Upto(n - 1) : s \in Upto(n)
      BY <1>1, <3>1
    <3>5. \A s \in Upto(n - 1) : h[s] = g[s]
      BY <3>2, <3>4
    <3>6. Partial(h, n)
      <4> HIDE DEF Upto
      <4> QED
        BY <3>3, <3>4, <3>5
    <3> QED
      BY <3>6
  <2> QED
    BY <2>3, <2>4
<1>4. PICK g : Partial(g, Cardinality(S))
  BY <1>1, <1>3
<1>5. Upto(Cardinality(S)) = SUBSET S
  BY <1>1
<1>6. IsSum(g, f, S)
  BY <1>4, <1>5 DEF IsSum
<1> QED
  BY <1>6

(* The sum over T does not depend on the set whose subsets are summed.      *)
LEMMA SumsAgree ==
    ASSUME NEW f, NEW S, IsFiniteSet(S), NEW T, T \subseteq S,
           NEW g, IsSum(g, f, S), NEW h, IsSum(h, f, T)
    PROVE  g[T] = h[T]
<1> DEFINE B == {U \in SUBSET T : g[U] # h[U]}
<1>1. SUFFICES ASSUME B # {} PROVE FALSE
  OBVIOUS
<1>2. IsFiniteSet(T)
  BY FS_Subset
<1>3. PICK U \in B : \A x \in U : U \ {x} \notin B
  <2>1. B \subseteq SUBSET T
    OBVIOUS
  <2> HIDE DEF B
  <2> QED
    BY <1>1, <1>2, <2>1, LeastSubset
<1>4. U \in SUBSET T /\ U \in SUBSET S
  BY <1>3
<1>5. CASE U = {}
  <2>1. g[U] = 0 /\ h[U] = 0
    BY <1>4, <1>5 DEF IsSum
  <2> QED
    BY <2>1
<1>6. CASE U # {}
  <2>1. Pick(U) \in U
    BY <1>6 DEF Pick
  <2>2. g[U \ {Pick(U)}] = h[U \ {Pick(U)}]
    BY <1>3, <2>1
  <2>3. g[U] = f[Pick(U)] + g[U \ {Pick(U)}]
    BY <1>4, <1>6 DEF IsSum
  <2>4. h[U] = f[Pick(U)] + h[U \ {Pick(U)}]
    BY <1>4, <1>6 DEF IsSum
  <2> QED
    BY <2>2, <2>3, <2>4
<1> QED
  BY <1>5, <1>6

(* One step of the recursion.                                               *)
LEMMA SumUnfolds ==
    ASSUME NEW f, NEW S, IsFiniteSet(S)
    PROVE  SumOf(f, S) = IF S = {} THEN 0
                         ELSE f[Pick(S)] + SumOf(f, S \ {Pick(S)})
<1> DEFINE g == CHOOSE g : IsSum(g, f, S)
           R == S \ {Pick(S)}
           h == CHOOSE h : IsSum(h, f, R)
<1>1. IsFiniteSet(R)
  BY FS_Subset
<1>2. IsSum(g, f, S) /\ IsSum(h, f, R)
  BY <1>1, SumExists, Zenon
<1>3. SumOf(f, S) = g[S] /\ SumOf(f, R) = h[R]
  BY SumIsChosen
<1> HIDE DEF g, h
<1>4. g[R] = h[R]
  BY <1>2, SumsAgree
<1>5. g[S] = IF S = {} THEN 0 ELSE f[Pick(S)] + g[R]
  BY <1>2 DEF IsSum
<1> QED
  BY <1>3, <1>4, <1>5

(* The sum over no elements.                                                *)
LEMMA SumEmpty == \A f : SumOf(f, {}) = 0
BY SumUnfolds, FS_EmptySet

(* A sum of natural numbers is one.                                         *)
LEMMA SumType ==
    ASSUME NEW f, NEW S, IsFiniteSet(S), \A x \in S : f[x] \in Nat
    PROVE  SumOf(f, S) \in Nat
<1> DEFINE B == {U \in SUBSET S : SumOf(f, U) \notin Nat}
<1>1. SUFFICES ASSUME B # {} PROVE FALSE
  OBVIOUS
<1>2. PICK U \in B : IsFiniteSet(U) /\ \A x \in U : U \ {x} \notin B
  <2>1. B \subseteq SUBSET S
    OBVIOUS
  <2> HIDE DEF B
  <2> QED
    BY <1>1, <2>1, LeastSubset
<1>3. U # {}
  BY SumEmpty
<1>4. Pick(U) \in U /\ f[Pick(U)] \in Nat /\ SumOf(f, U \ {Pick(U)}) \in Nat
  BY <1>2, <1>3 DEF Pick
<1>5. SumOf(f, U) = f[Pick(U)] + SumOf(f, U \ {Pick(U)})
  BY <1>2, <1>3, SumUnfolds
<1> QED
  BY <1>4, <1>5

(* Any element may be taken out of a sum first.                             *)
LEMMA SumRemove ==
    ASSUME NEW f, NEW S, IsFiniteSet(S), \A x \in S : f[x] \in Nat, NEW y \in S
    PROVE  SumOf(f, S) = f[y] + SumOf(f, S \ {y})
<1> DEFINE B == {U \in SUBSET S : \E z \in U : SumOf(f, U) # f[z] + SumOf(f, U \ {z})}
<1>1. SUFFICES ASSUME B # {} PROVE FALSE
  OBVIOUS
<1>2. PICK U \in B : IsFiniteSet(U) /\ \A x \in U : U \ {x} \notin B
  <2>1. B \subseteq SUBSET S
    OBVIOUS
  <2> HIDE DEF B
  <2> QED
    BY <1>1, <2>1, LeastSubset
<1>3. PICK z \in U : SumOf(f, U) # f[z] + SumOf(f, U \ {z})
  OBVIOUS
<1> DEFINE p == Pick(U)
<1>4. p \in U
  BY <1>3 DEF Pick
<1>5. SumOf(f, U) = f[p] + SumOf(f, U \ {p})
  BY <1>2, <1>3, SumUnfolds
<1> HIDE DEF p
<1>6. p # z
  BY <1>3, <1>5
<1>7. U \in SUBSET S /\ U \ {p} \in SUBSET S /\ U \ {z} \in SUBSET S
      /\ z \in U \ {p} /\ p \in U \ {z}
  BY <1>2, <1>4, <1>6
<1>8. SumOf(f, U \ {p}) = f[z] + SumOf(f, (U \ {p}) \ {z})
  BY <1>2, <1>4, <1>7
<1>9. SumOf(f, U \ {z}) = f[p] + SumOf(f, (U \ {z}) \ {p})
  BY <1>2, <1>3, <1>7
<1>10. (U \ {z}) \ {p} = (U \ {p}) \ {z}
  OBVIOUS
<1>11. f[z] \in Nat /\ f[p] \in Nat /\ SumOf(f, (U \ {p}) \ {z}) \in Nat
  <2>1. IsFiniteSet((U \ {p}) \ {z})
    BY <1>2, FS_Subset
  <2>2. \A x \in (U \ {p}) \ {z} : f[x] \in Nat
    BY <1>7
  <2> QED
    BY <2>1, <2>2, SumType, <1>7
<1>12. ASSUME NEW a \in Nat, NEW b \in Nat, NEW c \in Nat
       PROVE  a + (b + c) = b + (a + c)
  OBVIOUS
<1>13. f[p] + (f[z] + SumOf(f, (U \ {p}) \ {z})) = f[z] + (f[p] + SumOf(f, (U \ {p}) \ {z}))
  BY <1>11, <1>12
<1> QED
  BY <1>3, <1>5, <1>8, <1>9, <1>10, <1>13, Zenon

(* A larger function has a larger sum.                                      *)
LEMMA SumMonotone ==
    ASSUME NEW S, IsFiniteSet(S), NEW f, NEW g,
           \A x \in S : f[x] \in Nat /\ g[x] \in Nat /\ f[x] <= g[x]
    PROVE  SumOf(f, S) <= SumOf(g, S)
<1> DEFINE B == {U \in SUBSET S : ~(SumOf(f, U) <= SumOf(g, U))}
<1>1. SUFFICES ASSUME B # {} PROVE FALSE
  OBVIOUS
<1>2. PICK U \in B : IsFiniteSet(U) /\ \A x \in U : U \ {x} \notin B
  <2>1. B \subseteq SUBSET S
    OBVIOUS
  <2> HIDE DEF B
  <2> QED
    BY <1>1, <2>1, LeastSubset
<1>3. U # {}
  BY SumEmpty
<1>4. PICK p : p \in U
  BY <1>3
<1>5. U \in SUBSET S /\ U \ {p} \in SUBSET S /\ IsFiniteSet(U \ {p})
  BY <1>2, FS_Subset
<1>6. SumOf(f, U) = f[p] + SumOf(f, U \ {p})
  BY <1>2, <1>4, <1>5, SumRemove
<1>7. SumOf(g, U) = g[p] + SumOf(g, U \ {p})
  BY <1>2, <1>4, <1>5, SumRemove
<1>8. SumOf(f, U \ {p}) <= SumOf(g, U \ {p})
  BY <1>2, <1>4, <1>5
<1>9. SumOf(f, U \ {p}) \in Nat /\ SumOf(g, U \ {p}) \in Nat
  <2>1. \A x \in U \ {p} : f[x] \in Nat /\ g[x] \in Nat
    BY <1>5
  <2> QED
    BY <1>5, <2>1, SumType
<1>10. f[p] \in Nat /\ g[p] \in Nat /\ f[p] <= g[p]
  BY <1>4, <1>5
<1>11. SumOf(f, U) <= SumOf(g, U)
  BY <1>6, <1>7, <1>8, <1>9, <1>10
<1> QED
  BY <1>11, <1>2

(* The sum depends only on the values at the elements of the set.           *)
LEMMA SumEqual ==
    ASSUME NEW S, IsFiniteSet(S), NEW f, NEW g,
           \A x \in S : f[x] \in Nat /\ g[x] = f[x]
    PROVE  SumOf(f, S) = SumOf(g, S)
<1>1. \A x \in S : f[x] \in Nat /\ g[x] \in Nat /\ f[x] <= g[x] /\ g[x] <= f[x]
  OBVIOUS
<1>2. SumOf(f, S) <= SumOf(g, S) /\ SumOf(g, S) <= SumOf(f, S)
  BY <1>1, SumMonotone
<1>3. SumOf(f, S) \in Nat /\ SumOf(g, S) \in Nat
  BY <1>1, SumType
<1> QED
  BY <1>2, <1>3

(* Sums are added element by element.                                       *)
LEMMA SumAdd ==
    ASSUME NEW S, IsFiniteSet(S), NEW f, NEW g, NEW h,
           \A x \in S : f[x] \in Nat /\ g[x] \in Nat /\ h[x] = f[x] + g[x]
    PROVE  SumOf(h, S) = SumOf(f, S) + SumOf(g, S)
<1> DEFINE B == {U \in SUBSET S : SumOf(h, U) # SumOf(f, U) + SumOf(g, U)}
<1>1. SUFFICES ASSUME B # {} PROVE FALSE
  OBVIOUS
<1>2. PICK U \in B : IsFiniteSet(U) /\ \A x \in U : U \ {x} \notin B
  <2>1. B \subseteq SUBSET S
    OBVIOUS
  <2> HIDE DEF B
  <2> QED
    BY <1>1, <2>1, LeastSubset
<1>3. U # {}
  <2>1. SumOf(f, {}) = 0 /\ SumOf(g, {}) = 0 /\ SumOf(h, {}) = 0
    BY SumEmpty
  <2>2. {} \notin B
    BY <2>1
  <2> QED
    BY <2>2, <1>2
<1>4. PICK p : p \in U
  BY <1>3
<1> DEFINE R == U \ {p}
<1>5. U \in SUBSET S /\ R \in SUBSET S /\ IsFiniteSet(R)
  BY <1>2, FS_Subset
<1>6. \A x \in U : f[x] \in Nat /\ g[x] \in Nat /\ h[x] \in Nat
  BY <1>5
<1>7. SumOf(f, U) = f[p] + SumOf(f, R) /\ SumOf(g, U) = g[p] + SumOf(g, R)
      /\ SumOf(h, U) = h[p] + SumOf(h, R)
  BY <1>2, <1>4, <1>6, SumRemove
<1>8. SumOf(h, R) = SumOf(f, R) + SumOf(g, R)
  BY <1>2, <1>4, <1>5
<1>9. SumOf(f, R) \in Nat /\ SumOf(g, R) \in Nat
  BY <1>5, <1>6, SumType
<1>10. f[p] \in Nat /\ g[p] \in Nat /\ h[p] = f[p] + g[p]
  BY <1>4, <1>5
<1> HIDE DEF R
<1>11. SumOf(h, U) = SumOf(f, U) + SumOf(g, U)
  BY <1>7, <1>8, <1>9, <1>10
<1> QED
  BY <1>11

(* Disjoint finite sets: the sizes add up.                                  *)
LEMMA DisjointUnion ==
    ASSUME NEW S, NEW T, IsFiniteSet(S), IsFiniteSet(T), S \cap T = {}
    PROVE  /\ IsFiniteSet(S \cup T)
           /\ Cardinality(S \cup T) = Cardinality(S) + Cardinality(T)
<1>1. Cardinality(S) \in Nat /\ Cardinality(T) \in Nat
  BY FS_CardinalityType
<1>2. Cardinality(S \cap T) = 0
  BY FS_EmptySet, Zenon
<1>3. /\ IsFiniteSet(S \cup T)
      /\ Cardinality(S \cup T) = Cardinality(S) + Cardinality(T) - Cardinality(S \cap T)
  BY FS_Union, Zenon
<1> QED
  BY <1>1, <1>2, <1>3

(* The elements of F that w maps into S.                                    *)
Into(F, w, S) == {f \in F : w[f] \in S}

(* Counting by value: the elements that w maps into S are, for each value   *)
(* in S, the elements that w maps to it.                                    *)
LEMMA SumOfFibres ==
    ASSUME NEW F, IsFiniteSet(F), NEW w, NEW S, IsFiniteSet(S), NEW u,
           \A d \in S : u[d] = Cardinality(Into(F, w, {d}))
    PROVE  SumOf(u, S) = Cardinality(Into(F, w, S))
<1> DEFINE B == {U \in SUBSET S : SumOf(u, U) # Cardinality(Into(F, w, U))}
<1>1. SUFFICES ASSUME B # {} PROVE FALSE
  OBVIOUS
<1>2. PICK U \in B : IsFiniteSet(U) /\ \A x \in U : U \ {x} \notin B
  <2>1. B \subseteq SUBSET S
    OBVIOUS
  <2> HIDE DEF B
  <2> QED
    BY <1>1, <2>1, LeastSubset
<1>3. U # {}
  <2>1. Into(F, w, {}) = {}
    BY DEF Into
  <2> QED
    BY <2>1, SumEmpty, FS_EmptySet
<1>4. PICK p : p \in U
  BY <1>3
<1> DEFINE R == U \ {p}
           P == Into(F, w, {p})
<1>5. U \in SUBSET S /\ R \in SUBSET S /\ IsFiniteSet(R) /\ p \in S
  BY <1>2, <1>4, FS_Subset
<1>6. \A x \in U : u[x] \in Nat
  <2>1. \A x \in U : u[x] = Cardinality(Into(F, w, {x}))
    BY <1>5
  <2>2. \A x \in U : Cardinality(Into(F, w, {x})) \in Nat
    <3>1. \A x \in U : Into(F, w, {x}) \in SUBSET F
      BY DEF Into
    <3>2. \A T \in SUBSET F : Cardinality(T) \in Nat
      BY FS_Subset, FS_CardinalityType
    <3> QED
      BY <3>1, <3>2
  <2> QED
    BY <2>1, <2>2
<1>7. SumOf(u, U) = u[p] + SumOf(u, R)
  BY <1>2, <1>4, <1>6, SumRemove
<1>8. SumOf(u, R) = Cardinality(Into(F, w, R))
  BY <1>2, <1>4, <1>5
<1>9. u[p] = Cardinality(P)
  BY <1>5
<1>10. /\ IsFiniteSet(P) /\ IsFiniteSet(Into(F, w, R))
       /\ P \cap Into(F, w, R) = {} /\ Into(F, w, U) = P \cup Into(F, w, R)
  BY <1>4, FS_Subset DEF Into
<1> HIDE DEF P, R
<1>11. Cardinality(Into(F, w, U)) = Cardinality(P) + Cardinality(Into(F, w, R))
  BY <1>10, DisjointUnion
<1>12. SumOf(u, U) = Cardinality(Into(F, w, U))
  BY <1>7, <1>8, <1>9, <1>11
<1> QED
  BY <1>12

(* The sum when one element d is new, removed or has a new value.           *)
LEMMA SumUpdate ==
    ASSUME NEW D, IsFiniteSet(D), NEW S, S \subseteq D, NEW T, T \subseteq D, NEW d,
           NEW f, NEW g, \A x \in D : f[x] \in Nat /\ g[x] \in Nat,
           \A x \in D : x # d => g[x] = f[x] /\ (x \in S <=> x \in T)
    PROVE  SumOf(g, T) + (IF d \in S THEN f[d] ELSE 0)
               = SumOf(f, S) + (IF d \in T THEN g[d] ELSE 0)
<1> DEFINE R == S \ {d}
<1>1. /\ R = S \ {d} /\ R = T \ {d} /\ (d \notin S => S = R) /\ (d \notin T => T = R)
      /\ IsFiniteSet(S) /\ IsFiniteSet(T) /\ IsFiniteSet(R) /\ R \subseteq D
  BY FS_Subset
<1> HIDE DEF R
<1>2. SumOf(f, R) = SumOf(g, R) /\ SumOf(f, R) \in Nat /\ SumOf(g, R) \in Nat
  <2>1. \A x \in R : f[x] \in Nat /\ g[x] = f[x]
    BY <1>1
  <2> QED
    BY <1>1, <2>1, SumEqual, SumType
<1>3. SumOf(f, S) = (IF d \in S THEN f[d] ELSE 0) + SumOf(f, R)
  <2>1. CASE d \in S
    BY <1>1, <2>1, SumRemove
  <2>2. CASE d \notin S
    <3>1. SumOf(f, S) = SumOf(f, R)
      BY <1>1, <2>2, Zenon
    <3> QED
      BY <1>2, <2>2, <3>1
  <2> QED
    BY <2>1, <2>2
<1>4. SumOf(g, T) = (IF d \in T THEN g[d] ELSE 0) + SumOf(g, R)
  <2>1. CASE d \in T
    BY <1>1, <2>1, SumRemove
  <2>2. CASE d \notin T
    <3>1. SumOf(g, T) = SumOf(g, R)
      BY <1>1, <2>2, Zenon
    <3> QED
      BY <1>2, <2>2, <3>1
  <2> QED
    BY <2>1, <2>2
<1>5. (d \in S => f[d] \in Nat) /\ (d \in T => g[d] \in Nat)
  OBVIOUS
<1> QED
  BY <1>2, <1>3, <1>4, <1>5
=============================================================================
