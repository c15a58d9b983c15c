------------------------------ MODULE Induction ------------------------------
(***************************************************************************)
(* Induction over numbers and over finite sets, functions defined by       *)
(* recursion on a number, and sums: what the proofs about amounts and      *)
(* about positions in a log rest on.                                       *)
(*                                                                         *)
(* A predicate is given as the set of what satisfies it, so that the       *)
(* provers can apply the lemmas; the sums are those of the module          *)
(* Functions, SumFunctionOnSet(f, S).                                      *)
(***************************************************************************)
EXTENDS Integers, FiniteSets, Functions, FiniteSetTheorems,
        WellFoundedInduction, TLAPS

----------------------------------------------------------------------------
(* Numbers.                                                                *)

Less == {ss \in Nat \X Nat : ss[1] < ss[2]}

LEMMA LessWellFounded == IsWellFoundedOn(Less, Nat)
BY NatLessThanWellFounded DEF OpToRel, Less

(* A set of numbers has a least one.                                       *)
LEMMA LeastNumber ==
  ASSUME NEW T \in SUBSET Nat, T # {}
  PROVE  \E x \in T : \A y \in T : x <= y
<1>1. PICK x \in T : \A y \in T : ~ (<<y, x>> \in Less)
  BY LessWellFounded, WFMin
<1>2. \A y \in T : ~ (y < x)
  BY <1>1 DEF Less
<1>3. QED
  BY <1>2

(* Induction over the numbers up to n.                                     *)
LEMMA UpToInduction ==
  ASSUME NEW n \in Nat, NEW Good, 0 \in Good,
         \A i \in 1 .. n : i - 1 \in Good => i \in Good
  PROVE  0 .. n \subseteq Good
<1> SUFFICES ASSUME (0 .. n) \ Good # {} PROVE FALSE
  OBVIOUS
<1>1. (0 .. n) \ Good \in SUBSET Nat
  OBVIOUS
<1>2. PICK x \in (0 .. n) \ Good : \A y \in (0 .. n) \ Good : x <= y
  BY <1>1, LeastNumber
<1>3. x \in 1 .. n
  BY <1>2
<1>4. x - 1 \in Good
  BY <1>2, <1>3
<1>5. QED
  BY <1>2, <1>3, <1>4

(* A set of numbers with a bound has a greatest one.                       *)
LEMMA GreatestNumber ==
  ASSUME NEW n \in Nat, NEW T \in SUBSET (0 .. n), T # {}
  PROVE  \E x \in T : \A y \in T : y <= x
<1> DEFINE U == {m \in 0 .. n : n - m \in T}
<1>1. PICK t \in T : t \in 0 .. n
  OBVIOUS
<1>2. n - t \in U
  BY <1>1
<1>3. U \in SUBSET Nat /\ U # {}
  BY <1>2
<1>4. PICK u \in U : \A v \in U : u <= v
  BY <1>3, LeastNumber
<1>5. \A y \in T : n - y \in U
  OBVIOUS
<1>6. n - u \in T /\ u \in 0 .. n
  BY <1>4
<1>7. \A y \in T : y <= n - u
  BY <1>4, <1>5, <1>6
<1>8. QED
  BY <1>6, <1>7

(* What is defined by recursion on a number up to n: a value for 0 and a   *)
(* function that makes each value from the one before it.                  *)
Recursive(n, V, b, h) ==
  {f \in [0 .. n -> V] :
     f[0] = b /\ \A i \in 1 .. n : f[i] = h[i][f[i - 1]]}

(* There is such a function.                                               *)
LEMMA Recursion ==
  ASSUME NEW n \in Nat, NEW V, NEW b \in V, NEW h \in [1 .. n -> [V -> V]]
  PROVE  Recursive(n, V, b, h) # {}
<1> DEFINE Made(m, f) ==
             f[0] = b /\ \A i \in 1 .. m : f[i] = h[i][f[i - 1]]
           Good == {m \in 0 .. n : \E f \in [0 .. m -> V] : Made(m, f)}
<1>1. 0 \in Good
  <2> DEFINE g == [i \in 0 .. 0 |-> b]
  <2>1. g \in [0 .. 0 -> V] /\ Made(0, g)
    OBVIOUS
  <2> HIDE DEF g
  <2>2. \E f \in [0 .. 0 -> V] : Made(0, f)
    BY <2>1
  <2>3. QED
    BY <2>2
<1>2. ASSUME NEW m \in 1 .. n, m - 1 \in Good PROVE m \in Good
  <2>1. PICK f \in [0 .. m - 1 -> V] : Made(m - 1, f)
    BY <1>2
  <2> DEFINE g == [i \in 0 .. m |-> IF i = m THEN h[m][f[m - 1]] ELSE f[i]]
  <2>2. f[m - 1] \in V /\ h[m][f[m - 1]] \in V
    OBVIOUS
  <2>3. g \in [0 .. m -> V]
    BY <2>2
  <2>4. g[0] = b
    BY <2>1
  <2>5. ASSUME NEW i \in 1 .. m PROVE g[i] = h[i][g[i - 1]]
    <3>1. CASE i = m
      BY <3>1
    <3>2. CASE i # m
      <4>1. i \in 1 .. m - 1 /\ i - 1 \in 0 .. m - 1 /\ i - 1 # m
        BY <3>2
      <4>2. QED
        BY <2>1, <4>1
    <3>3. QED
      BY <3>1, <3>2
  <2> HIDE DEF g
  <2>6. \E k \in [0 .. m -> V] : Made(m, k)
    BY <2>3, <2>4, <2>5
  <2>7. m \in 0 .. n
    OBVIOUS
  <2>8. QED
    BY <2>6, <2>7, Zenon
<1> HIDE DEF Good
<1>3. 0 .. n \subseteq Good
  <2>1. \A m \in 1 .. n : m - 1 \in Good => m \in Good
    BY <1>2
  <2>2. QED
    BY <1>1, <2>1, UpToInduction
<1>4. \E f \in [0 .. n -> V] : Made(n, f)
  BY <1>3, n \in 0 .. n DEF Good
<1>5. QED
  BY <1>4 DEF Recursive

----------------------------------------------------------------------------
(* Finite sets.                                                            *)

(* A finite set without a property has a least subset without it.          *)
LEMMA LeastSubset ==
  ASSUME NEW S, IsFiniteSet(S), NEW Bad \in SUBSET (SUBSET S), Bad # {}
  PROVE  \E T \in Bad : \A U \in SUBSET T : U # T => U \notin Bad
<1>1. IsWellFoundedOn(StrictSubsetOrdering(S), SUBSET S)
  BY FS_StrictSubsetOrderingWellFounded, FS_FiniteSubsetsOfFinite
<1>2. PICK T \in Bad : \A U \in Bad : ~ (<<U, T>> \in StrictSubsetOrdering(S))
  BY <1>1, WFMin
<1>3. QED
  BY <1>2 DEF StrictSubsetOrdering

(* Induction over the subsets of a finite set.                             *)
LEMMA SubsetInduction ==
  ASSUME NEW S, IsFiniteSet(S), NEW Good, {} \in Good,
         \A T \in SUBSET S : \A x \in S \ T : T \in Good => T \cup {x} \in Good
  PROVE  S \in Good
<1> DEFINE Bad == {T \in SUBSET S : T \notin Good}
<1> SUFFICES ASSUME S \notin Good PROVE FALSE
  OBVIOUS
<1>1. Bad \in SUBSET (SUBSET S) /\ Bad # {}
  OBVIOUS
<1> HIDE DEF Bad
<1>2. PICK T \in Bad : \A U \in SUBSET T : U # T => U \notin Bad
  BY <1>1, LeastSubset
<1>3. T \in SUBSET S /\ T \notin Good
  BY DEF Bad
<1>4. PICK x \in T : TRUE
  BY <1>3
<1>5. T \ {x} \in SUBSET S /\ x \in S \ (T \ {x}) /\ (T \ {x}) \cup {x} = T
  BY <1>3
<1>6. T \ {x} \in Good
  <2>1. T \ {x} \notin Bad
    BY <1>2
  <2>2. QED
    BY <1>5, <2>1 DEF Bad
<1>7. QED
  BY <1>3, <1>5, <1>6

----------------------------------------------------------------------------
(* Sums.                                                                   *)

Sum(f, S) == SumFunctionOnSet(f, S)

Picked(s) == CHOOSE x \in s : TRUE
Summed(f, s, g) == IF s = {} THEN 0 ELSE f[Picked(s)] + g[s \ {Picked(s)}]
Sums(f, S, g) == g = [s \in SUBSET S |-> Summed(f, s, g)]

LEMMA SumIsChosen == \A f, S : Sum(f, S) = (CHOOSE g : Sums(f, S, g))[S]
BY DEF Sum, SumFunctionOnSet, FoldFunctionOnSet, MapThenFoldSet, Sums, Summed, Picked

LEMMA PickedIsIn == \A s : s # {} => Picked(s) \in s
BY DEF Picked

(* The sums of the subsets of a finite set are what they are defined as.   *)
LEMMA SumsExist ==
  ASSUME NEW S, IsFiniteSet(S), NEW f, \A x \in S : f[x] \in Int
  PROVE  \E g \in [SUBSET S -> Int] : Sums(f, S, g)
<1> DEFINE Small(n) == {s \in SUBSET S : Cardinality(s) <= n}
           Good == {n \in 0 .. Cardinality(S) : \E g \in [Small(n) -> Int] :
                      \A s \in Small(n) : g[s] = Summed(f, s, g)}
<1>1. /\ Cardinality(S) \in Nat
      /\ \A s \in SUBSET S : /\ IsFiniteSet(s) /\ Cardinality(s) \in Nat
                             /\ Cardinality(s) <= Cardinality(S)
                             /\ Cardinality(s) = 0 <=> s = {}
  BY FS_CardinalityType, FS_Subset, FS_EmptySet
<1>2. ASSUME NEW s \in SUBSET S, s # {}
      PROVE  /\ Picked(s) \in s /\ s \ {Picked(s)} \in SUBSET S
             /\ Cardinality(s \ {Picked(s)}) = Cardinality(s) - 1
             /\ f[Picked(s)] \in Int
  BY <1>1, <1>2, PickedIsIn, FS_RemoveElement
<1>3. 0 \in Good
  <2> DEFINE g == [s \in Small(0) |-> 0]
  <2>1. \A s \in Small(0) : s = {}
    BY <1>1
  <2>2. g \in [Small(0) -> Int] /\ \A s \in Small(0) : g[s] = Summed(f, s, g)
    BY <2>1 DEF Summed
  <2> HIDE DEF g
  <2>3. \E k \in [Small(0) -> Int] : \A s \in Small(0) : k[s] = Summed(f, s, k)
    BY <2>2
  <2>4. QED
    BY <1>1, <2>3
<1>4. ASSUME NEW n \in 1 .. Cardinality(S), n - 1 \in Good PROVE n \in Good
  <2>1. PICK g \in [Small(n - 1) -> Int] :
          \A s \in Small(n - 1) : g[s] = Summed(f, s, g)
    BY <1>4
  <2> DEFINE k == [s \in Small(n) |-> IF s \in Small(n - 1) THEN g[s]
                                      ELSE Summed(f, s, g)]
  <2>2. \A s \in SUBSET S : s \in Small(n - 1) => s \in Small(n)
    BY <1>1
  <2>3. \A s \in Small(n) : s # {} => s \ {Picked(s)} \in Small(n - 1)
    BY <1>1, <1>2
  <2>4. \A s \in Small(n) : Summed(f, s, g) \in Int
    BY <1>2, <2>3 DEF Summed
  <2>5. k \in [Small(n) -> Int]
    BY <2>4
  <2>6. \A s \in Small(n - 1) : k[s] = g[s]
    BY <2>2
  <2>7. \A s \in Small(n) : k[s] = Summed(f, s, g)
    BY <2>1
  <2> HIDE DEF k
  <2>8. \A s \in Small(n) : Summed(f, s, g) = Summed(f, s, k)
    BY <2>3, <2>6 DEF Summed
  <2>9. \E l \in [Small(n) -> Int] : \A s \in Small(n) : l[s] = Summed(f, s, l)
    BY <2>5, <2>7, <2>8
  <2>10. n \in 0 .. Cardinality(S)
    BY <1>1
  <2>11. QED
    BY <2>9, <2>10, Zenon
<1> HIDE DEF Good
<1>5. Cardinality(S) \in Good
  <2>1. \A n \in 1 .. Cardinality(S) : n - 1 \in Good => n \in Good
    BY <1>4
  <2>2. 0 .. Cardinality(S) \subseteq Good
    BY <1>1, <1>3, <2>1, UpToInduction
  <2>3. QED
    BY <1>1, <2>2
<1>6. PICK g \in [Small(Cardinality(S)) -> Int] :
        \A s \in Small(Cardinality(S)) : g[s] = Summed(f, s, g)
  BY <1>5 DEF Good
<1>7. Small(Cardinality(S)) = SUBSET S
  BY <1>1
<1>8. Sums(f, S, g)
  BY <1>6, <1>7 DEF Sums
<1>9. QED
  BY <1>6, <1>7, <1>8

(* They are the only ones.                                                 *)
LEMMA SumsUnique ==
  ASSUME NEW S, IsFiniteSet(S), NEW f, NEW g, NEW T \in SUBSET S, NEW k,
         Sums(f, S, g), Sums(f, T, k)
  PROVE  g[T] = k[T]
<1> DEFINE Bad == {s \in SUBSET T : g[s] # k[s]}
<1> SUFFICES ASSUME Bad # {} PROVE FALSE
  BY T \in SUBSET T
<1>1. IsFiniteSet(T)
  BY FS_Subset
<1>2. Bad \in SUBSET (SUBSET T)
  OBVIOUS
<1> HIDE DEF Bad
<1>3. PICK s \in Bad : \A u \in SUBSET s : u # s => u \notin Bad
  BY <1>1, <1>2, LeastSubset
<1>4. s \in SUBSET T /\ s \in SUBSET S /\ g[s] # k[s]
  BY DEF Bad
<1>5. g[s] = Summed(f, s, g) /\ k[s] = Summed(f, s, k)
  BY <1>4 DEF Sums
<1>6. s # {}
  BY <1>4, <1>5 DEF Summed
<1>7. Picked(s) \in s
  BY <1>6, PickedIsIn
<1>8. s \ {Picked(s)} \notin Bad /\ s \ {Picked(s)} \in SUBSET T
  BY <1>3, <1>4, <1>7
<1>9. g[s \ {Picked(s)}] = k[s \ {Picked(s)}]
  BY <1>8 DEF Bad
<1>10. QED
  BY <1>4, <1>5, <1>6, <1>9 DEF Summed

(* A sum of nothing, and a sum with one of its terms taken out.            *)
LEMMA SumUnfold ==
  ASSUME NEW S, IsFiniteSet(S), NEW f, \A x \in S : f[x] \in Int
  PROVE  /\ Sum(f, S) \in Int
         /\ S = {} => Sum(f, S) = 0
         /\ S # {} => Sum(f, S) = f[Picked(S)] + Sum(f, S \ {Picked(S)})
<1> DEFINE G == CHOOSE g : Sums(f, S, g)
<1>1. PICK g \in [SUBSET S -> Int] : Sums(f, S, g)
  BY SumsExist
<1>2. Sums(f, S, G)
  BY <1>1
<1>3. Sum(f, S) = G[S]
  BY SumIsChosen
<1> HIDE DEF G
<1>4. G[S] = g[S] /\ g[S] \in Int
  BY <1>1, <1>2, SumsUnique, S \in SUBSET S
<1>5. G[S] = Summed(f, S, G)
  BY <1>2, S \in SUBSET S DEF Sums
<1>6. ASSUME S # {}
      PROVE  G[S \ {Picked(S)}] = Sum(f, S \ {Picked(S)})
  <2> DEFINE T == S \ {Picked(S)}
             K == CHOOSE k : Sums(f, T, k)
  <2>1. T \in SUBSET S /\ IsFiniteSet(T)
    BY FS_RemoveElement
  <2> HIDE DEF T
  <2>2. \E k : Sums(f, T, k)
    <3>1. \E k \in [SUBSET T -> Int] : Sums(f, T, k)
      BY <2>1, SumsExist
    <3>2. QED
      BY <3>1
  <2>3. Sums(f, T, K) /\ Sum(f, T) = K[T]
    BY <2>2, SumIsChosen
  <2> HIDE DEF K
  <2>4. G[T] = K[T]
    BY <1>2, <2>1, <2>3, SumsUnique
  <2>5. QED
    BY <2>3, <2>4 DEF T
<1>7. QED
  BY <1>3, <1>4, <1>5, <1>6 DEF Summed

LEMMA SumInt ==
  ASSUME NEW S, IsFiniteSet(S), NEW f, \A x \in S : f[x] \in Int
  PROVE  \A T \in SUBSET S : IsFiniteSet(T) /\ Sum(f, T) \in Int
BY SumUnfold, FS_Subset

LEMMA SumEmpty == \A f : Sum(f, {}) = 0
BY SumUnfold, FS_EmptySet

(* Whichever term is taken out.                                            *)
LEMMA SumRemove ==
  ASSUME NEW S, IsFiniteSet(S), NEW f, \A x \in S : f[x] \in Int, NEW x \in S
  PROVE  Sum(f, S) = Sum(f, S \ {x}) + f[x]
<1> DEFINE Bad == {T \in SUBSET S : \E y \in T : Sum(f, T) # Sum(f, T \ {y}) + f[y]}
<1> SUFFICES ASSUME Bad # {} PROVE FALSE
  BY S \in SUBSET S
<1>1. Bad \in SUBSET (SUBSET S)
  OBVIOUS
<1> HIDE DEF Bad
<1>2. PICK T \in Bad : \A U \in SUBSET T : U # T => U \notin Bad
  BY <1>1, LeastSubset
<1>3. T \in SUBSET S
  BY <1>1
<1>4. PICK y \in T : Sum(f, T) # Sum(f, T \ {y}) + f[y]
  BY DEF Bad
<1>5. \A U \in SUBSET S : Sum(f, U) \in Int
  BY SumInt
<1>6. \A U \in SUBSET T : U # T => \A z \in U : Sum(f, U) = Sum(f, U \ {z}) + f[z]
  BY <1>2, <1>3 DEF Bad
<1> DEFINE c == Picked(T)
           A == T \ {c}
           B == T \ {y}
<1>7. c \in T /\ Sum(f, T) = f[c] + Sum(f, A)
  BY <1>3, <1>4, SumInt, SumUnfold, PickedIsIn
<1>8. f[c] \in Int /\ f[y] \in Int
  BY <1>3, <1>7
<1>9. A \in SUBSET T /\ B \in SUBSET T /\ A # T /\ B # T /\ A \in SUBSET S /\ B \in SUBSET S
  BY <1>3, <1>7
<1>10. c # y
  <2>1. CASE c = y
    <3>1. A = B /\ Sum(f, A) \in Int
      BY <1>5, <1>9, <2>1
    <3> HIDE DEF A, B
    <3>2. Sum(f, T) = Sum(f, B) + f[y]
      BY <1>7, <1>8, <2>1, <3>1
    <3>3. QED
      BY <1>4, <3>2 DEF B
  <2>2. QED
    BY <2>1
<1>11. y \in A /\ c \in B /\ A \ {y} = B \ {c} /\ A \ {y} \in SUBSET S
  BY <1>3, <1>7, <1>10
<1> HIDE DEF A, B, c
<1>12. Sum(f, A) = Sum(f, A \ {y}) + f[y] /\ Sum(f, B) = Sum(f, B \ {c}) + f[c]
  BY <1>6, <1>9, <1>11
<1>13. Sum(f, T) = Sum(f, B) + f[y]
  <2>1. Sum(f, A) \in Int /\ Sum(f, B) \in Int /\ Sum(f, A \ {y}) \in Int
    BY <1>5, <1>9, <1>11
  <2>2. Sum(f, A \ {y}) = Sum(f, B \ {c})
    BY <1>11
  <2>3. QED
    BY <1>7, <1>8, <1>12, <2>1, <2>2
<1>14. QED
  BY <1>4, <1>13 DEF B

LEMMA SumAdd ==
  ASSUME NEW S, IsFiniteSet(S), NEW f, \A x \in S : f[x] \in Int,
         NEW x, x \notin S, f[x] \in Int
  PROVE  Sum(f, S \cup {x}) = Sum(f, S) + f[x]
<1>1. IsFiniteSet(S \cup {x}) /\ x \in S \cup {x} /\ (S \cup {x}) \ {x} = S
  BY FS_AddElement
<1>2. \A y \in S \cup {x} : f[y] \in Int
  OBVIOUS
<1>3. QED
  BY <1>1, <1>2, SumRemove

(* A sum depends on its terms only.                                        *)
LEMMA SumSame ==
  ASSUME NEW S, IsFiniteSet(S), NEW f, NEW g,
         \A x \in S : f[x] \in Int /\ f[x] = g[x]
  PROVE  Sum(f, S) = Sum(g, S)
<1> DEFINE Good == {T \in SUBSET S : Sum(f, T) = Sum(g, T)}
<1>1. {} \in Good
  BY SumEmpty
<1>2. ASSUME NEW T \in SUBSET S, NEW x \in S \ T, T \in Good
      PROVE  T \cup {x} \in Good
  <2>1. IsFiniteSet(T)
    BY FS_Subset
  <2>2. /\ Sum(f, T \cup {x}) = Sum(f, T) + f[x]
        /\ Sum(g, T \cup {x}) = Sum(g, T) + g[x]
    BY <2>1, SumAdd
  <2>3. QED
    BY <1>2, <2>2
<1> HIDE DEF Good
<1>3. S \in Good
  BY <1>1, <1>2, SubsetInduction
<1>4. QED
  BY <1>3 DEF Good

(* A sum of sums.                                                          *)
LEMMA SumPlus ==
  ASSUME NEW S, IsFiniteSet(S), NEW f, NEW g, NEW h,
         \A x \in S : f[x] \in Int /\ g[x] \in Int /\ h[x] = f[x] + g[x]
  PROVE  Sum(h, S) = Sum(f, S) + Sum(g, S)
<1> DEFINE Good == {T \in SUBSET S : Sum(h, T) = Sum(f, T) + Sum(g, T)}
<1>1. {} \in Good
  BY SumEmpty
<1>2. ASSUME NEW T \in SUBSET S, NEW x \in S \ T, T \in Good
      PROVE  T \cup {x} \in Good
  <2>1. IsFiniteSet(T)
    BY FS_Subset
  <2>2. h[x] \in Int /\ \A y \in T : h[y] \in Int
    OBVIOUS
  <2>3. /\ Sum(f, T \cup {x}) = Sum(f, T) + f[x]
        /\ Sum(g, T \cup {x}) = Sum(g, T) + g[x]
        /\ Sum(h, T \cup {x}) = Sum(h, T) + h[x]
    BY <2>1, <2>2, SumAdd
  <2>4. Sum(f, T) \in Int /\ Sum(g, T) \in Int
    BY SumInt
  <2>5. QED
    BY <1>2, <2>3, <2>4
<1> HIDE DEF Good
<1>3. S \in Good
  BY <1>1, <1>2, SubsetInduction
<1>4. QED
  BY <1>3 DEF Good

(* A sum of larger terms is larger.                                        *)
LEMMA SumMono ==
  ASSUME NEW S, IsFiniteSet(S), NEW f, NEW g,
         \A x \in S : f[x] \in Int /\ g[x] \in Int /\ f[x] <= g[x]
  PROVE  Sum(f, S) <= Sum(g, S)
<1> DEFINE Good == {T \in SUBSET S : Sum(f, T) <= Sum(g, T)}
<1>1. {} \in Good
  BY SumEmpty
<1>2. ASSUME NEW T \in SUBSET S, NEW x \in S \ T, T \in Good
      PROVE  T \cup {x} \in Good
  <2>1. IsFiniteSet(T)
    BY FS_Subset
  <2>2. /\ Sum(f, T \cup {x}) = Sum(f, T) + f[x]
        /\ Sum(g, T \cup {x}) = Sum(g, T) + g[x]
    BY <2>1, SumAdd
  <2>3. Sum(f, T) \in Int /\ Sum(g, T) \in Int
    BY SumInt
  <2>4. QED
    BY <1>2, <2>2, <2>3
<1> HIDE DEF Good
<1>3. S \in Good
  BY <1>1, <1>2, SubsetInduction
<1>4. QED
  BY <1>3 DEF Good

(* A sum without negative terms is not negative.                           *)
LEMMA SumNat ==
  ASSUME NEW S, IsFiniteSet(S), NEW f, \A x \in S : f[x] \in Nat
  PROVE  Sum(f, S) \in Nat
<1> DEFINE Good == {T \in SUBSET S : Sum(f, T) \in Nat}
<1>1. {} \in Good
  BY SumEmpty
<1>2. ASSUME NEW T \in SUBSET S, NEW x \in S \ T, T \in Good
      PROVE  T \cup {x} \in Good
  <2>1. IsFiniteSet(T) /\ \A y \in T : f[y] \in Int
    BY FS_Subset
  <2>2. Sum(f, T \cup {x}) = Sum(f, T) + f[x]
    BY <2>1, SumAdd
  <2>3. QED
    BY <1>2, <2>2
<1> HIDE DEF Good
<1>3. S \in Good
  BY <1>1, <1>2, SubsetInduction
<1>4. QED
  BY <1>3 DEF Good

(* When one term changes the sum changes by as much.                       *)
LEMMA SumChange ==
  ASSUME NEW S, IsFiniteSet(S), NEW f, NEW g, NEW x \in S,
         \A y \in S : f[y] \in Int /\ g[y] \in Int,
         \A y \in S \ {x} : f[y] = g[y]
  PROVE  Sum(g, S) = Sum(f, S) - f[x] + g[x]
<1>1. IsFiniteSet(S \ {x})
  BY FS_RemoveElement
<1>2. Sum(f, S \ {x}) = Sum(g, S \ {x})
  BY <1>1, SumSame
<1>3. Sum(f, S) = Sum(f, S \ {x}) + f[x] /\ Sum(g, S) = Sum(g, S \ {x}) + g[x]
  BY SumRemove
<1>4. Sum(f, S \ {x}) \in Int
  BY SumInt
<1>5. QED
  BY <1>2, <1>3, <1>4

LEMMA SumZero ==
  ASSUME NEW S, IsFiniteSet(S), NEW f, \A x \in S : f[x] = 0
  PROVE  Sum(f, S) = 0
<1>1. Sum(f, S) = Sum(f, S) + Sum(f, S)
  BY SumPlus
<1>2. Sum(f, S) \in Int
  BY SumInt
<1>3. \A n \in Int : n = n + n => n = 0
  OBVIOUS
<1>4. QED
  BY <1>1, <1>2, <1>3

(* A sum over a set and the rest.                                          *)
LEMMA SumSplit ==
  ASSUME NEW S, IsFiniteSet(S), NEW f, \A x \in S : f[x] \in Int,
         NEW T \in SUBSET S
  PROVE  Sum(f, S) = Sum(f, T) + Sum(f, S \ T)
<1> DEFINE R == S \ T
           Good == {U \in SUBSET R : Sum(f, T \cup U) = Sum(f, T) + Sum(f, U)}
<1>1. IsFiniteSet(T) /\ IsFiniteSet(R) /\ R \in SUBSET S /\ T \cup R = S
      /\ R \cap T = {}
  <2>1. R \in SUBSET S
    OBVIOUS
  <2>2. QED
    BY <2>1, FS_Subset
<1>2. {} \in Good
  <2>1. Sum(f, T) \in Int
    BY SumInt
  <2>2. T \cup {} = T
    OBVIOUS
  <2>3. QED
    BY <2>1, <2>2, SumEmpty
<1> HIDE DEF R
<1>3. ASSUME NEW U \in SUBSET R, NEW x \in R \ U, U \in Good
      PROVE  U \cup {x} \in Good
  <2>1. U \in SUBSET S /\ T \cup U \in SUBSET S /\ x \notin T \cup U /\ f[x] \in Int
    BY <1>1
  <2>2. IsFiniteSet(U) /\ IsFiniteSet(T \cup U)
    BY <2>1, FS_Subset
  <2>3. Sum(f, T \cup U \cup {x}) = Sum(f, T \cup U) + f[x]
    BY <2>1, <2>2, SumAdd
  <2>4. Sum(f, U \cup {x}) = Sum(f, U) + f[x]
    BY <2>1, <2>2, SumAdd
  <2>5. Sum(f, T) \in Int /\ Sum(f, U) \in Int /\ Sum(f, T \cup U) \in Int
    BY <2>1, SumInt
  <2>6. T \cup (U \cup {x}) = T \cup U \cup {x}
    OBVIOUS
  <2>7. Sum(f, T \cup (U \cup {x})) = Sum(f, T) + Sum(f, U \cup {x})
    <3>1. Sum(f, T \cup U) = Sum(f, T) + Sum(f, U)
      BY <1>3
    <3>2. Sum(f, T \cup (U \cup {x})) = Sum(f, T \cup U) + f[x]
      BY <2>3, <2>6
    <3>3. QED
      BY <2>1, <2>4, <2>5, <3>1, <3>2
  <2>8. QED
    BY <2>7
<1> HIDE DEF Good
<1>4. R \in Good
  BY <1>1, <1>2, <1>3, SubsetInduction
<1>5. QED
  BY <1>1, <1>4 DEF Good, R

(* Grouped by a key, the sums of the groups add up to the sum.             *)
LEMMA SumGroups ==
  ASSUME NEW S, IsFiniteSet(S), NEW f, \A x \in S : f[x] \in Int,
         NEW K, IsFiniteSet(K), NEW key, \A x \in S : key[x] \in K,
         NEW h, \A k \in K : h[k] = Sum(f, {x \in S : key[x] = k})
  PROVE  Sum(h, K) = Sum(f, S)
<1> DEFINE Of(T, k) == {x \in T : key[x] = k}
           H(T) == [k \in K |-> Sum(f, Of(T, k))]
           Good == {T \in SUBSET S : Sum(H(T), K) = Sum(f, T)}
<1>1. {} \in Good
  <2>1. \A k \in K : Of({}, k) = {}
    OBVIOUS
  <2>2. \A k \in K : H({})[k] = 0
    BY <2>1, SumEmpty
  <2> HIDE DEF H
  <2>3. Sum(H({}), K) = 0
    BY <2>2, SumZero
  <2>4. QED
    BY <2>3, SumEmpty
<1>2. ASSUME NEW T \in SUBSET S, NEW x \in S \ T, T \in Good
      PROVE  T \cup {x} \in Good
  <2>1. \A k \in K : /\ Of(T, k) \in SUBSET S /\ IsFiniteSet(Of(T, k))
                     /\ Of(T \cup {x}, k) \in SUBSET S
    <3>1. \A k \in K : Of(T, k) \in SUBSET S /\ Of(T \cup {x}, k) \in SUBSET S
      OBVIOUS
    <3> HIDE DEF Of
    <3>2. QED
      BY <3>1, FS_Subset
  <2>2. Of(T \cup {x}, key[x]) = Of(T, key[x]) \cup {x} /\ x \notin Of(T, key[x])
    OBVIOUS
  <2>3. \A k \in K \ {key[x]} : Of(T \cup {x}, k) = Of(T, k)
    OBVIOUS
  <2>4. key[x] \in K /\ f[x] \in Int
    OBVIOUS
  <2>5. \A k \in K : H(T)[k] \in Int /\ H(T \cup {x})[k] \in Int
    <3> HIDE DEF Of
    <3>1. QED
      BY <2>1, SumInt
  <2>6. \A k \in K \ {key[x]} : H(T)[k] = H(T \cup {x})[k]
    BY <2>3
  <2>7. H(T \cup {x})[key[x]] = H(T)[key[x]] + f[x]
    <3>1. Sum(f, Of(T, key[x]) \cup {x}) = Sum(f, Of(T, key[x])) + f[x]
      <4>1. \A y \in Of(T, key[x]) : f[y] \in Int
        OBVIOUS
      <4> HIDE DEF Of
      <4>2. QED
        BY <2>1, <2>2, <2>4, <4>1, SumAdd
    <3>2. QED
      BY <2>2, <2>4, <3>1
  <2> HIDE DEF H
  <2>8. Sum(H(T \cup {x}), K) = Sum(H(T), K) - H(T)[key[x]] + H(T \cup {x})[key[x]]
    <3> DEFINE p == H(T)
               q == H(T \cup {x})
               c == key[x]
    <3>1. /\ c \in K
          /\ \A k \in K : p[k] \in Int /\ q[k] \in Int
          /\ \A k \in K \ {c} : p[k] = q[k]
      BY <2>4, <2>5, <2>6
    <3> HIDE DEF p, q, c
    <3>2. Sum(q, K) = Sum(p, K) - p[c] + q[c]
      BY <3>1, SumChange
    <3>3. QED
      BY <3>2 DEF p, q, c
  <2>9. Sum(f, T \cup {x}) = Sum(f, T) + f[x]
    <3>1. IsFiniteSet(T)
      BY FS_Subset
    <3>2. QED
      BY <3>1, SumAdd
  <2>10. Sum(H(T), K) = Sum(f, T) /\ Sum(f, T) \in Int
    BY <1>2, SumInt
  <2>11. Sum(H(T \cup {x}), K) = Sum(f, T \cup {x})
    BY <2>4, <2>5, <2>7, <2>8, <2>9, <2>10
  <2>12. QED
    BY <2>11
<1> HIDE DEF Good
<1>3. S \in Good
  BY <1>1, <1>2, SubsetInduction
<1>4. Sum(H(S), K) = Sum(f, S)
  BY <1>3 DEF Good
<1>5. \A k \in K : H(S)[k] \in Int /\ H(S)[k] = h[k]
  <2>1. \A k \in K : Of(S, k) \in SUBSET S
    OBVIOUS
  <2>2. \A k \in K : H(S)[k] = Sum(f, Of(S, k))
    OBVIOUS
  <2>3. \A k \in K : Sum(f, Of(S, k)) \in Int
    <3> HIDE DEF Of
    <3>1. QED
      BY <2>1, SumInt
  <2>4. QED
    BY <2>2, <2>3
<1> HIDE DEF H
<1>6. Sum(H(S), K) = Sum(h, K)
  BY <1>5, SumSame
<1>7. QED
  BY <1>4, <1>6
=============================================================================
