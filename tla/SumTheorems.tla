---------------------------- MODULE SumTheorems ----------------------------
(***************************************************************************)
(* What a sum over a finite set does when one of its terms changes.        *)
(*                                                                         *)
(* The conservation properties of this project compare a stored total with *)
(* SumFunctionOnSet(f, S) of the community module Functions, which folds + *)
(* over S through a recursive function on SUBSET S.  The lemmas below hold *)
(* for every finite S.  Induction over S is done by taking a subset that   *)
(* is minimal among the counterexamples.                                   *)
(***************************************************************************)
EXTENDS FiniteSetTheorems, TLAPS

\* g gives the sum of f over each subset of S, whichever term is taken first.
IsSum(g, f, S) ==
  /\ g \in [SUBSET S -> Int]
  /\ g[{}] = 0
  /\ \A T \in SUBSET S : \A x \in T : g[T] = f[x] + g[T \ {x}]

\* Among the sets of a nonempty family of subsets of a finite set, one has no
\* strict subset in the family.
LEMMA MinimalSubset ==
  ASSUME NEW S, IsFiniteSet(S), NEW C \in SUBSET SUBSET S, C # {}
  PROVE  \E T \in C : \A U \in C : U \subseteq T => U = T
<1>1. FiniteSubsetsOf(S) = SUBSET S
  BY FS_FiniteSubsetsOfFinite
<1>2. IsWellFoundedOn(StrictSubsetOrdering(S), SUBSET S)
  BY <1>1, FS_StrictSubsetOrderingWellFounded
<1>3. \E T \in C : \A U \in C : ~ (<<U, T>> \in StrictSubsetOrdering(S))
  BY <1>2, WFMin
<1>. QED
  BY <1>3 DEF StrictSubsetOrdering

\* There is such a g for every integer-valued f on a finite set.
LEMMA SumExists ==
  ASSUME NEW S, IsFiniteSet(S), NEW f, \A x \in S : f[x] \in Int
  PROVE  \E g : IsSum(g, f, S)
<1>. DEFINE C == {T \in SUBSET S : ~ \E g : IsSum(g, f, T)}
<1>1. SUFFICES ASSUME C # {} PROVE FALSE
  OBVIOUS
<1>2. PICK T \in C : \A U \in C : U \subseteq T => U = T
  <2>. HIDE DEF C
  <2>1. C \in SUBSET SUBSET S
    BY DEF C
  <2>. QED  BY <1>1, <2>1, MinimalSubset
<1>3. T # {}
  <2>1. IsSum([U \in SUBSET {} |-> 0], f, {})
    BY DEF IsSum
  <2>. QED  BY <2>1
<1>4. PICK x \in T : TRUE
  BY <1>3
<1>5. PICK g : IsSum(g, f, T \ {x})
  BY <1>2, <1>4
<1>. DEFINE h == [U \in SUBSET T |-> IF x \in U THEN f[x] + g[U \ {x}] ELSE g[U]]
<1>6. IsSum(h, f, T)
  <2>1. f[x] \in Int
    OBVIOUS
  <2>2. \A U \in SUBSET T : /\ U \ {x} \in SUBSET (T \ {x})
                            /\ x \notin U => U \in SUBSET (T \ {x})
    OBVIOUS
  <2>3. g \in [SUBSET (T \ {x}) -> Int]
    BY <1>5 DEF IsSum
  <2>4. \A U \in SUBSET T : h[U] = IF x \in U THEN f[x] + g[U \ {x}] ELSE g[U]
    OBVIOUS
  <2>5. h \in [SUBSET T -> Int]
    BY <2>1, <2>2, <2>3
  <2>6. h[{}] = 0
    BY <1>5, <2>4 DEF IsSum
  <2>7. ASSUME NEW U \in SUBSET T, NEW y \in U PROVE h[U] = f[y] + h[U \ {y}]
    <3>. HIDE DEF h
    <3>0. U \ {y} \in SUBSET T /\ f[y] \in Int
      OBVIOUS
    <3>1. CASE y = x
      BY <2>4, <3>0, <3>1
    <3>2. CASE y # x /\ x \in U
      <4>1. g[U \ {x}] = f[y] + g[(U \ {x}) \ {y}]
        BY <1>5, <2>2, <3>2 DEF IsSum
      <4>2. (U \ {x}) \ {y} = (U \ {y}) \ {x}
        OBVIOUS
      <4>3. h[U \ {y}] = f[x] + g[(U \ {y}) \ {x}]
        BY <2>4, <3>0, <3>2
      <4>4. g[(U \ {y}) \ {x}] \in Int
        BY <2>2, <2>3, <3>0
      <4>5. h[U] = f[x] + g[U \ {x}]
        BY <2>4, <3>2
      <4>. DEFINE rest == g[(U \ {y}) \ {x}]
      <4>6. h[U] = f[x] + (f[y] + rest)
        BY <4>1, <4>2, <4>5
      <4>7. h[U \ {y}] = f[x] + rest /\ rest \in Int
        BY <4>3, <4>4
      <4>. HIDE DEF rest
      <4>. QED  BY <2>1, <3>0, <4>6, <4>7
    <3>3. CASE y # x /\ x \notin U
      <4>1. g[U] = f[y] + g[U \ {y}]
        BY <1>5, <2>2, <3>3 DEF IsSum
      <4>. QED  BY <2>4, <3>0, <3>3, <4>1
    <3>. QED  BY <3>1, <3>2, <3>3
  <2>. QED
    BY <2>5, <2>6, <2>7 DEF IsSum
<1>. QED
  BY <1>6

\* It is unique.
LEMMA SumUnique ==
  ASSUME NEW S, IsFiniteSet(S), NEW f, NEW g, NEW h,
         IsSum(g, f, S), IsSum(h, f, S)
  PROVE  g[S] = h[S]
<1>. DEFINE C == {T \in SUBSET S : g[T] # h[T]}
<1>1. SUFFICES ASSUME C # {} PROVE FALSE
  OBVIOUS
<1>2. PICK T \in C : \A U \in C : U \subseteq T => U = T
  <2>1. C \in SUBSET SUBSET S
    OBVIOUS
  <2>. HIDE DEF C
  <2>. QED  BY <1>1, <2>1, MinimalSubset
<1>3. T # {}
  BY DEF IsSum
<1>4. PICK x \in T : TRUE
  BY <1>3
<1>5. g[T \ {x}] = h[T \ {x}]
  BY <1>2, <1>4
<1>6. g[T] = f[x] + g[T \ {x}] /\ h[T] = f[x] + h[T \ {x}]
  BY DEF IsSum
<1>. QED
  BY <1>5, <1>6

\* SumFunctionOnSet computes it.
LEMMA SumIsSum ==
  ASSUME NEW S, IsFiniteSet(S), NEW f, NEW g, IsSum(g, f, S)
  PROVE  SumFunctionOnSet(f, S) = g[S]
<1>. DEFINE Body(s) == [T \in SUBSET S |->
              IF T = {} THEN 0 ELSE f[CHOOSE x \in T : TRUE]
                                      + s[T \ {CHOOSE x \in T : TRUE}]]
            sum == CHOOSE s : s = Body(s)
<1>1. SumFunctionOnSet(f, S) = sum[S]
  BY DEF SumFunctionOnSet, FoldFunctionOnSet, MapThenFoldSet
<1>2. g = Body(g)
  <2>1. \A T \in SUBSET S : T # {} => (CHOOSE x \in T : TRUE) \in T
    OBVIOUS
  <2>2. \A T \in SUBSET S : g[T] = Body(g)[T]
    BY <2>1 DEF IsSum
  <2>3. g = [T \in SUBSET S |-> g[T]]
    BY DEF IsSum
  <2>. QED  BY <2>2, <2>3
<1>3. sum = Body(sum)
  <2>. HIDE DEF Body
  <2>. QED  BY <1>2
<1>. HIDE DEF sum
<1>. DEFINE C == {T \in SUBSET S : g[T] # sum[T]}
<1>4. SUFFICES ASSUME C # {} PROVE FALSE
  BY <1>1
<1>5. PICK T \in C : \A U \in C : U \subseteq T => U = T
  <2>1. C \in SUBSET SUBSET S
    OBVIOUS
  <2>. HIDE DEF C
  <2>. QED  BY <1>4, <2>1, MinimalSubset
<1>6. sum[T] = Body(sum)[T] /\ g[T] = Body(g)[T]
  <2>. HIDE DEF Body
  <2>. QED  BY <1>2, <1>3
<1>7. T # {}
  BY <1>6
<1>. DEFINE x == CHOOSE y \in T : TRUE
<1>8. x \in T
  BY <1>7
<1>9. g[T \ {x}] = sum[T \ {x}]
  BY <1>5, <1>8
<1>10. g[T] = f[x] + g[T \ {x}] /\ sum[T] = f[x] + sum[T \ {x}]
  BY <1>6, <1>7
<1>. QED
  BY <1>9, <1>10

-----------------------------------------------------------------------------
(***************************************************************************)
(* The facts about sums that the other modules cite.                       *)
(***************************************************************************)

LEMMA SumEmpty ==
  ASSUME NEW f
  PROVE  SumFunctionOnSet(f, {}) = 0
<1>1. IsSum([U \in SUBSET {} |-> 0], f, {})
  BY DEF IsSum
<1>. QED
  BY <1>1, SumIsSum, FS_EmptySet

LEMMA SumType ==
  ASSUME NEW S, IsFiniteSet(S), NEW f, \A x \in S : f[x] \in Int
  PROVE  SumFunctionOnSet(f, S) \in Int
<1>1. PICK g : IsSum(g, f, S)
  BY SumExists
<1>2. SumFunctionOnSet(f, S) = g[S]
  BY <1>1, SumIsSum
<1>. QED
  BY <1>1, <1>2 DEF IsSum

\* Any one term can be taken out.
LEMMA SumRemove ==
  ASSUME NEW S, IsFiniteSet(S), NEW f, \A x \in S : f[x] \in Int, NEW x \in S
  PROVE  SumFunctionOnSet(f, S) = f[x] + SumFunctionOnSet(f, S \ {x})
<1>1. PICK g : IsSum(g, f, S)
  BY SumExists
<1>. DEFINE h == [U \in SUBSET (S \ {x}) |-> g[U]]
<1>2. IsSum(h, f, S \ {x})
  BY <1>1 DEF IsSum
<1>3. IsFiniteSet(S \ {x})
  BY FS_RemoveElement
<1>4. SumFunctionOnSet(f, S) = g[S] /\ SumFunctionOnSet(f, S \ {x}) = h[S \ {x}]
  <2>. HIDE DEF h
  <2>. QED  BY <1>1, <1>2, <1>3, SumIsSum
<1>5. g[S] = f[x] + g[S \ {x}]
  BY <1>1 DEF IsSum
<1>. QED
  BY <1>4, <1>5

\* The sum depends only on the terms.
LEMMA SumCongruence ==
  ASSUME NEW S, IsFiniteSet(S), NEW f, NEW f2,
         \A x \in S : f[x] \in Int /\ f2[x] = f[x]
  PROVE  SumFunctionOnSet(f2, S) = SumFunctionOnSet(f, S)
<1>1. PICK g : IsSum(g, f, S)
  BY SumExists
<1>2. IsSum(g, f2, S)
  BY <1>1 DEF IsSum
<1>. QED
  BY <1>1, <1>2, SumIsSum

\* Changing one term changes the sum by the difference.
LEMMA SumUpdate ==
  ASSUME NEW S, IsFiniteSet(S), NEW f, NEW f2, NEW a \in S,
         \A x \in S : f[x] \in Int /\ f2[x] \in Int,
         \A x \in S \ {a} : f2[x] = f[x]
  PROVE  SumFunctionOnSet(f2, S) = SumFunctionOnSet(f, S) - f[a] + f2[a]
<1>1. IsFiniteSet(S \ {a})
  BY FS_RemoveElement
<1>2. SumFunctionOnSet(f2, S \ {a}) = SumFunctionOnSet(f, S \ {a})
  BY <1>1, SumCongruence
<1>3. SumFunctionOnSet(f, S \ {a}) \in Int
  BY <1>1, SumType
<1>4. /\ SumFunctionOnSet(f, S) = f[a] + SumFunctionOnSet(f, S \ {a})
      /\ SumFunctionOnSet(f2, S) = f2[a] + SumFunctionOnSet(f2, S \ {a})
  BY SumRemove
<1>. QED
  BY <1>2, <1>3, <1>4

\* A sum of naturals is a natural, and bounds each of its terms.
LEMMA SumNatural ==
  ASSUME NEW S, IsFiniteSet(S), NEW f, \A x \in S : f[x] \in Nat
  PROVE  SumFunctionOnSet(f, S) \in Nat
<1>1. PICK g : IsSum(g, f, S)
  BY SumExists
<1>. DEFINE C == {T \in SUBSET S : g[T] \notin Nat}
<1>2. SUFFICES ASSUME C # {} PROVE FALSE
  BY <1>1, SumIsSum
<1>3. PICK T \in C : \A U \in C : U \subseteq T => U = T
  <2>1. C \in SUBSET SUBSET S
    OBVIOUS
  <2>. HIDE DEF C
  <2>. QED  BY <1>2, <2>1, MinimalSubset
<1>4. T # {}
  BY <1>1 DEF IsSum
<1>5. PICK x \in T : TRUE
  BY <1>4
<1>6. g[T \ {x}] \in Nat
  BY <1>3, <1>5
<1>7. g[T] = f[x] + g[T \ {x}]
  BY <1>1 DEF IsSum
<1>8. f[x] \in Nat
  OBVIOUS
<1>. QED
  BY <1>6, <1>7, <1>8

LEMMA SumBoundsTerm ==
  ASSUME NEW S, IsFiniteSet(S), NEW f, \A x \in S : f[x] \in Nat, NEW a \in S
  PROVE  f[a] <= SumFunctionOnSet(f, S)
<1>1. IsFiniteSet(S \ {a})
  BY FS_RemoveElement
<1>2. SumFunctionOnSet(f, S \ {a}) \in Nat
  BY <1>1, SumNatural
<1>3. SumFunctionOnSet(f, S) = f[a] + SumFunctionOnSet(f, S \ {a})
  BY SumRemove
<1>. QED
  BY <1>2, <1>3

\* A sum of zeros is zero.
LEMMA SumZero ==
  ASSUME NEW S, IsFiniteSet(S), NEW f, \A x \in S : f[x] = 0
  PROVE  SumFunctionOnSet(f, S) = 0
<1>1. IsSum([U \in SUBSET S |-> 0], f, S)
  BY DEF IsSum
<1>. QED
  BY <1>1, SumIsSum

\* Two functions are summed term by term.
LEMMA SumPlus ==
  ASSUME NEW S, IsFiniteSet(S), NEW f, NEW f2, NEW f3,
         \A x \in S : f[x] \in Int /\ f2[x] \in Int /\ f3[x] = f[x] + f2[x]
  PROVE  SumFunctionOnSet(f3, S) = SumFunctionOnSet(f, S) + SumFunctionOnSet(f2, S)
<1>1. PICK g : IsSum(g, f, S)
  BY SumExists
<1>2. PICK g2 : IsSum(g2, f2, S)
  BY SumExists
<1>. DEFINE h == [U \in SUBSET S |-> g[U] + g2[U]]
<1>3. IsSum(h, f3, S)
  <2>1. g \in [SUBSET S -> Int] /\ g2 \in [SUBSET S -> Int] /\ g[{}] = 0 /\ g2[{}] = 0
    BY <1>1, <1>2 DEF IsSum
  <2>2. h \in [SUBSET S -> Int] /\ h[{}] = 0
    BY <2>1
  <2>3. ASSUME NEW T \in SUBSET S, NEW x \in T PROVE h[T] = f3[x] + h[T \ {x}]
    <3>1. g[T] = f[x] + g[T \ {x}] /\ g2[T] = f2[x] + g2[T \ {x}]
      BY <1>1, <1>2 DEF IsSum
    <3>2. T \ {x} \in SUBSET S
      OBVIOUS
    <3>3. g[T \ {x}] \in Int /\ g2[T \ {x}] \in Int
      BY <2>1, <3>2
    <3>4. h[T] = g[T] + g2[T] /\ h[T \ {x}] = g[T \ {x}] + g2[T \ {x}]
      BY <3>2
    <3>5. f[x] \in Int /\ f2[x] \in Int /\ f3[x] = f[x] + f2[x]
      OBVIOUS
    <3>. HIDE DEF h
    <3>. QED  BY <3>1, <3>3, <3>4, <3>5
  <2>. HIDE DEF h
  <2>. QED  BY <2>2, <2>3 DEF IsSum
<1>4. SumFunctionOnSet(f3, S) = h[S]
  <2>. HIDE DEF h
  <2>. QED  BY <1>3, SumIsSum
<1>5. SumFunctionOnSet(f, S) = g[S] /\ SumFunctionOnSet(f2, S) = g2[S]
  BY <1>1, <1>2, SumIsSum
<1>. QED
  BY <1>4, <1>5

\* A sum over a part of a set is one over the set, of a function that is 0
\* elsewhere.
LEMMA SumRestrict ==
  ASSUME NEW S, IsFiniteSet(S), NEW T \in SUBSET S, NEW f, NEW f2,
         \A x \in T : f[x] \in Int /\ f2[x] = f[x],
         \A x \in S \ T : f2[x] = 0
  PROVE  SumFunctionOnSet(f2, S) = SumFunctionOnSet(f, T)
<1>1. IsFiniteSet(T)
  BY FS_Subset
<1>2. PICK g : IsSum(g, f, T)
  BY <1>1, SumExists
<1>. DEFINE h == [U \in SUBSET S |-> g[U \cap T]]
<1>3. IsSum(h, f2, S)
  <2>1. \A U \in SUBSET S : h[U] = g[U \cap T] /\ U \cap T \in SUBSET T
    OBVIOUS
  <2>2. h \in [SUBSET S -> Int] /\ h[{}] = 0
    <3>1. {} \cap T = {}
      OBVIOUS
    <3>. QED  BY <1>2, <2>1, <3>1 DEF IsSum
  <2>3. ASSUME NEW U \in SUBSET S, NEW x \in U PROVE h[U] = f2[x] + h[U \ {x}]
    <3>1. CASE x \in T
      <4>1. (U \cap T) \ {x} = (U \ {x}) \cap T
        OBVIOUS
      <4>2. g[U \cap T] = f[x] + g[(U \cap T) \ {x}]
        BY <1>2, <3>1 DEF IsSum
      <4>. QED  BY <2>1, <3>1, <4>1, <4>2
    <3>2. CASE x \notin T
      <4>1. U \cap T = (U \ {x}) \cap T
        BY <3>2
      <4>2. h[U] \in Int
        BY <2>2
      <4>3. f2[x] = 0
        BY <3>2
      <4>4. h[U] = h[U \ {x}]
        BY <2>1, <4>1
      <4>. HIDE DEF h
      <4>. QED  BY <4>2, <4>3, <4>4
    <3>. QED  BY <3>1, <3>2
  <2>. HIDE DEF h
  <2>. QED  BY <2>2, <2>3 DEF IsSum
<1>4. SumFunctionOnSet(f2, S) = h[S]
  <2>. HIDE DEF h
  <2>. QED  BY <1>3, SumIsSum
<1>5. S \cap T = T
  OBVIOUS
<1>. QED
  BY <1>1, <1>2, <1>4, <1>5, SumIsSum

\* Smaller terms, smaller sum.
LEMMA SumMonotone ==
  ASSUME NEW S, IsFiniteSet(S), NEW f, NEW f2,
         \A x \in S : f[x] \in Int /\ f2[x] \in Int /\ f[x] <= f2[x]
  PROVE  SumFunctionOnSet(f, S) <= SumFunctionOnSet(f2, S)
<1>. DEFINE d == [x \in S |-> f2[x] - f[x]]
<1>1. \A x \in S : d[x] \in Nat /\ f2[x] = f[x] + d[x]
  OBVIOUS
<1>. HIDE DEF d
<1>2. SumFunctionOnSet(d, S) \in Nat
  BY <1>1, SumNatural
<1>3. SumFunctionOnSet(f2, S) = SumFunctionOnSet(f, S) + SumFunctionOnSet(d, S)
  BY <1>1, SumPlus
<1>4. SumFunctionOnSet(f, S) \in Int
  BY SumType
<1>. QED
  BY <1>2, <1>3, <1>4

\* A sum of equal terms.
LEMMA SumConstant ==
  ASSUME NEW S, IsFiniteSet(S), NEW f, NEW d \in Int, \A x \in S : f[x] = d
  PROVE  SumFunctionOnSet(f, S) = d * Cardinality(S)
<1>. DEFINE h == [U \in SUBSET S |-> d * Cardinality(U)]
<1>1. \A U \in SUBSET S : IsFiniteSet(U) /\ Cardinality(U) \in Nat
  BY FS_Subset, FS_CardinalityType
<1>2. IsSum(h, f, S)
  <2>1. h \in [SUBSET S -> Int]
    BY <1>1
  <2>2. h[{}] = 0
    BY FS_EmptySet
  <2>3. ASSUME NEW U \in SUBSET S, NEW x \in U PROVE h[U] = f[x] + h[U \ {x}]
    <3>1. Cardinality(U \ {x}) = Cardinality(U) - 1
      BY <1>1, FS_RemoveElement
    <3>2. \A n \in Int : d * n = d + d * (n - 1)
      OBVIOUS
    <3>3. h[U] = d * Cardinality(U) /\ h[U \ {x}] = d * (Cardinality(U) - 1)
      BY <3>1
    <3>4. f[x] = d /\ Cardinality(U) \in Int
      BY <1>1
    <3>. HIDE DEF h
    <3>. QED  BY <3>2, <3>3, <3>4
  <2>. HIDE DEF h
  <2>. QED  BY <2>1, <2>2, <2>3 DEF IsSum
<1>3. SumFunctionOnSet(f, S) = h[S]
  <2>. HIDE DEF h
  <2>. QED  BY <1>2, SumIsSum
<1>. QED
  BY <1>3

\* A sum of even naturals is even.
LEMMA SumEven ==
  ASSUME NEW S, IsFiniteSet(S), NEW f, \A x \in S : f[x] \in Nat /\ f[x] % 2 = 0
  PROVE  SumFunctionOnSet(f, S) % 2 = 0
<1>. DEFINE h == [x \in S |-> f[x] \div 2]
<1>1. \A x \in S : h[x] \in Int /\ f[x] \in Int /\ f[x] = h[x] + h[x]
  <2>1. \A n \in Nat : n % 2 = 0 => n \div 2 \in Int /\ n = (n \div 2) + (n \div 2)
    OBVIOUS
  <2>2. \A x \in S : h[x] = f[x] \div 2
    OBVIOUS
  <2>. HIDE DEF h
  <2>. QED  BY <2>1, <2>2
<1>. HIDE DEF h
<1>2. SumFunctionOnSet(f, S) = SumFunctionOnSet(h, S) + SumFunctionOnSet(h, S)
  BY <1>1, SumPlus
<1>3. SumFunctionOnSet(h, S) \in Int
  BY <1>1, SumType
<1>4. \A n \in Int : (n + n) % 2 = 0
  OBVIOUS
<1>. QED
  BY <1>2, <1>3, <1>4

-----------------------------------------------------------------------------
\* Induction up to N, for a set of numbers.
LEMMA UpTo ==
  ASSUME NEW N \in Nat, NEW S, 0 \in S, \A n \in 0 .. N - 1 : n \in S => n + 1 \in S
  PROVE  \A n \in 0 .. N : n \in S
<1>. DEFINE C == {T \in SUBSET (0 .. N) : \E n \in 0 .. N : n \notin S /\ T = 0 .. n}
<1>1. SUFFICES ASSUME C # {} PROVE FALSE
  <2>. SUFFICES ASSUME NEW n \in 0 .. N, n \notin S PROVE C # {}
    BY <1>1
  <2>1. 0 .. n \in C
    OBVIOUS
  <2>. QED  BY <2>1
<1>2. IsFiniteSet(0 .. N)
  BY FS_Interval
<1>3. PICK T \in C : \A U \in C : U \subseteq T => U = T
  <2>. DEFINE I == 0 .. N
  <2>1. C \in SUBSET SUBSET I /\ IsFiniteSet(I)
    BY <1>2
  <2>. HIDE DEF C, I
  <2>. QED  BY <1>1, <2>1, MinimalSubset
<1>4. PICK n \in 0 .. N : n \notin S /\ T = 0 .. n
  BY <1>3
<1>5. n # 0 /\ n - 1 \in 0 .. N - 1
  BY <1>4
<1>6. n - 1 \notin S
  BY <1>4, <1>5
<1>7. 0 .. (n - 1) \in C /\ 0 .. (n - 1) \subseteq T /\ n \in T /\ n \notin 0 .. (n - 1)
  BY <1>4, <1>5, <1>6
<1>. QED
  BY <1>3, <1>7

=============================================================================
