----------------------- MODULE ContainerCreationMemory -----------------------
(***************************************************************************)
(* Proof that the memory of a node is respected, for any cluster and any   *)
(* number of requests that are not repeated: what a sum over a set is,     *)
(* what the requests do not leave behind, and what listNodes, UsedMemory   *)
(* and weighNodes then count.                                              *)
(***************************************************************************)
EXTENDS ContainerCreationProofs, WellFoundedInduction

(* The sum over a finite set.  A recursive function is known by its        *)
(* equation once a function that satisfies it exists, which is an          *)
(* induction over the size of the set.                                     *)

\* Induction over the natural numbers, on a set of them.
LEMMA SetInduction ==
  ASSUME NEW S, 0 \in S, \A n \in Nat : n \in S => n + 1 \in S
  PROVE  Nat \subseteq S
<1>. DEFINE T == Nat \ S
<1>1. SUFFICES ASSUME T # {} PROVE FALSE
  BY Zenon
<1>2. PICK x \in T : \A y \in T : <<y, x>> \notin OpToRel(<, Nat)
  BY <1>1, NatLessThanWellFounded, WFMin, Zenon
<1>3. x # 0 /\ x - 1 \in T
  OBVIOUS
<1>4. <<x - 1, x>> \in OpToRel(<, Nat)
  BY <1>3 DEF OpToRel
<1>. QED  BY <1>2, <1>3, <1>4, Zenon

\* what the recursion of Sum does for T, with h for the smaller sets
Some(T) == CHOOSE x \in T : TRUE
SumStep(h, f, T) == IF T = {} THEN 0 ELSE f[Some(T)] + h[T \ {Some(T)}]

IsSum(h, f, S) == h = [T \in SUBSET S |-> SumStep(h, f, T)]

\* the subsets of S of at most k elements
Upto(S, k) == {T \in SUBSET S : Cardinality(T) =< k}

\* One element less.
LEMMA Less ==
  ASSUME NEW T, IsFiniteSet(T), T # {}
  PROVE  /\ Some(T) \in T
         /\ IsFiniteSet(T \ {Some(T)}) /\ Cardinality(T) \in Nat \ {0}
         /\ Cardinality(T \ {Some(T)}) = Cardinality(T) - 1
<1>1. Some(T) \in T
  BY Zenon DEF Some
<1>. QED  BY <1>1, FS_RemoveElement, FS_CardinalityType, FS_EmptySet, Zenon

\* A function that satisfies the equation of the recursion exists.
LEMMA SumExists ==
  ASSUME NEW f, NEW S, IsFiniteSet(S)
  PROVE  \E h : IsSum(h, f, S)
<1>. DEFINE Known(n) == \E h : h = [T \in Upto(S, n) |-> SumStep(h, f, T)]
            D == {n \in Nat : Known(n)}
<1>1. \A n \in Nat : \A T \in Upto(S, n + 1) : T # {} => T \ {Some(T)} \in Upto(S, n)
  BY FS_Subset, Less DEF Upto
<1>2. \A n \in Nat : Upto(S, n) \subseteq Upto(S, n + 1)
  BY FS_Subset, FS_CardinalityType DEF Upto
<1>3. 0 \in D
  <2>. DEFINE h == [T \in Upto(S, 0) |-> 0]
  <2>1. \A T \in Upto(S, 0) : T = {}
    BY FS_Subset, FS_CardinalityType, FS_EmptySet DEF Upto
  <2>2. h = [T \in Upto(S, 0) |-> SumStep(h, f, T)]
    BY <2>1, Zenon DEF SumStep
  <2>. QED  BY <2>2, Zenon
<1>4. ASSUME NEW n \in Nat, n \in D PROVE n + 1 \in D
  <2>1. PICK g : g = [T \in Upto(S, n) |-> SumStep(g, f, T)]
    BY <1>4, Zenon
  <2>. DEFINE h == [T \in Upto(S, n + 1) |-> SumStep(g, f, T)]
  <2>2. \A T \in Upto(S, n) : h[T] = g[T]
    BY <1>2, <2>1, Zenon
  <2>3. \A T \in Upto(S, n + 1) : SumStep(g, f, T) = SumStep(h, f, T)
    <3>. HIDE DEF h
    <3>. QED  BY <1>1, <2>2, Zenon DEF SumStep
  <2>4. h = [T \in Upto(S, n + 1) |-> SumStep(h, f, T)]
    <3>. DEFINE k == [T \in Upto(S, n + 1) |-> SumStep(h, f, T)]
    <3>. QED  BY <2>3, Zenon
  <2>5. Known(n + 1)
    <3>. HIDE DEF h
    <3>. QED  BY <2>4, Zenon
  <2>. QED  BY <2>5
<1>5. Nat \subseteq D
  <2>. HIDE DEF D
  <2>. QED  BY <1>3, <1>4, SetInduction, Zenon
<1>6. Upto(S, Cardinality(S)) = SUBSET S /\ Cardinality(S) \in Nat
  BY FS_Subset, FS_CardinalityType, Zenon DEF Upto
<1>7. Known(Cardinality(S))
  BY <1>5, <1>6, Zenon
<1>. QED  BY <1>6, <1>7, Zenon DEF IsSum

\* So Sum is what such a function says of the whole set,
LEMMA SumEquation ==
  ASSUME NEW f, NEW S, IsFiniteSet(S)
  PROVE  \E h : IsSum(h, f, S) /\ Sum(f, S) = h[S]
<1>. DEFINE u == CHOOSE h : IsSum(h, f, S)
<1>1. IsSum(u, f, S)
  BY SumExists, Zenon
<1>2. Sum(f, S) = u[S]
  BY Zenon DEF IsSum, Sum, SumStep, Some
<1>. QED  BY <1>1, <1>2, Zenon

\* and the functions for two sets agree on the smaller one:
LEMMA SumAgrees ==
  ASSUME NEW f, NEW S, IsFiniteSet(S), NEW R \in SUBSET S,
         NEW g, IsSum(g, f, S), NEW h, IsSum(h, f, R)
  PROVE  g[R] = h[R]
<1>. DEFINE Same(n) == \A T \in Upto(R, n) : g[T] = h[T]
            D == {n \in Nat : Same(n)}
<1>1. IsFiniteSet(R) /\ Cardinality(R) \in Nat
  BY FS_Subset, FS_CardinalityType, Zenon
<1>2. \A T \in SUBSET R : g[T] = SumStep(g, f, T) /\ h[T] = SumStep(h, f, T)
  BY Zenon DEF IsSum
<1>3. 0 \in D
  <2>1. \A T \in Upto(R, 0) : T = {}
    BY <1>1, FS_Subset, FS_CardinalityType, FS_EmptySet DEF Upto
  <2>2. \A T \in Upto(R, 0) : g[T] = h[T]
    BY <1>2, <2>1, Zenon DEF SumStep, Upto
  <2>. QED  BY <2>2, Zenon
<1>4. ASSUME NEW n \in Nat, n \in D PROVE n + 1 \in D
  <2>1. \A T \in Upto(R, n + 1) : T # {} => T \ {Some(T)} \in Upto(R, n)
    BY <1>1, FS_Subset, Less DEF Upto
  <2>2. \A T \in Upto(R, n + 1) : SumStep(g, f, T) = SumStep(h, f, T)
    BY <1>4, <2>1, Zenon DEF SumStep
  <2>3. \A T \in Upto(R, n + 1) : g[T] = h[T]
    BY <1>2, <2>2, Zenon DEF Upto
  <2>4. n + 1 \in Nat
    OBVIOUS
  <2>. QED  BY <2>3, <2>4, Zenon
<1>5. Nat \subseteq D
  <2>. HIDE DEF D
  <2>. QED  BY <1>3, <1>4, SetInduction, Zenon
<1>6. Same(Cardinality(R))
  BY <1>1, <1>5, Zenon
<1>7. R \in Upto(R, Cardinality(R))
  BY <1>1 DEF Upto
<1>. QED  BY <1>6, <1>7, Zenon

\* Sum adds the element that is chosen to the sum of the others.
LEMMA SumUnfold ==
  ASSUME NEW f, NEW S, IsFiniteSet(S)
  PROVE  /\ S = {} => Sum(f, S) = 0
         /\ S # {} => Sum(f, S) = f[Some(S)] + Sum(f, S \ {Some(S)})
<1>1. PICK g : IsSum(g, f, S) /\ Sum(f, S) = g[S]
  BY SumEquation, Zenon
<1>2. g[S] = SumStep(g, f, S)
  BY <1>1, Zenon DEF IsSum
<1>3. CASE S = {}
  BY <1>1, <1>2, <1>3, Zenon DEF SumStep
<1>4. CASE S # {}
  <2>. DEFINE R == S \ {Some(S)}
  <2>1. IsFiniteSet(R) /\ R \in SUBSET S
    BY <1>4, Less, Zenon
  <2>2. PICK h : IsSum(h, f, R) /\ Sum(f, R) = h[R]
    <3>. HIDE DEF R
    <3>. QED  BY <2>1, SumEquation, Zenon
  <2>3. g[R] = h[R]
    <3>. HIDE DEF R
    <3>. QED  BY <1>1, <2>1, <2>2, SumAgrees, SMTT(20)
  <2>. QED  BY <1>1, <1>2, <1>4, <2>2, <2>3, Zenon DEF SumStep
<1>. QED  BY <1>3, <1>4, Zenon

\* Induction over the subsets of a finite set.
LEMMA SubsetInduction ==
  ASSUME NEW R, IsFiniteSet(R), NEW P,
         \A T \in SUBSET R : (\A U \in SUBSET T : U # T => U \in P) => T \in P
  PROVE  R \in P
<1>. DEFINE D == {n \in Nat : Upto(R, n) \subseteq P}
<1>1. 0 \in D
  <2>1. \A T \in Upto(R, 0) : T = {}
    BY FS_Subset, FS_CardinalityType, FS_EmptySet DEF Upto
  <2>2. {} \in P
    OBVIOUS
  <2>. QED  BY <2>1, <2>2, Zenon
<1>2. ASSUME NEW n \in Nat, n \in D PROVE n + 1 \in D
  <2>1. ASSUME NEW T \in Upto(R, n + 1), NEW U \in SUBSET T, U # T PROVE U \in Upto(R, n)
    <3>1. IsFiniteSet(T) /\ Cardinality(T) =< n + 1 /\ U \in SUBSET R
      BY FS_Subset, Zenon DEF Upto
    <3>2. Cardinality(U) \in Nat /\ Cardinality(T) \in Nat /\ Cardinality(U) < Cardinality(T)
      BY <2>1, <3>1, FS_Subset, FS_CardinalityType
    <3>. QED  BY <3>1, <3>2 DEF Upto
  <2>2. Upto(R, n + 1) \subseteq P
    BY <1>2, <2>1, Zenon DEF Upto
  <2>. QED  BY <2>2
<1>3. Nat \subseteq D
  <2>. HIDE DEF D
  <2>. QED  BY <1>1, <1>2, SetInduction, Zenon
<1>4. Cardinality(R) \in Nat /\ R \in Upto(R, Cardinality(R))
  BY FS_CardinalityType DEF Upto
<1>. QED  BY <1>3, <1>4, Zenon

\* f gives a number to each member of a finite set
Weighs(f, R) == IsFiniteSet(R) /\ \A x \in R : f[x] \in Nat

LEMMA WeighsLess ==
  ASSUME NEW f, NEW R, Weighs(f, R), NEW A \in SUBSET R
  PROVE  Weighs(f, A)
  BY FS_Subset, Zenon DEF Weighs

\* A sum of natural numbers is one.
LEMMA SumType ==
  ASSUME NEW f, NEW R, Weighs(f, R)
  PROVE  Sum(f, R) \in Nat
<1>. DEFINE P == {T \in SUBSET R : Sum(f, T) \in Nat}
<1>1. ASSUME NEW T \in SUBSET R, \A U \in SUBSET T : U # T => U \in P PROVE T \in P
  <2>1. IsFiniteSet(T)
    BY FS_Subset, Zenon DEF Weighs
  <2>2. CASE T = {}
    <3>1. Sum(f, T) = 0
      BY <2>1, <2>2, SumUnfold, ZenonT(60)
    <3>. QED  BY <3>1
  <2>3. CASE T # {}
    <3>1. Some(T) \in T
      BY <2>1, <2>3, Less, Zenon
    <3>2. T \ {Some(T)} \in SUBSET T /\ T \ {Some(T)} # T
      BY <3>1, Zenon
    <3>3. Sum(f, T \ {Some(T)}) \in Nat
      BY <1>1, <3>2, Zenon
    <3>4. Sum(f, T) = f[Some(T)] + Sum(f, T \ {Some(T)})
      BY <2>1, <2>3, SumUnfold, ZenonT(60)
    <3>. QED  BY <3>1, <3>3, <3>4 DEF Weighs
  <2>. QED  BY <2>2, <2>3, Zenon
<1>2. R \in P
  <2>. HIDE DEF P
  <2>. QED  BY <1>1, SubsetInduction, Zenon DEF Weighs
<1>. QED  BY <1>2, Zenon

\* Whichever element is taken out first, the sum is the same.
LEMMA SumAny ==
  ASSUME NEW f, NEW R, Weighs(f, R), NEW y \in R
  PROVE  Sum(f, R) = f[y] + Sum(f, R \ {y})
<1>. DEFINE P == {T \in SUBSET R : \A x \in T : Sum(f, T) = f[x] + Sum(f, T \ {x})}
<1>1. ASSUME NEW T \in SUBSET R, \A U \in SUBSET T : U # T => U \in P, NEW x \in T
      PROVE  Sum(f, T) = f[x] + Sum(f, T \ {x})
  <2>. DEFINE z == Some(T)
  <2>1. IsFiniteSet(T) /\ T # {}
    BY FS_Subset, Zenon DEF Weighs
  <2>2. z \in T /\ Sum(f, T) = f[z] + Sum(f, T \ {z})
    BY <2>1, Less, SumUnfold, ZenonT(60)
  <2>. HIDE DEF z
  <2>3. CASE x = z
    BY <2>2, <2>3, Zenon
  <2>4. CASE x # z
    <3>1. /\ T \ {z} \in SUBSET T /\ T \ {z} # T /\ x \in T \ {z}
          /\ T \ {x} \in SUBSET T /\ T \ {x} # T /\ z \in T \ {x}
      BY <2>2, <2>4, Zenon
    <3>2. Sum(f, T \ {z}) = f[x] + Sum(f, (T \ {z}) \ {x})
      BY <1>1, <3>1, Zenon
    <3>3. Sum(f, T \ {x}) = f[z] + Sum(f, (T \ {x}) \ {z})
      BY <1>1, <3>1, Zenon
    <3>4. (T \ {z}) \ {x} = (T \ {x}) \ {z}
      BY Zenon
    <3>5. (T \ {x}) \ {z} \in SUBSET R /\ f[x] \in Nat /\ f[z] \in Nat
      BY <2>2, Zenon DEF Weighs
    <3>6. Sum(f, (T \ {x}) \ {z}) \in Nat
      BY <3>5, WeighsLess, SumType, Zenon
    <3>7. Sum(f, T \ {z}) = f[x] + Sum(f, (T \ {x}) \ {z})
      BY <3>2, <3>4, ZenonT(60)
    <3>. QED  BY <2>2, <3>3, <3>5, <3>6, <3>7
  <2>. QED  BY <2>3, <2>4, Zenon
<1>2. \A T \in SUBSET R : (\A U \in SUBSET T : U # T => U \in P) => T \in P
  BY <1>1, Zenon
<1>3. R \in P
  <2>. HIDE DEF P
  <2>. QED  BY <1>2, SubsetInduction, Zenon DEF Weighs
<1>. QED  BY <1>3, Zenon

\* What is mapped into B, one to one, adds up to no more than B does:
LEMMA SumInjection ==
  ASSUME NEW f, NEW A, Weighs(f, A), NEW g, NEW B, Weighs(g, B),
         NEW m, \A x \in A : m[x] \in B /\ g[m[x]] = f[x],
         \A x, y \in A : m[x] = m[y] => x = y
  PROVE  Sum(f, A) =< Sum(g, B)
<1>. DEFINE Into(T, C) == \A x \in T : m[x] \in C
            P == {T \in SUBSET A : \A C \in SUBSET B : Into(T, C) => Sum(f, T) =< Sum(g, C)}
<1>1. ASSUME NEW T \in SUBSET A, \A U \in SUBSET T : U # T => U \in P,
             NEW C \in SUBSET B, Into(T, C)
      PROVE  Sum(f, T) =< Sum(g, C)
  <2>1. Weighs(f, T) /\ Weighs(g, C)
    BY WeighsLess, Zenon
  <2>2. Sum(g, C) \in Nat
    BY <2>1, SumType, Zenon
  <2>3. CASE T = {}
    <3>1. Sum(f, T) = 0
      BY <2>1, <2>3, SumUnfold, Zenon DEF Weighs
    <3>. QED  BY <2>2, <3>1
  <2>4. CASE T # {}
    <3>1. PICK x \in T : TRUE
      BY <2>4, Zenon
    <3>. DEFINE U == T \ {x}
                E == C \ {m[x]}
    <3>2. m[x] \in C /\ g[m[x]] = f[x] /\ f[x] \in Nat
      BY <1>1, Zenon DEF Weighs
    <3>3. Sum(f, T) = f[x] + Sum(f, U)
      BY <2>1, <3>1, SumAny, SMTT(20)
    <3>4. Sum(g, C) = g[m[x]] + Sum(g, E)
      BY <2>1, <3>2, SumAny, SMTT(20)
    <3>5. U \in SUBSET T /\ U # T /\ E \in SUBSET B
      BY Zenon
    <3>6. Into(U, E)
      BY <1>1, Zenon
    <3>7. Sum(f, U) =< Sum(g, E)
      <4>. HIDE DEF U, E, Into
      <4>. QED  BY <1>1, <3>5, <3>6, Zenon
    <3>8. U \in SUBSET A
      BY Zenon
    <3>. HIDE DEF U, E
    <3>9. Sum(f, U) \in Nat /\ Sum(g, E) \in Nat
      BY <3>5, <3>8, WeighsLess, SumType, Zenon
    <3>. QED  BY <3>2, <3>3, <3>4, <3>7, <3>9
  <2>. QED  BY <2>3, <2>4, Zenon
<1>2. \A T \in SUBSET A : (\A U \in SUBSET T : U # T => U \in P) => T \in P
  <2>. HIDE DEF Into
  <2>. QED  BY <1>1, Zenon
<1>3. A \in P
  <2>. HIDE DEF P
  <2>. QED  BY <1>2, SubsetInduction, Zenon DEF Weighs
<1>4. B \in SUBSET B /\ Into(A, B)
  BY Zenon
<1>. HIDE DEF Into
<1>. QED  BY <1>3, <1>4, Zenon

\* so that a subset adds up to no more than the whole.
LEMMA SumMonotone ==
  ASSUME NEW f, NEW B, Weighs(f, B), NEW A \in SUBSET B
  PROVE  Sum(f, A) =< Sum(f, B) /\ Sum(f, A) \in Nat /\ Sum(f, B) \in Nat
<1>. DEFINE m == [x \in A |-> x]
<1>1. Weighs(f, A)
  BY WeighsLess, Zenon
<1>2. \A x \in A : m[x] = x
  BY Zenon
<1>. HIDE DEF m
<1>3. /\ \A x \in A : m[x] \in B /\ f[m[x]] = f[x]
      /\ \A x, y \in A : m[x] = m[y] => x = y
  BY <1>2, Zenon
<1>4. Sum(f, A) =< Sum(f, B)
  BY <1>1, <1>3, SumInjection, Zenon
<1>. QED  BY <1>1, <1>4, SumType, Zenon

\* Two sets add up to no less than their union.
LEMMA SumUnion ==
  ASSUME NEW f, NEW A, Weighs(f, A), NEW B, Weighs(f, B)
  PROVE  Sum(f, A \cup B) =< Sum(f, A) + Sum(f, B)
<1>. DEFINE P == {T \in SUBSET A : Sum(f, T \cup B) =< Sum(f, T) + Sum(f, B)}
<1>0. \A T \in SUBSET A : /\ Weighs(f, T) /\ Weighs(f, T \cup B)
                          /\ Sum(f, T) \in Nat /\ Sum(f, T \cup B) \in Nat
  <2>1. \A T \in SUBSET A : Weighs(f, T)
    BY WeighsLess, Zenon
  <2>2. \A T \in SUBSET A : Weighs(f, T \cup B)
    BY <2>1, FS_Union, Zenon DEF Weighs
  <2>. QED  BY <2>1, <2>2, SumType, Zenon
<1>1. ASSUME NEW T \in SUBSET A, \A U \in SUBSET T : U # T => U \in P PROVE T \in P
  <2>1. Sum(f, B) \in Nat
    BY SumType, Zenon
  <2>2. CASE T = {}
    <3>1. Sum(f, T) = 0
      BY <1>0, <2>2, SumUnfold, Zenon DEF Weighs
    <3>2. T \cup B = B
      BY <2>2, Zenon
    <3>. QED  BY <2>1, <3>1, <3>2
  <2>3. CASE T # {}
    <3>1. PICK x \in T : TRUE
      BY <2>3, Zenon
    <3>. DEFINE U == T \ {x}
    <3>2. U \in SUBSET T /\ U # T /\ U \in SUBSET A /\ f[x] \in Nat
      BY Zenon DEF Weighs
    <3>3. Sum(f, U \cup B) =< Sum(f, U) + Sum(f, B) /\ Sum(f, U) \in Nat /\ Sum(f, U \cup B) \in Nat
      BY <1>0, <1>1, <3>2, Zenon
    <3>4. Sum(f, T) = f[x] + Sum(f, U)
      <4>1. Weighs(f, T)
        BY <1>0, Zenon
      <4>. QED  BY <3>1, <4>1, SumAny, SMTT(20)
    <3>5. CASE x \in B
      <4>1. T \cup B = U \cup B
        BY <3>5, Zenon
      <4>. HIDE DEF U
      <4>2. Sum(f, T \cup B) = Sum(f, U \cup B)
        BY <4>1, Zenon
      <4>. QED  BY <2>1, <3>2, <3>3, <3>4, <4>2
    <3>6. CASE x \notin B
      <4>1. (T \cup B) \ {x} = U \cup B /\ x \in T \cup B
        BY <3>6, Zenon
      <4>2. Sum(f, T \cup B) = f[x] + Sum(f, (T \cup B) \ {x})
        BY <1>0, <4>1, SumAny, SMTT(20)
      <4>3. Sum(f, T \cup B) = f[x] + Sum(f, U \cup B)
        BY <4>1, <4>2, Zenon
      <4>. HIDE DEF U
      <4>. QED  BY <2>1, <3>2, <3>3, <3>4, <4>3
    <3>. QED  BY <3>5, <3>6, Zenon
  <2>. QED  BY <2>2, <2>3, Zenon
<1>2. A \in P
  <2>. HIDE DEF P
  <2>. QED  BY <1>1, SubsetInduction, Zenon DEF Weighs
<1>. QED  BY <1>2, Zenon

-----------------------------------------------------------------------------
(* What a request leaves behind.  If it is never repeated after an error   *)
(* that may hide a container, it has one container at most.                *)
Once == \A r \in Requests :
  /\ attempts[r] > 0
  /\ \A c \in Containers : of[c] = r =>
       /\ pc[r] \in {"refresh", "report", "release", "error", "done", "failed"}
       /\ c \in lost => made[r] = None
       /\ pc[r] \in {"release", "error"} /\ made[r] = None => err[r] = "other"

LEMMA OnceInit == Init => Once
BY NoneAssumption DEF Init, Once

LEMMA OnceStep ==
  ASSUME CreateRetry = 0, Inv, Once, [Next]_vars
  PROVE  Once'
<1>. USE NoneAssumption DEF Inv, world, caches, listing, request, TypeOK, Holding,
         Origin, Once
<1>1. ASSUME NEW r \in Requests, CheckCaches(r)
      PROVE  Once'
  BY <1>1 DEF CheckCaches, Refuse, Proceed
<1>2. ASSUME NEW r \in Requests, CheckPending(r)
      PROVE  Once'
  BY <1>2 DEF CheckPending, Refuse, Proceed
<1>3. ASSUME NEW r \in Requests, ListContainers(r)
      PROVE  Once'
  BY <1>3 DEF ListContainers
<1>4. ASSUME NEW r \in Requests, UsedMemory(r)
      PROVE  Once'
  BY <1>4 DEF UsedMemory
<1>5. ASSUME NEW r \in Requests, SelectFails(r)
      PROVE  Once'
  BY <1>5 DEF SelectFails, Refuse
<1>6. ASSUME NEW r \in Requests, NEW n \in Nodes, Select(r, n)
      PROVE  Once'
  BY <1>6 DEF Select
<1>7. ASSUME NEW r \in Requests, NEW e \in Errors \ {"none"}, CreateFails(r, e)
      PROVE  Once'
  BY <1>7 DEF CreateFails
<1>8. ASSUME NEW r \in Requests, NEW c \in Containers, NEW answered \in BOOLEAN,
             Create(r, c, answered)
      PROVE  Once'
  BY <1>8 DEF Create
<1>9. ASSUME NEW r \in Requests, Refresh(r)
      PROVE  Once'
  BY <1>9 DEF Refresh, RefreshOf
<1>10. ASSUME NEW r \in Requests, Report(r)
      PROVE  Once'
  BY <1>10 DEF Report
<1>11. ASSUME NEW r \in Requests, Release(r)
      PROVE  Once'
  BY <1>11 DEF Release, Return
<1>12. ASSUME NEW r \in Requests, Retry(r)
      PROVE  Once'
  BY <1>12 DEF Retry, RetryOS, RetryImage, RetryLoop, GiveUp, OSMismatch, Again, Return
<1>13. ASSUME NEW w \in Renamers, NEW c \in Containers, NEW x \in Names,
              RenameCheck(w, c, x)
      PROVE  Once'
  BY <1>13 DEF RenameCheck
<1>14. ASSUME NEW w \in Renamers, RenameCall(w)
      PROVE  Once'
  BY <1>14 DEF RenameCall
<1>15. ASSUME NEW w \in Renamers, RenameRefresh(w)
      PROVE  Once'
  BY <1>15 DEF RenameRefresh, RefreshOf
<1>16. ASSUME NEW c \in Containers, Remove(c)
      PROVE  Once'
  BY <1>16 DEF Remove
<1>17. ASSUME NEW c \in Containers, Learn(c)
      PROVE  Once'
  BY <1>17 DEF Learn
<1>18. ASSUME NEW c \in Containers, Drop(c)
      PROVE  Once'
  BY <1>18 DEF Drop
<1>19. CASE UNCHANGED vars
  BY <1>19, SMTT(60) DEF vars
<1>. HIDE DEF Inv, TypeOK, Holding, Origin, Once
<1>. QED
  BY <1>1, <1>2, <1>3, <1>4, <1>5, <1>6, <1>7, <1>8, <1>9, <1>10, <1>11, <1>12,
     <1>13, <1>14, <1>15, <1>16, <1>17, <1>18, <1>19, ZenonT(60) DEF Next, Attempt, RenameStep

(* What the lock holder has listed has been created, and is dropped from   *)
(* the cache only when it is gone.                                         *)
SeenLive == \A c \in seen : of[c] # None /\ (c \in live => c \in cached)

LEMMA SeenLiveStep ==
  ASSUME Inv, SeenLive, [Next]_vars
  PROVE  SeenLive'
<1>. USE NoneAssumption DEF Inv, world, caches, listing, request, TypeOK, Origin, SeenLive
<1>1. ASSUME NEW r \in Requests, CheckCaches(r)
      PROVE  SeenLive'
  BY <1>1, Zenon DEF CheckCaches, Refuse, Proceed
<1>2. ASSUME NEW r \in Requests, CheckPending(r)
      PROVE  SeenLive'
  BY <1>2, Zenon DEF CheckPending, Refuse, Proceed
<1>3. ASSUME NEW r \in Requests, ListContainers(r)
      PROVE  SeenLive'
  BY <1>3, Zenon DEF ListContainers
<1>4. ASSUME NEW r \in Requests, UsedMemory(r)
      PROVE  SeenLive'
  BY <1>4, Zenon DEF UsedMemory
<1>5. ASSUME NEW r \in Requests, SelectFails(r)
      PROVE  SeenLive'
  BY <1>5, Zenon DEF SelectFails, Refuse
<1>6. ASSUME NEW r \in Requests, NEW n \in Nodes, Select(r, n)
      PROVE  SeenLive'
  BY <1>6, Zenon DEF Select
<1>7. ASSUME NEW r \in Requests, NEW e \in Errors \ {"none"}, CreateFails(r, e)
      PROVE  SeenLive'
  BY <1>7, Zenon DEF CreateFails
<1>8. ASSUME NEW r \in Requests, NEW c \in Containers, NEW answered \in BOOLEAN,
             Create(r, c, answered)
      PROVE  SeenLive'
  BY <1>8, Zenon DEF Create
<1>9. ASSUME NEW r \in Requests, Refresh(r)
      PROVE  SeenLive'
  BY <1>9 DEF Refresh, RefreshOf
<1>10. ASSUME NEW r \in Requests, Report(r)
      PROVE  SeenLive'
  BY <1>10, Zenon DEF Report
<1>11. ASSUME NEW r \in Requests, Release(r)
      PROVE  SeenLive'
  BY <1>11, Zenon DEF Release, Return
<1>12. ASSUME NEW r \in Requests, Retry(r)
      PROVE  SeenLive'
  BY <1>12, Zenon DEF Retry, RetryOS, RetryImage, RetryLoop, GiveUp, OSMismatch, Again, Return
<1>13. ASSUME NEW w \in Renamers, NEW c \in Containers, NEW x \in Names,
              RenameCheck(w, c, x)
      PROVE  SeenLive'
  BY <1>13, Zenon DEF RenameCheck
<1>14. ASSUME NEW w \in Renamers, RenameCall(w)
      PROVE  SeenLive'
  BY <1>14, Zenon DEF RenameCall
<1>15. ASSUME NEW w \in Renamers, RenameRefresh(w)
      PROVE  SeenLive'
  BY <1>15 DEF RenameRefresh, RefreshOf
<1>16. ASSUME NEW c \in Containers, Remove(c)
      PROVE  SeenLive'
  BY <1>16, Zenon DEF Remove
<1>17. ASSUME NEW c \in Containers, Learn(c)
      PROVE  SeenLive'
  BY <1>17, Zenon DEF Learn
<1>18. ASSUME NEW c \in Containers, Drop(c)
      PROVE  SeenLive'
  BY <1>18 DEF Drop
<1>19. CASE UNCHANGED vars
  BY <1>19, SMTT(60) DEF vars
<1>. HIDE DEF Inv, TypeOK, Origin, SeenLive
<1>. QED
  BY <1>1, <1>2, <1>3, <1>4, <1>5, <1>6, <1>7, <1>8, <1>9, <1>10, <1>11, <1>12,
     <1>13, <1>14, <1>15, <1>16, <1>17, <1>18, <1>19, ZenonT(60) DEF Next, Attempt, RenameStep

-----------------------------------------------------------------------------
(* Memory.  The requests that take some of n, now or in a moment, and      *)
(* those of them that the lock holder has listed.                          *)
OnNode(s, n) == made[s] # None /\ made[s] \in live /\ host[made[s]] = n
Takes(s, n) == (pc[s] = "create" /\ pending[s] = n) \/ OnNode(s, n)
Taking(n) == {s \in Requests : Takes(s, n)}
Old(n) == {s \in Requests : OnNode(s, n) /\ made[s] \in seen}

(* A container of a request comes from where the request was to create it, *)
(* and only Select makes a request create.                                 *)
Stays(s) ==
  made'[s] # None /\ made'[s] \in live' =>
    \/ made'[s] = made[s] /\ made[s] \in live /\ host'[made[s]] = host[made[s]]
    \/ pc[s] = "create" /\ of[made'[s]] = None /\ host'[made'[s]] = pending[s]

LEMMA MadeStays ==
  ASSUME Inv, [Next]_vars
  PROVE  \A s \in Requests : Stays(s)
<1>. DEFINE Goal == \A s \in Requests : Stays(s)
<1>. SUFFICES Goal
  BY Zenon
<1>. USE NoneAssumption DEF Inv, world, caches, listing, request, TypeOK, Holding, Origin, Stays
<1>1. ASSUME NEW r \in Requests, CheckCaches(r)
      PROVE  Goal
  BY <1>1, Zenon DEF CheckCaches, Refuse, Proceed
<1>2. ASSUME NEW r \in Requests, CheckPending(r)
      PROVE  Goal
  BY <1>2, Zenon DEF CheckPending, Refuse, Proceed
<1>3. ASSUME NEW r \in Requests, ListContainers(r)
      PROVE  Goal
  BY <1>3, Zenon DEF ListContainers
<1>4. ASSUME NEW r \in Requests, UsedMemory(r)
      PROVE  Goal
  BY <1>4, Zenon DEF UsedMemory
<1>5. ASSUME NEW r \in Requests, SelectFails(r)
      PROVE  Goal
  BY <1>5, Zenon DEF SelectFails, Refuse
<1>6. ASSUME NEW r \in Requests, NEW n \in Nodes, Select(r, n)
      PROVE  Goal
  BY <1>6, Zenon DEF Select
<1>7. ASSUME NEW r \in Requests, NEW e \in Errors \ {"none"}, CreateFails(r, e)
      PROVE  Goal
  BY <1>7, Zenon DEF CreateFails
<1>8. ASSUME NEW r \in Requests, NEW c \in Containers, NEW answered \in BOOLEAN,
             Create(r, c, answered)
      PROVE  Goal
  BY <1>8 DEF Create
<1>9. ASSUME NEW r \in Requests, Refresh(r)
      PROVE  Goal
  BY <1>9, Zenon DEF Refresh, RefreshOf
<1>10. ASSUME NEW r \in Requests, Report(r)
      PROVE  Goal
  BY <1>10 DEF Report
<1>11. ASSUME NEW r \in Requests, Release(r)
      PROVE  Goal
  BY <1>11, Zenon DEF Release, Return
<1>12. ASSUME NEW r \in Requests, Retry(r)
      PROVE  Goal
  BY <1>12 DEF Retry, RetryOS, RetryImage, RetryLoop, GiveUp, OSMismatch, Again, Return
<1>13. ASSUME NEW w \in Renamers, NEW c \in Containers, NEW x \in Names,
              RenameCheck(w, c, x)
      PROVE  Goal
  BY <1>13, Zenon DEF RenameCheck
<1>14. ASSUME NEW w \in Renamers, RenameCall(w)
      PROVE  Goal
  BY <1>14, Zenon DEF RenameCall
<1>15. ASSUME NEW w \in Renamers, RenameRefresh(w)
      PROVE  Goal
  BY <1>15, Zenon DEF RenameRefresh, RefreshOf
<1>16. ASSUME NEW c \in Containers, Remove(c)
      PROVE  Goal
  BY <1>16, Zenon DEF Remove
<1>17. ASSUME NEW c \in Containers, Learn(c)
      PROVE  Goal
  BY <1>17, Zenon DEF Learn
<1>18. ASSUME NEW c \in Containers, Drop(c)
      PROVE  Goal
  BY <1>18, Zenon DEF Drop
<1>19. CASE UNCHANGED vars
  BY <1>19, SMTT(60) DEF vars
<1>. HIDE DEF Inv, TypeOK, Holding, Origin, Stays, Goal
<1>. QED
  BY <1>1, <1>2, <1>3, <1>4, <1>5, <1>6, <1>7, <1>8, <1>9, <1>10, <1>11, <1>12,
     <1>13, <1>14, <1>15, <1>16, <1>17, <1>18, <1>19, ZenonT(60) DEF Next, Attempt, RenameStep

LEMMA Creates ==
  ASSUME Inv, [Next]_vars
  PROVE  \/ \A s \in Requests : pc'[s] = "create" => pc[s] = "create" /\ pending'[s] = pending[s]
         \/ \E r \in Requests, n \in Nodes : Select(r, n)
<1>. DEFINE Goal ==
       \/ \A s \in Requests : pc'[s] = "create" => pc[s] = "create" /\ pending'[s] = pending[s]
       \/ \E r \in Requests, n \in Nodes : Select(r, n)
<1>. SUFFICES Goal
  BY Zenon
<1>. USE NoneAssumption DEF Inv, world, caches, listing, request, TypeOK
<1>1. ASSUME NEW r \in Requests, CheckCaches(r)
      PROVE  Goal
  BY <1>1 DEF CheckCaches, Refuse, Proceed
<1>2. ASSUME NEW r \in Requests, CheckPending(r)
      PROVE  Goal
  BY <1>2 DEF CheckPending, Refuse, Proceed
<1>3. ASSUME NEW r \in Requests, ListContainers(r)
      PROVE  Goal
  BY <1>3, Zenon DEF ListContainers
<1>4. ASSUME NEW r \in Requests, UsedMemory(r)
      PROVE  Goal
  BY <1>4, Zenon DEF UsedMemory
<1>5. ASSUME NEW r \in Requests, SelectFails(r)
      PROVE  Goal
  BY <1>5, Zenon DEF SelectFails, Refuse
<1>6. ASSUME NEW r \in Requests, NEW n \in Nodes, Select(r, n)
      PROVE  Goal
  BY <1>6, Zenon DEF Select
<1>7. ASSUME NEW r \in Requests, NEW e \in Errors \ {"none"}, CreateFails(r, e)
      PROVE  Goal
  BY <1>7, Zenon DEF CreateFails
<1>8. ASSUME NEW r \in Requests, NEW c \in Containers, NEW answered \in BOOLEAN,
             Create(r, c, answered)
      PROVE  Goal
  BY <1>8, Zenon DEF Create
<1>9. ASSUME NEW r \in Requests, Refresh(r)
      PROVE  Goal
  BY <1>9, Zenon DEF Refresh, RefreshOf
<1>10. ASSUME NEW r \in Requests, Report(r)
      PROVE  Goal
  BY <1>10, Zenon DEF Report
<1>11. ASSUME NEW r \in Requests, Release(r)
      PROVE  Goal
  BY <1>11 DEF Release, Return
<1>12. ASSUME NEW r \in Requests, Retry(r)
      PROVE  Goal
  BY <1>12 DEF Retry, RetryOS, RetryImage, RetryLoop, GiveUp, OSMismatch, Again, Return
<1>13. ASSUME NEW w \in Renamers, NEW c \in Containers, NEW x \in Names,
              RenameCheck(w, c, x)
      PROVE  Goal
  BY <1>13, Zenon DEF RenameCheck
<1>14. ASSUME NEW w \in Renamers, RenameCall(w)
      PROVE  Goal
  BY <1>14, Zenon DEF RenameCall
<1>15. ASSUME NEW w \in Renamers, RenameRefresh(w)
      PROVE  Goal
  BY <1>15, Zenon DEF RenameRefresh, RefreshOf
<1>16. ASSUME NEW c \in Containers, Remove(c)
      PROVE  Goal
  BY <1>16, Zenon DEF Remove
<1>17. ASSUME NEW c \in Containers, Learn(c)
      PROVE  Goal
  BY <1>17, Zenon DEF Learn
<1>18. ASSUME NEW c \in Containers, Drop(c)
      PROVE  Goal
  BY <1>18, Zenon DEF Drop
<1>19. CASE UNCHANGED vars
  BY <1>19, SMTT(60) DEF vars
<1>. HIDE DEF Inv, TypeOK, Goal
<1>. QED
  BY <1>1, <1>2, <1>3, <1>4, <1>5, <1>6, <1>7, <1>8, <1>9, <1>10, <1>11, <1>12,
     <1>13, <1>14, <1>15, <1>16, <1>17, <1>18, <1>19, ZenonT(60) DEF Next, Attempt, RenameStep

(* What the lock holder has weighed stays as it is until it selects.       *)
LEMMA Holds ==
  ASSUME Inv, [Next]_vars
  PROVE  \A s \in Requests :
           pc'[s] = "select" => UsedMemory(s) \/ (pc[s] = "select" /\ used' = used /\ seen' = seen)
<1>. DEFINE Goal == \A s \in Requests :
       pc'[s] = "select" => UsedMemory(s) \/ (pc[s] = "select" /\ used' = used /\ seen' = seen)
<1>. SUFFICES Goal
  BY Zenon
<1>. USE NoneAssumption DEF Inv, world, caches, listing, request, TypeOK, Held, Locked
<1>1. ASSUME NEW r \in Requests, CheckCaches(r)
      PROVE  Goal
  BY <1>1 DEF CheckCaches, Refuse, Proceed
<1>2. ASSUME NEW r \in Requests, CheckPending(r)
      PROVE  Goal
  BY <1>2 DEF CheckPending, Refuse, Proceed
<1>3. ASSUME NEW r \in Requests, ListContainers(r)
      PROVE  Goal
  BY <1>3, Zenon DEF ListContainers
<1>4. ASSUME NEW r \in Requests, UsedMemory(r)
      PROVE  Goal
  BY <1>4, Zenon DEF UsedMemory
<1>5. ASSUME NEW r \in Requests, SelectFails(r)
      PROVE  Goal
  BY <1>5 DEF SelectFails, Refuse
<1>6. ASSUME NEW r \in Requests, NEW n \in Nodes, Select(r, n)
      PROVE  Goal
  BY <1>6 DEF Select
<1>7. ASSUME NEW r \in Requests, NEW e \in Errors \ {"none"}, CreateFails(r, e)
      PROVE  Goal
  BY <1>7, Zenon DEF CreateFails
<1>8. ASSUME NEW r \in Requests, NEW c \in Containers, NEW answered \in BOOLEAN,
             Create(r, c, answered)
      PROVE  Goal
  BY <1>8 DEF Create
<1>9. ASSUME NEW r \in Requests, Refresh(r)
      PROVE  Goal
  BY <1>9, Zenon DEF Refresh, RefreshOf
<1>10. ASSUME NEW r \in Requests, Report(r)
      PROVE  Goal
  BY <1>10, Zenon DEF Report
<1>11. ASSUME NEW r \in Requests, Release(r)
      PROVE  Goal
  BY <1>11 DEF Release, Return
<1>12. ASSUME NEW r \in Requests, Retry(r)
      PROVE  Goal
  BY <1>12 DEF Retry, RetryOS, RetryImage, RetryLoop, GiveUp, OSMismatch, Again, Return
<1>13. ASSUME NEW w \in Renamers, NEW c \in Containers, NEW x \in Names,
              RenameCheck(w, c, x)
      PROVE  Goal
  BY <1>13, Zenon DEF RenameCheck
<1>14. ASSUME NEW w \in Renamers, RenameCall(w)
      PROVE  Goal
  BY <1>14, Zenon DEF RenameCall
<1>15. ASSUME NEW w \in Renamers, RenameRefresh(w)
      PROVE  Goal
  BY <1>15, Zenon DEF RenameRefresh, RefreshOf
<1>16. ASSUME NEW c \in Containers, Remove(c)
      PROVE  Goal
  BY <1>16, Zenon DEF Remove
<1>17. ASSUME NEW c \in Containers, Learn(c)
      PROVE  Goal
  BY <1>17, Zenon DEF Learn
<1>18. ASSUME NEW c \in Containers, Drop(c)
      PROVE  Goal
  BY <1>18, Zenon DEF Drop
<1>19. CASE UNCHANGED vars
  BY <1>19, SMTT(60) DEF vars
<1>. HIDE DEF Inv, TypeOK, Held, Locked, Goal
<1>. QED
  BY <1>1, <1>2, <1>3, <1>4, <1>5, <1>6, <1>7, <1>8, <1>9, <1>10, <1>11, <1>12,
     <1>13, <1>14, <1>15, <1>16, <1>17, <1>18, <1>19, ZenonT(60) DEF Next, Attempt, RenameStep

\* So fewer requests take memory, unless one selects its node.
LEMMA TakingLess ==
  ASSUME Inv, [Next]_vars, NEW n \in Nodes,
         \A s \in Requests : pc'[s] = "create" => pc[s] = "create" /\ pending'[s] = pending[s]
  PROVE  Taking(n)' \subseteq Taking(n)
<1>1. ASSUME NEW s \in Requests, Takes(s, n)' PROVE Takes(s, n)
  <2>1. Stays(s)
    BY MadeStays, Zenon
  <2>. QED  BY <1>1, <2>1, Zenon DEF Takes, OnNode, Stays
<1>. QED  BY <1>1, Zenon DEF Taking

LEMMA TakingSelect ==
  ASSUME Inv, NEW r \in Requests, NEW n \in Nodes, Select(r, n), NEW m \in Nodes
  PROVE  Taking(m)' \subseteq Taking(m) \cup (IF m = n THEN {r} ELSE {})
BY Zenon DEF Inv, TypeOK, Select, Taking, Takes, OnNode, world, request

\* The containers that are listed and still there are fewer, too.
LEMMA OldLess ==
  ASSUME Inv, SeenLive, [Next]_vars, seen' = seen, NEW n \in Nodes
  PROVE  Old(n)' \subseteq Old(n)
<1>1. ASSUME NEW s \in Requests, OnNode(s, n)', made'[s] \in seen
      PROVE  OnNode(s, n) /\ made[s] \in seen
  <2>1. Stays(s) /\ of[made'[s]] # None
    BY <1>1, MadeStays, Zenon DEF SeenLive
  <2>. QED  BY <1>1, <2>1, Zenon DEF OnNode, Stays
<1>. QED  BY <1>1, Zenon DEF Old

(* Whoever takes memory of the node is listed there or added to it, when   *)
(* another request selects its node.                                       *)
LEMMA TakingCounted ==
  ASSUME Inv, Room, Once, NEW r \in Requests, pc[r] = "select", NEW n \in Nodes
  PROVE  Taking(n) \subseteq Old(n) \cup Added(n)
<1>. SUFFICES ASSUME NEW s \in Requests, Takes(s, n), s \notin Old(n) PROVE s \in Added(n)
  BY Zenon DEF Taking
<1>1. ASSUME pending[s] = n, \A c \in seen : of[c] # s PROVE s \in Added(n)
  BY <1>1, Zenon DEF Room, Added, Resident
<1>2. CASE pc[s] = "create" /\ pending[s] = n
  <2>1. \A c \in seen : of[c] # s
    BY <1>2, Zenon DEF Once, Inv, TypeOK
  <2>. QED  BY <1>1, <1>2, <2>1, Zenon
<1>3. CASE OnNode(s, n)
  <2>1. made[s] \notin seen /\ made[s] # None
    BY <1>3, Zenon DEF Old, OnNode
  <2>2. pending[s] = n
    <3>1. pending[s] # None
      BY <1>3, <2>1, Zenon DEF Inv, Listed, OnNode
    <3>2. pc[s] # "done"
      BY <3>1, Zenon DEF Inv, Held, Reserved
    <3>. QED  BY <1>3, <2>1, <3>2, Zenon DEF Inv, Holding, OnNode
  <2>3. ASSUME NEW c \in seen, of[c] = s PROVE FALSE
    <3>1. c \in Containers /\ s # None
      BY NoneAssumption, Zenon DEF Inv, TypeOK
    <3>2. c \notin lost
      BY <2>1, <2>3, <3>1, Zenon DEF Once
    <3>. QED  BY <2>1, <2>3, <3>1, <3>2, Zenon DEF Inv, Origin
  <2>. QED  BY <1>1, <2>2, <2>3, Zenon
<1>. QED  BY <1>2, <1>3, Zenon DEF Takes

LEMMA MemoryWeighs ==
  ASSUME NEW S \in SUBSET Requests
  PROVE  Weighs(Memory, S)
BY RequestAssumption, FS_Subset, Zenon DEF Weighs

(* UsedMemory adds up a container for each of those that are listed and    *)
(* still there.                                                            *)
LEMMA UsedEnough ==
  ASSUME Inv, SeenLive, NEW n \in Nodes
  PROVE  /\ Reserves(Resident(n, cached)) \in Nat
         /\ Sum(Memory, Old(n)) =< Reserves(Resident(n, cached))
<1>. DEFINE C == Resident(n, cached)
            g == [c \in C |-> Memory[of[c]]]
            m == [s \in Old(n) |-> made[s]]
<1>1. Weighs(Memory, Old(n))
  BY MemoryWeighs, Zenon DEF Old
<1>2. Weighs(g, C)
  <2>1. IsFiniteSet(C)
    BY FS_Subset, Zenon DEF Inv, Few, Resident
  <2>2. \A c \in C : of[c] \in Requests
    BY Zenon DEF Resident, Inv, TypeOK, Origin
  <2>3. \A c \in C : g[c] \in Nat
    BY <2>2, RequestAssumption, Zenon
  <2>. HIDE DEF g, C
  <2>. QED  BY <2>1, <2>3, Zenon DEF Weighs
<1>3. ASSUME NEW s \in Old(n) PROVE made[s] \in C /\ of[made[s]] = s
  <2>1. s \in Requests /\ made[s] # None /\ made[s] \in live /\ made[s] \in seen /\ host[made[s]] = n
    BY <1>3, Zenon DEF Old, OnNode
  <2>2. made[s] \in cached
    BY <2>1, Zenon DEF SeenLive
  <2>. QED  BY <2>1, <2>2, Zenon DEF Resident, Inv, Holding
<1>4. \A s \in Old(n) : m[s] \in C /\ g[m[s]] = Memory[s]
  BY <1>3, Zenon
<1>5. \A s, t \in Old(n) : m[s] = m[t] => s = t
  BY <1>3, Zenon
<1>6. Reserves(C) = Sum(g, C)
  BY Zenon DEF Reserves
<1>. HIDE DEF g, C, m
<1>7. Sum(g, C) \in Nat
  BY <1>2, SumType, Zenon
<1>8. Sum(Memory, Old(n)) =< Sum(g, C)
  BY <1>1, <1>2, <1>4, <1>5, SumInjection, SMTT(60)
<1>. QED  BY <1>6, <1>7, <1>8, Zenon DEF C

WeighedRight == \A r \in Requests : pc[r] = "select" =>
  \A n \in Nodes : used[n] \in Nat /\ Sum(Memory, Old(n)) =< used[n]

LEMMA WeighedRightStep ==
  ASSUME Inv, SeenLive, WeighedRight, [Next]_vars
  PROVE  WeighedRight'
<1>. SUFFICES ASSUME NEW r \in Requests, pc'[r] = "select", NEW n \in Nodes
              PROVE  used'[n] \in Nat /\ Sum(Memory, Old(n)') =< used'[n]
  BY Zenon DEF WeighedRight
<1>1. CASE UsedMemory(r)
  <2>1. used'[n] = Reserves(Resident(n, cached))
    BY <1>1, Zenon DEF UsedMemory
  <2>2. Old(n)' = Old(n)
    BY <1>1, Zenon DEF UsedMemory, Old, OnNode, world, request
  <2>. QED  BY <2>1, <2>2, UsedEnough, Zenon
<1>2. CASE pc[r] = "select" /\ used' = used /\ seen' = seen
  <2>1. Old(n)' \subseteq Old(n)
    BY <1>2, OldLess, Zenon
  <2>2. used[n] \in Nat /\ Sum(Memory, Old(n)) =< used[n]
    BY <1>2, Zenon DEF WeighedRight
  <2>3. Weighs(Memory, Old(n))
    BY MemoryWeighs, Zenon DEF Old
  <2>4. /\ Sum(Memory, Old(n)') =< Sum(Memory, Old(n))
        /\ Sum(Memory, Old(n)') \in Nat /\ Sum(Memory, Old(n)) \in Nat
    BY <2>1, <2>3, SumMonotone, Zenon
  <2>5. Sum(Memory, Old(n)') =< used[n]
    BY <2>2, <2>4
  <2>. QED  BY <1>2, <2>2, <2>5, Zenon
<1>. QED  BY <1>1, <1>2, Holds, Zenon

\* The percentage that weighNodes compares with a hundred, rounded down.
Within(a, t) == a > 0 => a * 100 < 101 * t

LEMMA Percent ==
  ASSUME NEW a \in Nat, NEW t \in Nat \ {0}
  PROVE  (a * 100) \div t =< 100 <=> a * 100 < 101 * t
OBVIOUS

LEMMA WithinLess ==
  ASSUME NEW a \in Nat, NEW b \in Nat, a =< b, NEW t \in Nat, Within(b, t)
  PROVE  Within(a, t)
BY DEF Within

MemoryFits == \A n \in Nodes : Within(Sum(Memory, Taking(n)), Total[n])

\* Less memory fits as well.
LEMMA FitsLess ==
  ASSUME NEW A \in SUBSET Requests, NEW B \in SUBSET A, NEW n \in Nodes,
         Within(Sum(Memory, A), Total[n])
  PROVE  Within(Sum(Memory, B), Total[n])
<1>1. Weighs(Memory, A)
  BY MemoryWeighs, Zenon
<1>2. /\ Sum(Memory, B) =< Sum(Memory, A)
      /\ Sum(Memory, B) \in Nat /\ Sum(Memory, A) \in Nat
  BY <1>1, SumMonotone, Zenon
<1>3. Total[n] \in Nat
  BY NodeAssumption, Zenon
<1>. QED  BY <1>2, <1>3, WithinLess, Zenon

\* One more request adds what it reserves.
LEMMA OneMore ==
  ASSUME NEW A \in SUBSET Requests, NEW r \in Requests
  PROVE  /\ Sum(Memory, A \cup {r}) =< Sum(Memory, A) + Memory[r]
         /\ Sum(Memory, A \cup {r}) \in Nat /\ Sum(Memory, A) \in Nat /\ Memory[r] \in Nat
<1>1. Weighs(Memory, A) /\ Weighs(Memory, {r}) /\ Weighs(Memory, A \cup {r})
  BY MemoryWeighs, Zenon
<1>2. Sum(Memory, {r}) = Memory[r] + Sum(Memory, {r} \ {r})
  BY <1>1, SumAny, SMTT(60)
<1>3. Sum(Memory, {}) = 0
  BY FS_EmptySet, SumUnfold, ZenonT(60)
<1>4. {r} \ {r} = {} /\ Memory[r] \in Nat
  BY RequestAssumption, Zenon
<1>5. Sum(Memory, {r}) = Memory[r]
  BY <1>2, <1>3, <1>4
<1>6. Sum(Memory, A \cup {r}) =< Sum(Memory, A) + Sum(Memory, {r})
  BY <1>1, SumUnion, Zenon
<1>. QED  BY <1>1, <1>4, <1>5, <1>6, SumType, Zenon

(* weighNodes adds up no less than what is taken of the node it accepts.   *)
LEMMA SelectFits ==
  ASSUME Strategy # "random", Inv, Room, Once, WeighedRight, MemoryFits,
         NEW r \in Requests, NEW n \in Nodes, Select(r, n)
  PROVE  Within(Sum(Memory, Taking(n) \cup {r}), Total[n])
<1>. DEFINE took == Sum(Memory, Taking(n))
            with == Sum(Memory, Taking(n) \cup {r})
            old == Sum(Memory, Old(n))
            added == Sum(Memory, Added(n))
<1>1. pc[r] = "select" /\ weighNodes(r, n)
  BY Zenon DEF Select, Accepts
<1>2. Taking(n) \in SUBSET Requests /\ Old(n) \in SUBSET Requests /\ Added(n) \in SUBSET Requests
  BY Zenon DEF Taking, Old, Added
<1>3. with =< took + Memory[r] /\ with \in Nat /\ took \in Nat /\ Memory[r] \in Nat
  BY <1>2, OneMore, Zenon
<1>4. took =< old + added /\ old \in Nat /\ added \in Nat
  <2>1. Taking(n) \subseteq Old(n) \cup Added(n)
    BY <1>1, TakingCounted, Zenon
  <2>2. Weighs(Memory, Old(n)) /\ Weighs(Memory, Added(n)) /\ Weighs(Memory, Old(n) \cup Added(n))
    BY <1>2, MemoryWeighs, Zenon
  <2>3. /\ took =< Sum(Memory, Old(n) \cup Added(n))
        /\ Sum(Memory, Old(n) \cup Added(n)) \in Nat
    BY <2>1, <2>2, SumMonotone, Zenon
  <2>4. Sum(Memory, Old(n) \cup Added(n)) =< old + added
    BY <2>2, SumUnion, Zenon
  <2>5. old \in Nat /\ added \in Nat
    BY <2>2, SumType, Zenon
  <2>. HIDE DEF took, old, added
  <2>. QED  BY <1>3, <2>3, <2>4, <2>5
<1>5. used[n] \in Nat /\ old =< used[n] /\ Total[n] \in Nat
  BY <1>1, NodeAssumption, Zenon DEF WeighedRight
<1>6. Within(took, Total[n])
  BY Zenon DEF MemoryFits
<1>7. /\ Memory[r] =< Total[n]
      /\ Memory[r] > 0 => ((used[n] + added + Memory[r]) * 100) \div Total[n] =< 100
  BY <1>1, Zenon DEF weighNodes
<1>. SUFFICES Within(with, Total[n])
  BY Zenon
<1>. HIDE DEF took, with, old, added
<1>8. CASE Memory[r] = 0
  <2>1. with =< took
    BY <1>3, <1>8
  <2>. QED  BY <1>3, <1>5, <1>6, <2>1, WithinLess, Zenon
<1>9. CASE Memory[r] > 0
  <2>. DEFINE all == used[n] + added + Memory[r]
  <2>1. all \in Nat /\ Total[n] \in Nat \ {0} /\ with =< all
    BY <1>3, <1>4, <1>5, <1>7, <1>9
  <2>2. (all * 100) \div Total[n] =< 100
    BY <1>7, <1>9, Zenon
  <2>. HIDE DEF all
  <2>3. all * 100 < 101 * Total[n]
    BY <2>1, <2>2, Percent, Zenon
  <2>. QED  BY <1>3, <1>5, <2>1, <2>3, WithinLess, Zenon DEF Within
<1>10. Memory[r] = 0 \/ Memory[r] > 0
  BY <1>3
<1>. QED  BY <1>8, <1>9, <1>10, Zenon

LEMMA FitsStep ==
  ASSUME Strategy # "random", Inv, Room, Once, WeighedRight, MemoryFits, [Next]_vars
  PROVE  MemoryFits'
<1>. SUFFICES ASSUME NEW m \in Nodes PROVE Within(Sum(Memory, Taking(m)'), Total[m])
  BY Zenon DEF MemoryFits
<1>0. Taking(m) \in SUBSET Requests /\ Within(Sum(Memory, Taking(m)), Total[m])
  BY Zenon DEF Taking, MemoryFits
<1>1. CASE Taking(m)' \subseteq Taking(m)
  BY <1>0, <1>1, FitsLess, Zenon
<1>2. ASSUME NEW r \in Requests, NEW n \in Nodes, Select(r, n)
      PROVE  Within(Sum(Memory, Taking(m)'), Total[m])
  <2>1. CASE m # n
    BY <1>1, <1>2, <2>1, TakingSelect, Zenon
  <2>2. CASE m = n
    <3>1. Within(Sum(Memory, Taking(m) \cup {r}), Total[m])
      BY <1>2, <2>2, SelectFits, Zenon
    <3>2. Taking(m)' \in SUBSET (Taking(m) \cup {r}) /\ Taking(m) \cup {r} \in SUBSET Requests
      BY <1>0, <1>2, <2>2, TakingSelect, Zenon
    <3>. QED  BY <3>1, <3>2, FitsLess, Zenon
  <2>. QED  BY <2>1, <2>2, Zenon
<1>. QED  BY <1>1, <1>2, Creates, TakingLess, Zenon

(* weighNodes: the memory that the containers of a node reserve, with      *)
(* those about to be created, is at most its total by the percentage that  *)
(* it computes, however many requests, removals and refreshes go on, if    *)
(* the strategy weighs the nodes and no attempt is repeated.               *)
THEOREM MemoryBound ==
  ASSUME CreateRetry = 0, Strategy # "random"
  PROVE  Spec => []MemoryRespected
<1>. DEFINE J == Room /\ Once /\ SeenLive /\ WeighedRight /\ MemoryFits
<1>1. Init => J
  <2>. SUFFICES ASSUME Init PROVE SeenLive /\ WeighedRight /\ MemoryFits
    BY RoomInit, OnceInit, Zenon
  <2>1. SeenLive /\ WeighedRight
    BY Zenon DEF Init, SeenLive, WeighedRight
  <2>2. \A n \in Nodes : Taking(n) = {}
    BY Zenon DEF Init, Taking, Takes, OnNode
  <2>3. Sum(Memory, {}) = 0
    BY FS_EmptySet, SumUnfold, ZenonT(60)
  <2>4. \A n \in Nodes : Within(0, Total[n])
    BY DEF Within
  <2>. QED  BY <2>1, <2>2, <2>3, <2>4, Zenon DEF MemoryFits
<1>2. Inv /\ J /\ [Next]_vars => J'
  <2>. SUFFICES ASSUME Inv, J, [Next]_vars PROVE J'
    BY Zenon
  <2>1. Weighed
    BY Zenon DEF Weighed
  <2>2. Room' /\ Once'
    BY <2>1, RoomStep, OnceStep, Zenon
  <2>. QED  BY <2>2, SeenLiveStep, WeighedRightStep, FitsStep, Zenon
<1>3. Inv /\ J => MemoryRespected
  <2>. SUFFICES ASSUME Inv, J, NEW n \in Nodes
                PROVE  LET rs == {r \in Requests : \/ pc[r] = "create" /\ pending[r] = n
                                                   \/ \E c \in Mine : host[c] = n /\ of[c] = r}
                           sum == Sum(Memory, rs)
                       IN  sum > 0 => (sum * 100) \div Total[n] =< 100
    BY Zenon DEF MemoryRespected
  <2>. DEFINE rs == {r \in Requests : \/ pc[r] = "create" /\ pending[r] = n
                                      \/ \E c \in Mine : host[c] = n /\ of[c] = r}
              sum == Sum(Memory, rs)
  <2>1. rs \in SUBSET Taking(n) /\ Taking(n) \in SUBSET Requests
    BY NoneAssumption DEF Inv, TypeOK, Origin, Mine, Taking, Takes, OnNode
  <2>. HIDE DEF rs
  <2>2. Within(sum, Total[n])
    <3>1. Within(Sum(Memory, Taking(n)), Total[n])
      BY Zenon DEF MemoryFits
    <3>. QED  BY <2>1, <3>1, FitsLess, Zenon
  <2>3. sum \in Nat
    <3>1. Weighs(Memory, rs)
      BY <2>1, MemoryWeighs, Zenon
    <3>. QED  BY <3>1, SumType, Zenon
  <2>. HIDE DEF sum
  <2>4. ASSUME sum > 0 PROVE (sum * 100) \div Total[n] =< 100
    <3>1. sum * 100 < 101 * Total[n]
      BY <2>2, <2>4, Zenon DEF Within
    <3>2. Total[n] \in Nat \ {0}
      BY <2>3, <3>1, NodeAssumption
    <3>. QED  BY <2>3, <3>1, <3>2, Percent, Zenon
  <2>. QED  BY <2>4, Zenon DEF sum, rs
<1>. QED  BY <1>1, <1>2, <1>3, Invariance, PTL DEF Spec
=============================================================================
