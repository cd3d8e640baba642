-------------------------- MODULE PlacementProofs --------------------------
(***************************************************************************)
(* Proofs about Placement, for any nodes, any requests and any number of   *)
(* attempts: the chosen node meets what the client asked for, it is the    *)
(* best of those that do, and what the client said survives in the labels. *)
(***************************************************************************)
EXTENDS Placement, FiniteSetTheorems, SequenceTheorems, WellFoundedInduction, TLAPS

(* Induction, on a set of numbers since the library's theorem takes an     *)
(* operator, and the largest element that it finds in a finite set.        *)

\* Induction over the natural numbers.
LEMMA SetInduction ==
  ASSUME NEW S, 0 \in S, \A n \in Nat : n \in S => n + 1 \in S
  PROVE  Nat \subseteq S
<1>. DEFINE T == Nat \ S
<1>1. SUFFICES ASSUME T # {} PROVE FALSE
  BY Zenon
<1>2. PICK x \in T : \A y \in T : <<y, x>> \notin OpToRel(<, Nat)
  BY <1>1, NatLessThanWellFounded, WFMin, Zenon
<1>3. x # 0 /\ x - 1 \in T
  OBVIOUS
<1>4. <<x - 1, x>> \in OpToRel(<, Nat)
  BY <1>3 DEF OpToRel
<1>. QED  BY <1>2, <1>3, <1>4, Zenon

\* A finite set has an element with the largest value,
LEMMA FiniteMax ==
  ASSUME NEW T, IsFiniteSet(T), T # {}, NEW f, \A k \in T : f[k] \in Int
  PROVE  \E m \in T : \A k \in T : f[k] <= f[m]
<1>. DEFINE Small(n) == \A U \in SUBSET T :
                          U # {} /\ Cardinality(U) = n => \E m \in U : \A k \in U : f[k] <= f[m]
            S == {n \in Nat : Small(n)}
<1>1. 0 \in S
  <2>1. ASSUME NEW U \in SUBSET T, Cardinality(U) = 0 PROVE U = {}
    BY <2>1, FS_Subset, FS_EmptySet, Zenon
  <2>. QED  BY <2>1, Zenon
<1>2. ASSUME NEW n \in Nat, n \in S PROVE n + 1 \in S
  <2>. SUFFICES ASSUME NEW U \in SUBSET T, U # {}, Cardinality(U) = n + 1
                PROVE  \E m \in U : \A k \in U : f[k] <= f[m]
    OBVIOUS
  <2>1. PICK x \in U : TRUE
    BY Zenon
  <2>2. U \ {x} \in SUBSET T /\ Cardinality(U \ {x}) = n
    BY FS_Subset, FS_RemoveElement, FS_CardinalityType
  <2>3. CASE U \ {x} = {}
    BY <2>1, <2>3
  <2>4. CASE U \ {x} # {}
    <3>1. PICK m \in U \ {x} : \A k \in U \ {x} : f[k] <= f[m]
      BY <1>2, <2>2, <2>4, Zenon
    <3>2. CASE f[x] <= f[m]
      BY <3>1, <3>2, Zenon
    <3>3. CASE ~(f[x] <= f[m])
      <4>1. \A k \in U : f[k] <= f[x]
        BY <2>1, <3>1, <3>3
      <4>. QED  BY <2>1, <4>1, Zenon
    <3>. QED  BY <3>2, <3>3, Zenon
  <2>. QED  BY <2>3, <2>4, Zenon
<1>3. Nat \subseteq S
  <2>. HIDE DEF S
  <2>. QED  BY <1>1, <1>2, SetInduction, Zenon
<1>4. Cardinality(T) \in Nat
  BY FS_CardinalityType, Zenon
<1>5. Small(Cardinality(T))
  <2>. HIDE DEF Small
  <2>. QED  BY <1>3, <1>4, Zenon
<1>. QED  BY <1>5, Zenon

\* the first of a list that is sorted by two numbers
LEMMA LexMax ==
  ASSUME NEW T, IsFiniteSet(T), T # {}, NEW f, \A k \in T : f[k] \in Int,
         NEW g, \A k \in T : g[k] \in Int
  PROVE  \E m \in T : \A k \in T : ~(f[m] < f[k] \/ (f[m] = f[k] /\ g[m] < g[k]))
<1>1. PICK a \in T : \A k \in T : f[k] <= f[a]
  BY FiniteMax, Zenon
<1>. DEFINE U == {k \in T : f[k] = f[a]}
<1>2. IsFiniteSet(U) /\ U # {} /\ \A k \in U : g[k] \in Int
  BY FS_Subset, Zenon
<1>3. PICK m \in U : \A k \in U : g[k] <= g[m]
  <2>. HIDE DEF U
  <2>. QED  BY <1>2, FiniteMax, Zenon
<1>. QED  BY <1>1, <1>3

-----------------------------------------------------------------------------
(* The strategies: what they weigh, and that they find the right node.     *)

\* A strategy returns one of the nodes it was given, with room for the
\* container unless it is random.
LEMMA FirstFits ==
  ASSUME strategy \in {"spread", "binpack", "random"}, NEW c, NEW ns,
         NEW n \in First(c, ns)
  PROVE  n \in ns /\ (strategy = "random" \/ Fits(c, n))
  BY Zenon DEF First, Spread, Binpack

\* the numbers that the strategies compute with
Sized(c) == node \in [Nodes -> NodeStates] /\ c.cpus \in Int /\ c.memory \in Int

\* A quotient is a natural number.
LEMMA Quotients ==
  ASSUME NEW a \in Nat, NEW b \in Nat \ {0}
  PROVE  a \div b \in Nat
  OBVIOUS

\* HealthIndicator is a percentage.
LEMMA DegreeRange ==
  ASSUME NEW c, Sized(c), NEW n \in Nodes
  PROVE  HealthIndicator(n) \in 0..100
<1>. DEFINE f == node[n].failures
<1>1. f \in Nat /\ FailureRetry \in Nat \ {0}
  BY NodesAssumption, FailureRetryAssumption, Zenon DEF Sized
<1>. HIDE DEF f
<1>2. CASE f < FailureRetry
  <2>1. (f * 100) \div FailureRetry \in 0..100
    BY <1>1, <1>2, SMTT(60)
  <2>. QED  BY <1>1, <1>2, <2>1 DEF HealthIndicator, f
<1>3. CASE f >= FailureRetry
  BY <1>3 DEF HealthIndicator, f
<1>. QED  BY <1>1, <1>2, <1>3

\* A score is no less than zero.
LEMMA ScoreRange ==
  ASSUME NEW wanted \in Int, NEW used \in Nat, NEW total \in Nat \ {0}
  PROVE  Score(wanted, used, total) \in Nat
<1>1. CASE wanted > 0
  <2>1. (used + wanted) * 100 \in Nat
    BY <1>1
  <2>2. ((used + wanted) * 100) \div total \in Nat
    BY <2>1, Quotients, Zenon
  <2>. QED  BY <1>1, <2>2, Zenon DEF Score
<1>2. CASE ~(wanted > 0)
  BY <1>2, Zenon DEF Score
<1>. QED  BY <1>1, <1>2, Zenon

\* So that nodes can be compared.
LEMMA WeightType ==
  ASSUME NEW c, Sized(c), NEW n \in Nodes
  PROVE  /\ Score(c.cpus, node[n].cpus, TotalCpus) \in Nat
         /\ Score(c.memory, node[n].memory, TotalMemory) \in Nat
         /\ Weight(c, n, 1) \in Int /\ Weight(c, n, -1) \in Int
         /\ Cardinality(node[n].containers) \in Nat
<1>1. /\ node[n].cpus \in Nat /\ node[n].memory \in Nat
      /\ IsFiniteSet(node[n].containers)
  BY NodesAssumption, Zenon DEF Sized
<1>2. /\ Score(c.cpus, node[n].cpus, TotalCpus) \in Nat
      /\ Score(c.memory, node[n].memory, TotalMemory) \in Nat
  BY <1>1, ScoreRange, NodesAssumption, Zenon DEF Sized
<1>3. Weight(c, n, 1) \in Int /\ Weight(c, n, -1) \in Int
  BY <1>2, DegreeRange DEF Weight
<1>. QED  BY <1>1, <1>2, <1>3, FS_CardinalityType, Zenon

\* weighNodes finds a node whenever one of those it is given has room.
LEMMA FirstExists ==
  ASSUME NEW c, Sized(c), strategy \in {"spread", "binpack", "random"},
         NEW ns \in SUBSET Nodes, NEW n \in ns, strategy = "random" \/ Fits(c, n)
  PROVE  First(c, ns) # {}
<1>. DEFINE fit == {k \in ns : Fits(c, k)}
            size(k) == Cardinality(node[k].containers)
<1>1. /\ IsFiniteSet(fit) /\ fit \subseteq Nodes
      /\ \A k \in fit : /\ Weight(c, k, 1) \in Int /\ Weight(c, k, -1) \in Int
                        /\ size(k) \in Nat
  BY WeightType, NodesAssumption, FS_Subset, Zenon
<1>. HIDE DEF fit
<1>2. CASE strategy = "random"
  BY <1>2, Zenon DEF First
<1>3. CASE strategy = "spread"
  <2>. DEFINE f == [k \in fit |-> 0 - Weight(c, k, -1)]
              g == [k \in fit |-> 0 - size(k)]
  <2>1. fit # {}
    BY <1>3, Zenon DEF fit
  <2>2. \A k \in fit : /\ f[k] = 0 - Weight(c, k, -1) /\ g[k] = 0 - size(k)
                       /\ f[k] \in Int /\ g[k] \in Int
    BY <1>1
  <2>. HIDE DEF f, g
  <2>3. PICK m \in fit : \A k \in fit : ~(f[m] < f[k] \/ (f[m] = f[k] /\ g[m] < g[k]))
    BY <1>1, <2>1, <2>2, LexMax, Zenon
  <2>4. \A k \in fit : ~Before(c, k, m, -1)
    BY <1>1, <2>2, <2>3 DEF Before
  <2>5. m \in Spread(c, ns)
    BY <2>4, Zenon DEF Spread, fit
  <2>. QED  BY <1>3, <2>5, Zenon DEF First
<1>4. CASE strategy = "binpack"
  <2>. DEFINE f == [k \in fit |-> Weight(c, k, 1)]
              g == [k \in fit |-> size(k)]
  <2>1. fit # {}
    BY <1>4, Zenon DEF fit
  <2>2. \A k \in fit : /\ f[k] = Weight(c, k, 1) /\ g[k] = size(k)
                       /\ f[k] \in Int /\ g[k] \in Int
    BY <1>1
  <2>. HIDE DEF f, g
  <2>3. PICK m \in fit : \A k \in fit : ~(f[m] < f[k] \/ (f[m] = f[k] /\ g[m] < g[k]))
    BY <1>1, <2>1, <2>2, LexMax, Zenon
  <2>4. \A k \in fit : ~Before(c, m, k, 1)
    BY <1>1, <2>2, <2>3, Zenon DEF Before
  <2>5. m \in Binpack(c, ns)
    BY <2>4, Zenon DEF Binpack, fit
  <2>. QED  BY <1>4, <2>5, Zenon DEF First
<1>. QED  BY <1>2, <1>3, <1>4, Zenon

\* one failure weighs more than all the load of a node, if FailureRetry is
\* no more than four
LEMMA DegreeGap ==
  ASSUME NEW c, Sized(c), FailureRetry <= 4, NEW m \in Nodes, NEW n \in Nodes,
         HealthIndicator(n) > HealthIndicator(m)
  PROVE  HealthIndicator(n) >= HealthIndicator(m) + 25
<1>. DEFINE f == node[m].failures
            g == node[n].failures
<1>1. f \in Nat /\ g \in Nat /\ FailureRetry \in 1..4
  BY NodesAssumption, FailureRetryAssumption DEF Sized
<1>2. /\ HealthIndicator(m) = IF f >= FailureRetry THEN 0 ELSE 100 - (f * 100) \div FailureRetry
      /\ HealthIndicator(n) = IF g >= FailureRetry THEN 0 ELSE 100 - (g * 100) \div FailureRetry
  BY Zenon DEF HealthIndicator
<1>. HIDE DEF f, g
<1>3. CASE FailureRetry = 1
  BY <1>1, <1>2, <1>3
<1>4. CASE FailureRetry = 2
  BY <1>1, <1>2, <1>4
<1>5. CASE FailureRetry = 3
  BY <1>1, <1>2, <1>5
<1>6. CASE FailureRetry = 4
  BY <1>1, <1>2, <1>6
<1>. QED  BY <1>1, <1>3, <1>4, <1>5, <1>6

\* The arithmetic of the factor ten: two percentages against ten times a gap
\* of twenty-five.
LEMMA LoadIsLight ==
  ASSUME NEW a \in 0..100, NEW b \in 0..100, NEW c \in 0..100, NEW d \in 0..100,
         NEW h \in 0..100, NEW i \in 0..100, i >= h + 25
  PROVE  /\ a + b + (-1) * 10 * i < c + d + (-1) * 10 * h
         /\ c + d + 1 * 10 * h < a + b + 1 * 10 * i
  OBVIOUS

\* The strategies spread and binpack return a node that no other with room
\* surpasses in health.
LEMMA HealthiestFirst ==
  ASSUME NEW c, Sized(c), FailureRetry <= 4, strategy \in {"spread", "binpack"},
         NEW ns \in SUBSET Nodes, NEW m \in First(c, ns), NEW n \in ns, Fits(c, n)
  PROVE  HealthIndicator(n) <= HealthIndicator(m)
<1>1. m \in ns /\ Fits(c, m)
  BY FirstFits, ZenonT(30)
<1>. DEFINE cpu(k) == Score(c.cpus, node[k].cpus, TotalCpus)
            mem(k) == Score(c.memory, node[k].memory, TotalMemory)
<1>2. /\ cpu(m) \in 0..100 /\ mem(m) \in 0..100 /\ cpu(n) \in 0..100 /\ mem(n) \in 0..100
  BY <1>1, WeightType DEF Fits
<1>3. HealthIndicator(m) \in 0..100 /\ HealthIndicator(n) \in 0..100
  BY <1>1, DegreeRange, Zenon
<1>4. SUFFICES ASSUME HealthIndicator(n) > HealthIndicator(m) PROVE FALSE
  BY <1>3
<1>5. HealthIndicator(n) >= HealthIndicator(m) + 25
  BY <1>1, <1>4, DegreeGap, Zenon
<1>6. CASE strategy = "spread"
  <2>1. ~(Weight(c, n, -1) < Weight(c, m, -1))
    BY <1>6, Zenon DEF First, Spread, Before
  <2>2. /\ Weight(c, n, -1) = cpu(n) + mem(n) + (-1) * 10 * HealthIndicator(n)
        /\ Weight(c, m, -1) = cpu(m) + mem(m) + (-1) * 10 * HealthIndicator(m)
    BY Zenon DEF Weight
  <2>3. cpu(n) + mem(n) + (-1) * 10 * HealthIndicator(n)
          < cpu(m) + mem(m) + (-1) * 10 * HealthIndicator(m)
    <3>. HIDE DEF cpu, mem
    <3>. QED  BY <1>2, <1>3, <1>5, LoadIsLight, ZenonT(60)
  <2>. QED  BY <2>1, <2>2, <2>3, Zenon
<1>7. CASE strategy = "binpack"
  <2>1. ~(Weight(c, m, 1) < Weight(c, n, 1))
    BY <1>7, Zenon DEF First, Binpack, Before
  <2>2. /\ Weight(c, n, 1) = cpu(n) + mem(n) + 1 * 10 * HealthIndicator(n)
        /\ Weight(c, m, 1) = cpu(m) + mem(m) + 1 * 10 * HealthIndicator(m)
    BY Zenon DEF Weight
  <2>3. cpu(m) + mem(m) + 1 * 10 * HealthIndicator(m)
          < cpu(n) + mem(n) + 1 * 10 * HealthIndicator(n)
    <3>. HIDE DEF cpu, mem
    <3>. QED  BY <1>2, <1>3, <1>5, LoadIsLight, ZenonT(60)
  <2>. QED  BY <2>1, <2>2, <2>3, Zenon
<1>. QED  BY <1>6, <1>7, Zenon

-----------------------------------------------------------------------------
(* The loops that append.  A recursive function is known by its equation   *)
(* once a function that satisfies it exists, which is an induction over    *)
(* the length.                                                             *)

\* what the loop of Pick appends at i
PickStep(f, s, keep, i) ==
  IF i = 0 THEN <<>>
  ELSE IF i \in keep THEN Append(f[i - 1], s[i]) ELSE f[i - 1]

\* A function that satisfies the equation of the loop exists,
LEMMA PickExists ==
  ASSUME NEW s, NEW keep
  PROVE  \A n \in Nat : \E f : f = [i \in 0..n |-> PickStep(f, s, keep, i)]
<1>. DEFINE S == {n \in Nat : \E f : f = [i \in 0..n |-> PickStep(f, s, keep, i)]}
<1>1. 0 \in S
  <2>. DEFINE f == [i \in 0..0 |-> <<>>]
  <2>1. f = [i \in 0..0 |-> PickStep(f, s, keep, i)]
    BY DEF PickStep
  <2>. QED  BY <2>1, Zenon
<1>2. ASSUME NEW n \in Nat, n \in S PROVE n + 1 \in S
  <2>1. PICK f : f = [i \in 0..n |-> PickStep(f, s, keep, i)]
    BY <1>2, Zenon
  <2>. DEFINE g == [i \in 0..(n + 1) |-> IF i = n + 1 THEN PickStep(f, s, keep, n + 1) ELSE f[i]]
  <2>2. \A i \in 0..(n + 1) : g[i] = PickStep(g, s, keep, i)
    <3>1. \A i \in 0..n : g[i] = f[i] /\ f[i] = PickStep(f, s, keep, i)
      BY <2>1
    <3>2. g[n + 1] = PickStep(f, s, keep, n + 1)
      OBVIOUS
    <3>. HIDE DEF g
    <3>. QED  BY <3>1, <3>2 DEF PickStep
  <2>3. g = [i \in 0..(n + 1) |-> PickStep(g, s, keep, i)]
    BY <2>2, Zenon
  <2>4. \E h : h = [i \in 0..(n + 1) |-> PickStep(h, s, keep, i)]
    <3>. HIDE DEF g
    <3>. QED  BY <2>3, Zenon
  <2>. QED  BY <2>4
<1>3. Nat \subseteq S
  <2>. HIDE DEF S
  <2>. QED  BY <1>1, <1>2, SetInduction, Zenon
<1>. QED  BY <1>3, Zenon

\* so that Pick is what such a function says at the end.
LEMMA PickFunction ==
  ASSUME NEW s, Len(s) \in Nat, NEW keep
  PROVE  \E f : /\ f = [i \in 0..Len(s) |-> PickStep(f, s, keep, i)]
                /\ Pick(s, keep) = f[Len(s)]
<1>. DEFINE f == CHOOSE h : h = [i \in 0..Len(s) |-> PickStep(h, s, keep, i)]
<1>1. f = [i \in 0..Len(s) |-> PickStep(f, s, keep, i)]
  BY PickExists
<1>2. Pick(s, keep) = f[Len(s)]
  BY Zenon DEF Pick, PickStep
<1>. QED  BY <1>1, <1>2, Zenon

\* Append adds one element.
LEMMA AppendElements ==
  ASSUME NEW X, NEW s \in Seq(X), NEW x \in X
  PROVE  Elements(Append(s, x)) = Elements(s) \cup {x}
<1>1. DOMAIN s = 1..Len(s) /\ DOMAIN Append(s, x) = 1..(Len(s) + 1)
  OBVIOUS
<1>2. \A i \in 1..Len(s) : Append(s, x)[i] = s[i]
  OBVIOUS
<1>3. Append(s, x)[Len(s) + 1] = x /\ Len(s) \in Nat
  OBVIOUS
<1>4. 1..(Len(s) + 1) = (1..Len(s)) \cup {Len(s) + 1}
  BY <1>3
<1>. HIDE DEF Elements
<1>. QED  BY <1>1, <1>2, <1>3, <1>4, ZenonT(60) DEF Elements

\* The loops of config.go keep the entries at the indices, and no others.
LEMMA PickElements ==
  ASSUME NEW X, NEW s \in Seq(X), NEW keep
  PROVE  /\ Pick(s, keep) \in Seq(X)
         /\ Elements(Pick(s, keep)) = {s[j] : j \in (1..Len(s)) \cap keep}
<1>1. PICK f : /\ f = [i \in 0..Len(s) |-> PickStep(f, s, keep, i)]
               /\ Pick(s, keep) = f[Len(s)]
  BY PickFunction
<1>. DEFINE S == {i \in Nat : i <= Len(s) =>
                    f[i] \in Seq(X) /\ Elements(f[i]) = {s[j] : j \in (1..i) \cap keep}}
<1>2. \A i \in 0..Len(s) : f[i] = PickStep(f, s, keep, i)
  BY <1>1, Zenon
<1>3. 0 \in S
  <2>0. 0 \in 0..Len(s)
    OBVIOUS
  <2>1. f[0] = <<>>
    BY <1>2, <2>0, Zenon DEF PickStep
  <2>2. Elements(f[0]) = {} /\ (1..0) \cap keep = {}
    BY <2>1 DEF Elements
  <2>3. f[0] \in Seq(X) /\ Elements(f[0]) = {s[j] : j \in (1..0) \cap keep}
    <3>1. <<>> \in Seq(X)
      OBVIOUS
    <3>. QED  BY <2>1, <2>2, <3>1, Zenon
  <2>. QED  BY <2>3, Zenon
<1>4. ASSUME NEW n \in Nat, n \in S PROVE n + 1 \in S
  <2>1. SUFFICES ASSUME n + 1 <= Len(s)
                 PROVE  /\ f[n + 1] \in Seq(X)
                        /\ Elements(f[n + 1]) = {s[j] : j \in (1..(n + 1)) \cap keep}
    OBVIOUS
  <2>2. f[n] \in Seq(X) /\ Elements(f[n]) = {s[j] : j \in (1..n) \cap keep}
    BY <1>4, <2>1
  <2>3. f[n + 1] = IF n + 1 \in keep THEN Append(f[n], s[n + 1]) ELSE f[n]
    BY <1>2, <2>1 DEF PickStep
  <2>4. CASE n + 1 \in keep
    <3>1. s[n + 1] \in X
      BY <2>1
    <3>2. f[n + 1] \in Seq(X) /\ Elements(f[n + 1]) = Elements(f[n]) \cup {s[n + 1]}
      BY <2>2, <2>3, <2>4, <3>1, AppendElements
    <3>3. {s[j] : j \in (1..(n + 1)) \cap keep} = {s[j] : j \in (1..n) \cap keep} \cup {s[n + 1]}
      BY <2>4
    <3>. QED  BY <2>2, <3>2, <3>3, Zenon
  <2>5. CASE n + 1 \notin keep
    <3>1. (1..(n + 1)) \cap keep = (1..n) \cap keep
      BY <2>5
    <3>. QED  BY <2>2, <2>3, <2>5, <3>1, Zenon
  <2>. QED  BY <2>4, <2>5, Zenon
<1>5. Nat \subseteq S
  <2>. HIDE DEF S
  <2>. QED  BY <1>3, <1>4, SetInduction, Zenon
<1>6. Len(s) \in Nat
  OBVIOUS
<1>7. /\ f[Len(s)] \in Seq(X)
      /\ Elements(f[Len(s)]) = {s[j] : j \in (1..Len(s)) \cap keep}
  <2>1. Len(s) \in S
    <3>. HIDE DEF S
    <3>. QED  BY <1>5, <1>6, Zenon
  <2>2. Len(s) <= Len(s)
    BY <1>6
  <2>. QED  BY <2>1, <2>2, ZenonT(60)
<1>. QED  BY <1>1, <1>7, ZenonT(60)

\* An entry at the end that is not kept makes no difference.
LEMMA PickAppend ==
  ASSUME NEW X, NEW s \in Seq(X), NEW x \in X, NEW keep, Len(s) + 1 \notin keep
  PROVE  Pick(Append(s, x), keep) = Pick(s, keep)
<1>. DEFINE t == Append(s, x)
<1>0. t \in Seq(X) /\ Len(t) = Len(s) + 1 /\ \A i \in 1..Len(s) : t[i] = s[i]
  OBVIOUS
<1>. HIDE DEF t
<1>1. PICK f : /\ f = [i \in 0..Len(s) |-> PickStep(f, s, keep, i)]
               /\ Pick(s, keep) = f[Len(s)]
  BY PickFunction
<1>2. PICK g : /\ g = [i \in 0..Len(t) |-> PickStep(g, t, keep, i)]
               /\ Pick(t, keep) = g[Len(t)]
  BY PickFunction, <1>0
<1>. DEFINE S == {i \in Nat : i <= Len(s) => f[i] = g[i]}
<1>8. /\ \A i \in 0..Len(s) : f[i] = PickStep(f, s, keep, i)
      /\ \A i \in 0..Len(t) : g[i] = PickStep(g, t, keep, i)
  BY <1>1, <1>2, Zenon
<1>3. 0 \in S
  BY <1>0, <1>8 DEF PickStep
<1>4. ASSUME NEW n \in Nat, n \in S PROVE n + 1 \in S
  <2>1. SUFFICES ASSUME n + 1 <= Len(s) PROVE f[n + 1] = g[n + 1]
    OBVIOUS
  <2>2. f[n] = g[n] /\ t[n + 1] = s[n + 1]
    BY <1>0, <1>4, <2>1
  <2>3. f[n + 1] = PickStep(f, s, keep, n + 1) /\ g[n + 1] = PickStep(g, t, keep, n + 1)
    BY <1>0, <1>8, <2>1
  <2>4. n + 1 # 0 /\ (n + 1) - 1 = n
    OBVIOUS
  <2>. QED  BY <2>2, <2>3, <2>4, Zenon DEF PickStep
<1>5. Nat \subseteq S
  <2>. HIDE DEF S
  <2>. QED  BY <1>3, <1>4, SetInduction, Zenon
<1>6. g[Len(t)] = g[Len(s)]
  <2>1. g[Len(s) + 1] = PickStep(g, t, keep, Len(s) + 1)
    BY <1>0, <1>8
  <2>2. Len(s) + 1 # 0 /\ (Len(s) + 1) - 1 = Len(s)
    OBVIOUS
  <2>. QED  BY <1>0, <2>1, <2>2, Zenon DEF PickStep
<1>7. Len(s) \in S
  BY <1>5
<1>. QED  BY <1>1, <1>2, <1>6, <1>7 DEF t

-----------------------------------------------------------------------------
(* Sequences, whatever their elements.                                     *)

\* A sequence is one over its own elements, however unlike they are;
LEMMA SeqElements ==
  ASSUME NEW s
  PROVE  IsSeq(s) <=> s \in Seq(Elements(s))
<1>1. ASSUME IsSeq(s) PROVE s \in Seq(Elements(s))
  <2>1. s \in [1..Len(s) -> Elements(s)] /\ Len(s) \in Nat
    BY <1>1, Zenon DEF IsSeq, Elements
  <2>. QED  BY <2>1, SeqDef, ZenonT(60)
<1>2. ASSUME NEW X, s \in Seq(X) PROVE IsSeq(s)
  BY <1>2 DEF IsSeq
<1>. QED  BY <1>1, <1>2, Zenon

\* and so is a sequence over any set.
LEMMA SeqIsSeq ==
  ASSUME NEW X, NEW s \in Seq(X)
  PROVE  IsSeq(s)
<1>1. s \in [1..Len(s) -> Elements(s)] /\ Len(s) \in Nat
  BY DEF Elements
<1>. QED  BY <1>1, SeqElements, SeqDef, ZenonT(60)

\* What Append does to such a sequence,
LEMMA AppendSeq ==
  ASSUME NEW s, IsSeq(s), NEW x
  PROVE  /\ IsSeq(Append(s, x))
         /\ Elements(Append(s, x)) = Elements(s) \cup {x}
         /\ Len(Append(s, x)) = Len(s) + 1
         /\ StartsWith(s, Append(s, x))
         /\ \A i \in 1..Len(s) : Append(s, x)[i] = s[i]
         /\ Append(s, x)[Len(s) + 1] = x
<1>1. PICK X : s \in Seq(X) /\ x \in X
  <2>1. s \in Seq(Elements(s) \cup {x}) /\ x \in Elements(s) \cup {x}
    BY SeqElements, SeqMonotonic, Zenon
  <2>. QED  BY <2>1, Zenon
<1>2. Append(s, x) \in Seq(X) /\ Len(Append(s, x)) = Len(s) + 1
  BY <1>1
<1>3. SubSeq(s, 1, Len(s)) = SubSeq(Append(s, x), 1, Len(s))
  BY <1>1, <1>2
<1>4. Len(s) \in Nat
  BY <1>1
<1>5. StartsWith(s, Append(s, x))
  BY <1>2, <1>3, <1>4 DEF StartsWith
<1>6. IsSeq(Append(s, x))
  BY <1>2, SeqIsSeq, Zenon
<1>7. Elements(Append(s, x)) = Elements(s) \cup {x}
  BY <1>1, AppendElements, SMTT(60)
<1>8. (\A i \in 1..Len(s) : Append(s, x)[i] = s[i]) /\ Append(s, x)[Len(s) + 1] = x
  BY <1>1
<1>. QED  BY <1>2, <1>5, <1>6, <1>7, <1>8, Zenon

\* and to one that already has a prefix.
LEMMA AppendPrefix ==
  ASSUME NEW s, IsSeq(s), NEW t, IsSeq(t), StartsWith(s, t), NEW x
  PROVE  StartsWith(s, Append(t, x))
<1>1. PICK X : t \in Seq(X) /\ x \in X
  <2>1. t \in Seq(Elements(t) \cup {x}) /\ x \in Elements(t) \cup {x}
    BY SeqElements, SeqMonotonic, Zenon
  <2>. QED  BY <2>1, Zenon
<1>2. /\ Len(s) \in Nat /\ Len(s) <= Len(t)
      /\ SubSeq(s, 1, Len(s)) = SubSeq(t, 1, Len(s))
  BY SeqElements DEF StartsWith
<1>3. SubSeq(t, 1, Len(s)) = SubSeq(Append(t, x), 1, Len(s))
  BY <1>1, <1>2
<1>4. Len(Append(t, x)) = Len(t) + 1 /\ Len(t) \in Nat
  BY <1>1
<1>5. Len(s) <= Len(Append(t, x))
  BY <1>2, <1>4
<1>. QED  BY <1>2, <1>3, <1>5, Zenon DEF StartsWith

\* what RemoveAffinity leaves when AddAffinity has added the same before
LEMMA RemoveAdded ==
  ASSUME NEW s, IsSeq(s), NEW x
  PROVE  LET t == Append(s, x)
         IN Pick(t, {i \in DOMAIN t : t[i] # x}) = Pick(s, {i \in DOMAIN s : s[i] # x})
<1>1. PICK X : s \in Seq(X) /\ x \in X
  <2>1. s \in Seq(Elements(s) \cup {x}) /\ x \in Elements(s) \cup {x}
    BY SeqElements, SeqMonotonic, Zenon
  <2>. QED  BY <2>1, Zenon
<1>. DEFINE keep == {i \in DOMAIN s : s[i] # x}
            t == Append(s, x)
<1>2. /\ DOMAIN s = 1..Len(s) /\ DOMAIN t = 1..(Len(s) + 1) /\ Len(s) \in Nat
      /\ t[Len(s) + 1] = x /\ \A i \in 1..Len(s) : t[i] = s[i]
  BY <1>1
<1>3. {i \in DOMAIN t : t[i] # x} = keep /\ Len(s) + 1 \notin keep
  <2>. HIDE DEF t
  <2>. QED  BY <1>2
<1>4. Pick(t, keep) = Pick(s, keep)
  <2>. HIDE DEF keep
  <2>. QED  BY <1>1, <1>3, PickAppend, SMTT(60)
<1>. QED  BY <1>3, <1>4, Zenon

\* What Pick does to it,
LEMMA PickSeq ==
  ASSUME NEW s, IsSeq(s), NEW keep
  PROVE  /\ IsSeq(Pick(s, keep))
         /\ Elements(Pick(s, keep)) = {s[j] : j \in DOMAIN s \cap keep}
<1>1. s \in Seq(Elements(s)) /\ DOMAIN s = 1..Len(s)
  BY SeqElements
<1>. QED  BY <1>1, PickElements, SeqIsSeq, Zenon

\* and concatenation.
LEMMA ConcatSeq ==
  ASSUME NEW s, IsSeq(s), NEW t, IsSeq(t)
  PROVE  IsSeq(s \o t) /\ (t = <<>> => s \o t = s)
<1>. DEFINE X == Elements(s) \cup Elements(t)
<1>1. s \in Seq(X) /\ t \in Seq(X)
  BY SeqElements, SeqMonotonic, Zenon
<1>. HIDE DEF X
<1>2. s \o t \in Seq(X)
  BY <1>1
<1>3. t = <<>> => s \o t = s
  BY <1>1
<1>. QED  BY <1>2, <1>3, SeqIsSeq, Zenon

-----------------------------------------------------------------------------
(* Configurations.                                                         *)

\* extractExprs returns a list, whatever the label says.
LEMMA ExprsSeq ==
  ASSUME NEW c, IsConfig(c), NEW k \in Kinds
  PROVE  IsSeq(Exprs(c, k))
<1>1. IsSeq(<<>>)
  BY EmptySeq, SeqIsSeq, Zenon
<1>. QED  BY <1>1, Zenon DEF Exprs, extractExprs, IsConfig

\* d is c with other expressions of one kind
OneSet(c, d, k, exprs) ==
  /\ IsConfig(d)
  /\ d.env = c.env /\ d.image = c.image /\ d.network = c.network /\ d.deps = c.deps
  /\ d.cpus = c.cpus /\ d.memory = c.memory
  /\ Exprs(d, k) = exprs
  /\ \A j \in Kinds \ {k} : Exprs(d, j) = Exprs(c, j)

\* Writing the expressions of one kind leaves everything else alone, and they
\* can be read again.
LEMMA SetExprsFields ==
  ASSUME NEW c, IsConfig(c), NEW k \in Kinds, NEW exprs, IsSeq(exprs)
  PROVE  OneSet(c, SetExprs(c, k, exprs), k, exprs)
<1>. DEFINE d == SetExprs(c, k, exprs)
<1>. DEFINE labels == [c.labels EXCEPT ![k] = Marshal(exprs)]
<1>1. d = [env |-> c.env, labels |-> labels, image |-> c.image, network |-> c.network,
           bare |-> c.bare, deps |-> c.deps, cpus |-> c.cpus, memory |-> c.memory]
  <2>1. d = [c EXCEPT !.labels = labels]
    BY Zenon DEF SetExprs
  <2>2. c = [env |-> c.env, labels |-> c.labels, image |-> c.image, network |-> c.network,
             bare |-> c.bare, deps |-> c.deps, cpus |-> c.cpus, memory |-> c.memory]
    BY ZenonT(60) DEF IsConfig
  <2>. HIDE DEF d, labels
  <2>. QED  BY <2>1, <2>2, SMTT(60)
<1>. HIDE DEF d
<1>2. /\ labels = [j \in Kinds |-> labels[j]]
      /\ labels[k] = Marshal(exprs)
      /\ \A j \in Kinds \ {k} : labels[j] = c.labels[j]
  BY Zenon DEF IsConfig
<1>. HIDE DEF labels
<1>3. /\ d.env = c.env /\ d.image = c.image /\ d.deps = c.deps
      /\ d.cpus = c.cpus /\ d.memory = c.memory
      /\ d.network = c.network /\ d.bare = c.bare
      /\ d.labels = labels
  BY <1>1, Zenon
<1>4. /\ \A j \in Kinds : labels[j] = [form |-> labels[j].form, exprs |-> labels[j].exprs]
      /\ labels[k].exprs = exprs /\ labels[k].form = "list"
  <2>1. ASSUME NEW j \in Kinds
        PROVE  c.labels[j] = [form |-> c.labels[j].form, exprs |-> c.labels[j].exprs]
    BY Zenon DEF IsConfig
  <2>2. /\ Marshal(exprs) = [form |-> Marshal(exprs).form, exprs |-> Marshal(exprs).exprs]
        /\ Marshal(exprs).exprs = exprs /\ Marshal(exprs).form = "list"
    BY SMTT(60) DEF Marshal
  <2>. QED  BY <1>2, <2>1, <2>2, Zenon
<1>5. IsConfig(d)
  <2>1. d = [env |-> d.env, labels |-> d.labels, image |-> d.image, network |-> d.network,
             bare |-> d.bare, deps |-> d.deps, cpus |-> d.cpus, memory |-> d.memory]
    BY <1>1, <1>3, Zenon
  <2>2. d.labels = [j \in Kinds |->
                     [form |-> d.labels[j].form, exprs |-> d.labels[j].exprs]]
    BY <1>2, <1>3, <1>4, Zenon
  <2>3. IsSeq(d.env)
    BY <1>3, Zenon DEF IsConfig
  <2>4. ASSUME NEW j \in Kinds
        PROVE  IsSeq(d.labels[j].exprs)
    BY <1>2, <1>3, <1>4, Zenon DEF IsConfig
  <2>. QED  BY <2>1, <2>2, <2>3, <2>4, Zenon DEF IsConfig
<1>6. /\ Exprs(d, k) = exprs
      /\ \A j \in Kinds \ {k} : Exprs(d, j) = Exprs(c, j)
  BY <1>2, <1>3, <1>4, Zenon DEF Exprs, extractExprs
<1>7. OneSet(c, d, k, exprs)
  BY <1>3, <1>5, <1>6, Zenon DEF OneSet
<1>. QED  BY <1>7, Zenon DEF d

\* parseEnv finds a list; it is empty if the environment has nothing of that
\* kind.
LEMMA OfKindSeq ==
  ASSUME NEW env, IsSeq(env), NEW k
  PROVE  /\ IsSeq(OfKind(env, k))
         /\ (\A i \in DOMAIN env : env[i].kind # k) => OfKind(env, k) = <<>>
<1>. DEFINE these == Pick(env, {i \in DOMAIN env : env[i].kind = k})
<1>1. /\ IsSeq(these)
      /\ Elements(these) = {env[j] : j \in DOMAIN env \cap {i \in DOMAIN env : env[i].kind = k}}
  BY PickSeq, Zenon
<1>2. OfKind(env, k) = [i \in DOMAIN these |-> these[i].value]
  BY Zenon DEF OfKind
<1>. HIDE DEF these
<1>3. DOMAIN these = 1..Len(these) /\ Len(these) \in Nat
  BY SeqElements, <1>1
<1>4. OfKind(env, k) \in Seq({these[i].value : i \in DOMAIN these})
  <2>1. OfKind(env, k) \in [1..Len(these) -> {these[i].value : i \in DOMAIN these}]
    BY <1>2, <1>3, Zenon
  <2>. QED  BY <1>3, <2>1, SeqDef, ZenonT(60)
<1>5. ASSUME \A i \in DOMAIN env : env[i].kind # k
      PROVE  OfKind(env, k) = <<>>
  <2>1. Elements(these) = {}
    BY <1>1, <1>5, Zenon
  <2>2. DOMAIN these = {}
    BY <2>1, Zenon DEF Elements
  <2>3. DOMAIN OfKind(env, k) = {}
    BY <1>2, <2>2, Zenon
  <2>. QED  BY <1>4, <2>3
<1>. QED  BY <1>4, <1>5, SeqIsSeq, Zenon

\* BuildContainerConfig moves the expressions of the environment to the
\* labels, and does nothing to what it has built
NoneInEnv(c) == \A i \in DOMAIN c.env : c.env[i].kind \notin Kinds

\* what BuildContainerConfig makes of c
Built(c, b) ==
  /\ IsConfig(b) /\ NoneInEnv(b) /\ b.cpus = c.cpus /\ b.memory = c.memory
  /\ NoneInEnv(c) => \A k \in Kinds : Exprs(b, k) = Exprs(c, k)

\* It is such a configuration.
LEMMA BuildFields ==
  ASSUME NEW c, IsConfig(c)
  PROVE  Built(c, BuildContainerConfig(c))
<1>. DEFINE b == BuildContainerConfig(c)
<1>. DEFINE idx == {i \in DOMAIN c.env : c.env[i].kind \notin Kinds}
            env == Pick(c.env, idx)
            labels == MovedToLabels(c)
<1>1. b = [env |-> env, labels |-> labels, image |-> c.image, network |-> c.network,
           bare |-> c.bare, deps |-> c.deps, cpus |-> c.cpus, memory |-> c.memory]
  <2>. DEFINE moved == [c EXCEPT !.labels = labels]
  <2>1. b = [moved EXCEPT !.env = env]
    BY Zenon DEF BuildContainerConfig
  <2>2. moved = [env |-> c.env, labels |-> labels, image |-> c.image,
                 network |-> c.network, bare |-> c.bare, deps |-> c.deps,
                 cpus |-> c.cpus, memory |-> c.memory]
    <3>. HIDE DEF labels
    <3>1. c = [env |-> c.env, labels |-> c.labels, image |-> c.image,
               network |-> c.network, bare |-> c.bare, deps |-> c.deps,
               cpus |-> c.cpus, memory |-> c.memory]
      BY ZenonT(60) DEF IsConfig
    <3>. QED  BY <3>1, SMTT(60)
  <2>. HIDE DEF moved, labels, env
  <2>. QED  BY <2>1, <2>2, Zenon
<1>. HIDE DEF b
<1>2. IsSeq(c.env)
  BY Zenon DEF IsConfig
<1>3. IsSeq(env) /\ Elements(env) = {c.env[j] : j \in DOMAIN c.env \cap idx}
  <2>. HIDE DEF idx
  <2>. QED  BY <1>2, PickSeq, Zenon
<1>4. \A i \in DOMAIN env : env[i].kind \notin Kinds
  <2>1. \A i \in DOMAIN env : env[i] \in Elements(env)
    BY Zenon DEF Elements
  <2>. HIDE DEF env
  <2>. QED  BY <1>3, <2>1, Zenon
<1>5. ASSUME NEW k \in Kinds
      PROVE  /\ labels[k] = [form |-> labels[k].form, exprs |-> labels[k].exprs]
             /\ IsSeq(labels[k].exprs)
             /\ (\A i \in DOMAIN c.env : c.env[i].kind \notin Kinds) =>
                  extractExprs(labels[k]) = Exprs(c, k)
  <2>. DEFINE all == Exprs(c, k) \o OfKind(c.env, k)
  <2>1. labels[k] = IF all = <<>> THEN c.labels[k] ELSE Marshal(all)
    BY Zenon DEF MovedToLabels, Exprs
  <2>2. /\ c.labels[k] = [form |-> c.labels[k].form, exprs |-> c.labels[k].exprs]
        /\ IsSeq(c.labels[k].exprs)
    BY Zenon DEF IsConfig
  <2>3. /\ IsSeq(all)
        /\ (\A i \in DOMAIN c.env : c.env[i].kind \notin Kinds) => all = Exprs(c, k)
    BY <1>2, ExprsSeq, OfKindSeq, ConcatSeq, Zenon
  <2>4. /\ Marshal(all) = [form |-> Marshal(all).form, exprs |-> Marshal(all).exprs]
        /\ Marshal(all).exprs = all /\ Marshal(all).form = "list"
    <3>. HIDE DEF all
    <3>. QED  BY SMTT(60) DEF Marshal
  <2>. HIDE DEF all, labels
  <2>. QED  BY <2>1, <2>2, <2>3, <2>4, Zenon DEF Exprs, extractExprs
<1>6. labels = [k \in Kinds |-> labels[k]]
  BY Zenon DEF MovedToLabels
<1>. HIDE DEF labels, env, idx
<1>7. /\ b.env = env /\ b.labels = labels
      /\ b.image = c.image /\ b.deps = c.deps /\ b.cpus = c.cpus /\ b.memory = c.memory
      /\ b.network = c.network /\ b.bare = c.bare
  BY <1>1, Zenon
<1>8. IsConfig(b)
  <2>1. b = [env |-> b.env, labels |-> b.labels, image |-> b.image, network |-> b.network,
             bare |-> b.bare, deps |-> b.deps, cpus |-> b.cpus, memory |-> b.memory]
    BY <1>1, <1>7, Zenon
  <2>2. labels = [j \in Kinds |-> [form |-> labels[j].form, exprs |-> labels[j].exprs]]
    BY <1>5, <1>6, Zenon
  <2>. QED  BY <1>3, <1>5, <1>7, <2>1, <2>2, Zenon DEF IsConfig
<1>9. (\A i \in DOMAIN c.env : c.env[i].kind \notin Kinds) =>
        \A k \in Kinds : Exprs(b, k) = Exprs(c, k)
  BY <1>5, <1>7, Zenon DEF Exprs
<1>10. Built(c, b)
  BY <1>4, <1>7, <1>8, <1>9, Zenon DEF Built, NoneInEnv
<1>. QED  BY <1>10, Zenon DEF b

-----------------------------------------------------------------------------
(* The selection.                                                          *)

\* An expression filter leaves the nodes that match every expression it looks
\* at, and none if one of them is invalid.
LEMMA ExprFilterMeets ==
  ASSUME NEW c, NEW kindOf \in Kinds \ {"policies"}, NEW ns, NEW isSoft \in BOOLEAN,
         NEW n
  PROVE  n \in ExprFilter(c, kindOf, ns, isSoft) <=>
           /\ n \in ns
           /\ \A x \in Elements(Exprs(c, kindOf)) :
                /\ x.valid
                /\ (x.soft /\ ~isSoft)
                   \/ CASE kindOf = "affinities" -> AffinityMatch(n, x)
                        [] kindOf = "constraints" -> ConstraintMatch(n, x)
                        [] kindOf = "whitelists" -> WhitelistMatch(n, x)
  BY Zenon DEF ExprFilter, parseExprs

\* What all filters together leave.
LEMMA Filtered ==
  ASSUME NEW c, NEW isSoft \in BOOLEAN, NEW n
  PROVE  n \in ApplyFilters(c, isSoft) <=>
           /\ n \in Nodes /\ HealthIndicator(n) > 0
           /\ c.deps \subseteq {d.name : d \in node[n].containers}
           /\ \A x \in Elements(Exprs(c, "affinities")) :
                x.valid /\ ((x.soft /\ ~isSoft) \/ AffinityMatch(n, x))
           /\ \A x \in Elements(Exprs(c, "constraints")) :
                x.valid /\ ((x.soft /\ ~isSoft) \/ ConstraintMatch(n, x))
           /\ \A x \in Elements(Exprs(c, "whitelists")) :
                x.valid /\ ((x.soft /\ ~isSoft) \/ WhitelistMatch(n, x))
<1>. DEFINE independent == DependencyFilter(c, HealthFilter(Nodes))
            affine == ExprFilter(c, "affinities", independent, isSoft)
            fit == ExprFilter(c, "constraints", affine, isSoft)
<1>1. n \in ApplyFilters(c, isSoft) <=> n \in ExprFilter(c, "whitelists", fit, isSoft)
  BY Zenon DEF ApplyFilters, AffinityFilter, ConstraintFilter, WhitelistFilter
<1>2. n \in independent <=>
        /\ n \in Nodes /\ HealthIndicator(n) > 0
        /\ c.deps \subseteq {d.name : d \in node[n].containers}
  BY Zenon DEF DependencyFilter, HealthFilter
<1>. HIDE DEF independent
<1>3. n \in affine <=>
        /\ n \in independent
        /\ \A x \in Elements(Exprs(c, "affinities")) :
             x.valid /\ ((x.soft /\ ~isSoft) \/ AffinityMatch(n, x))
  BY ExprFilterMeets, Zenon DEF Kinds
<1>. HIDE DEF affine
<1>4. n \in fit <=>
        /\ n \in affine
        /\ \A x \in Elements(Exprs(c, "constraints")) :
             x.valid /\ ((x.soft /\ ~isSoft) \/ ConstraintMatch(n, x))
  BY ExprFilterMeets, Zenon DEF Kinds
<1>. HIDE DEF fit
<1>5. n \in ExprFilter(c, "whitelists", fit, isSoft) <=>
        /\ n \in fit
        /\ \A x \in Elements(Exprs(c, "whitelists")) :
             x.valid /\ ((x.soft /\ ~isSoft) \/ WhitelistMatch(n, x))
  BY ExprFilterMeets, Zenon DEF Kinds
<1>. QED  BY <1>1, <1>2, <1>3, <1>4, <1>5, Zenon

\* SelectNodesForContainer, with soft expressions or without, returns a
\* healthy node that matches every hard expression.
LEMMA SelectedMeets ==
  ASSUME strategy \in {"spread", "binpack", "random"}, NEW c,
         NEW n \in SelectNodesForContainer(c).nodes
  PROVE  /\ n \in Nodes /\ HealthIndicator(n) > 0
         /\ c.deps \subseteq {d.name : d \in node[n].containers}
         /\ \A x \in Hard(Exprs(c, "affinities")) : x.valid /\ AffinityMatch(n, x)
         /\ \A x \in Hard(Exprs(c, "constraints")) : x.valid /\ ConstraintMatch(n, x)
         /\ \A x \in Hard(Exprs(c, "whitelists")) : x.valid /\ WhitelistMatch(n, x)
         /\ strategy = "random" \/ Fits(c, n)
<1>1. PICK isSoft \in BOOLEAN : n \in First(c, ApplyFilters(c, isSoft))
  <2>1. CASE First(c, ApplyFilters(c, TRUE)) # {}
    BY <2>1, Zenon DEF SelectNodesForContainer
  <2>2. CASE First(c, ApplyFilters(c, TRUE)) = {}
    BY <2>2, Zenon DEF SelectNodesForContainer
  <2>. QED  BY <2>1, <2>2, Zenon
<1>2. n \in ApplyFilters(c, isSoft) /\ (strategy = "random" \/ Fits(c, n))
  BY <1>1, FirstFits, Zenon
<1>. QED  BY <1>2, Filtered, Zenon DEF Hard

\* Resolving the network adds at most one soft constraint on the node.
LEMMA NetworkFields ==
  ASSUME NEW b, IsConfig(b), NEW c \in WithNetwork(b)
  PROVE  /\ IsConfig(c)
         /\ c.env = b.env /\ c.image = b.image /\ c.network = b.network /\ c.deps = b.deps
         /\ c.cpus = b.cpus /\ c.memory = b.memory
         /\ \A k \in Kinds \ {"constraints"} : Exprs(c, k) = Exprs(b, k)
         /\ \/ Exprs(c, "constraints") = Exprs(b, "constraints")
            \/ /\ b.network # None /\ ~HaveNodeConstraint(b)
               /\ Exprs(c, "constraints")
                    = Append(Exprs(b, "constraints"), Equal("node", {b.network}, TRUE))
<1>. DEFINE x == Equal("node", {b.network}, TRUE)
            found == IF HaveNodeConstraint(b) THEN b ELSE AddConstraint(b, x)
<1>1. c # b => b.network # None
  BY Zenon DEF WithNetwork
<1>. HIDE DEF x
<1>2. /\ IsConfig(found) /\ found.network = b.network
      /\ found.env = b.env /\ found.image = b.image /\ found.deps = b.deps
      /\ found.cpus = b.cpus /\ found.memory = b.memory
      /\ \A k \in Kinds \ {"constraints"} : Exprs(found, k) = Exprs(b, k)
      /\ \/ Exprs(found, "constraints") = Exprs(b, "constraints")
         \/ /\ ~HaveNodeConstraint(b)
            /\ Exprs(found, "constraints") = Append(Exprs(b, "constraints"), x)
  <2>1. CASE HaveNodeConstraint(b)
    BY <2>1, Zenon
  <2>2. CASE ~HaveNodeConstraint(b)
    <3>1. "constraints" \in Kinds
      BY Zenon DEF Kinds
    <3>2. IsSeq(Append(Exprs(b, "constraints"), x))
      BY <3>1, ExprsSeq, AppendSeq, Zenon
    <3>3. found = SetExprs(b, "constraints", Append(Exprs(b, "constraints"), x))
      BY <2>2, Zenon DEF AddConstraint
    <3>. HIDE DEF found
    <3>4. /\ IsConfig(found) /\ found.network = b.network
          /\ found.env = b.env /\ found.image = b.image /\ found.deps = b.deps
          /\ found.cpus = b.cpus /\ found.memory = b.memory
          /\ Exprs(found, "constraints") = Append(Exprs(b, "constraints"), x)
          /\ \A k \in Kinds \ {"constraints"} : Exprs(found, k) = Exprs(b, k)
      <4>1. OneSet(b, found, "constraints", Append(Exprs(b, "constraints"), x))
        BY <3>1, <3>2, <3>3, SetExprsFields, Zenon
      <4>. QED  BY <4>1, Zenon DEF OneSet
    <3>. QED  BY <2>2, <3>4, Zenon
  <2>. QED  BY <2>1, <2>2, Zenon
<1>3. c = b \/ c = [found EXCEPT !.bare = TRUE]
  BY Zenon DEF WithNetwork, x
<1>. HIDE DEF found
<1>4. ASSUME c = [found EXCEPT !.bare = TRUE]
      PROVE  /\ IsConfig(c) /\ c.network = found.network
             /\ c.env = found.env /\ c.image = found.image /\ c.deps = found.deps
             /\ c.cpus = found.cpus /\ c.memory = found.memory
             /\ \A k \in Kinds : Exprs(c, k) = Exprs(found, k)
  <2>1. c = [env |-> found.env, labels |-> found.labels, image |-> found.image,
             network |-> found.network, bare |-> TRUE, deps |-> found.deps,
             cpus |-> found.cpus, memory |-> found.memory]
    BY <1>2, <1>4, Zenon DEF IsConfig
  <2>2. /\ c.env = found.env /\ c.image = found.image /\ c.deps = found.deps
        /\ c.cpus = found.cpus /\ c.memory = found.memory /\ c.labels = found.labels
        /\ c.bare = TRUE /\ c.network = found.network
    BY <2>1, Zenon
  <2>3. c = [env |-> c.env, labels |-> c.labels, image |-> c.image, network |-> c.network,
             bare |-> c.bare, deps |-> c.deps, cpus |-> c.cpus, memory |-> c.memory]
    BY <2>1, <2>2, Zenon
  <2>4. IsConfig(c)
    BY <1>2, <2>2, <2>3, Zenon DEF IsConfig
  <2>. QED  BY <2>2, <2>4, Zenon DEF Exprs
<1>5. CASE c = b
  BY <1>5, Zenon
<1>6. CASE c = [found EXCEPT !.bare = TRUE]
  <2>1. \/ Exprs(c, "constraints") = Exprs(b, "constraints")
        \/ /\ ~HaveNodeConstraint(b)
           /\ Exprs(c, "constraints") = Append(Exprs(b, "constraints"), x)
    BY <1>2, <1>4, <1>6, Zenon DEF Kinds
  <2>2. \A k \in Kinds \ {"constraints"} : Exprs(c, k) = Exprs(b, k)
    BY <1>2, <1>4, <1>6, Zenon
  <2>3. CASE c # b
    BY <1>1, <1>2, <1>4, <1>6, <2>1, <2>2, <2>3, Zenon DEF x
  <2>. QED  BY <1>5, <2>3, Zenon
<1>. QED  BY <1>3, <1>5, <1>6, Zenon

-----------------------------------------------------------------------------
(* The inductive invariant.  c is what has become of the request u;        *)
Derived(c, u) ==
  /\ IsConfig(c) /\ IsConfig(u)
  /\ c.image = u.image /\ c.network = u.network
  /\ c.deps = u.deps /\ c.cpus = u.cpus /\ c.memory = u.memory
  /\ Exprs(c, "whitelists") = Exprs(u, "whitelists")
  /\ Exprs(c, "policies") = Exprs(u, "policies")
  /\ StartsWith(Exprs(u, "constraints"), Exprs(c, "constraints"))
  /\ Elements(Exprs(u, "constraints")) \subseteq Elements(Exprs(c, "constraints"))
  /\ \A i \in (Len(Exprs(u, "constraints")) + 1)..Len(Exprs(c, "constraints")) :
       Added(Exprs(c, "constraints")[i], u)

\* the affinities are the client's, until the attempt with an affinity to
\* the image takes that one away;
Without(u) == Exprs(RemoveAffinity(u, ImageAffinity(u)), "affinities")

AffinitiesKept ==
  /\ Exprs(config, "affinities") \in {Exprs(user, "affinities"), Without(user)}
  /\ (attempt \in {"request", "ostype", "first", "os"} \/ (attempt = "image" /\ chosen = None))
       => Exprs(config, "affinities") = Exprs(user, "affinities")

\* and the environment has none of the expressions any more.
PlaceInv ==
  /\ strategy \in {"spread", "binpack", "random"}
  /\ Derived(config, user)
  /\ attempt = "request" => stored = None /\ config = user
  /\ attempt \in {"request", "ostype"} => chosen = None
  /\ attempt # "request" => NoneInEnv(config)
  /\ AffinitiesKept
  /\ HardMet
  /\ LabelsKept

\* A request is what has become of it at first,
LEMMA DerivedSelf ==
  ASSUME NEW c, IsConfig(c)
  PROVE  Derived(c, c)
<1>1. StartsWith(Exprs(c, "constraints"), Exprs(c, "constraints"))
  <2>1. Len(Exprs(c, "constraints")) \in Nat
    BY SeqElements, ExprsSeq DEF Kinds
  <2>. QED  BY <2>1 DEF StartsWith
<1>2. \A i \in (Len(Exprs(c, "constraints")) + 1)..Len(Exprs(c, "constraints")) : FALSE
  <2>1. Len(Exprs(c, "constraints")) \in Nat
    BY SeqElements, ExprsSeq DEF Kinds
  <2>. QED  BY <2>1
<1>. QED  BY <1>1, <1>2, Zenon DEF Derived

\* and a constraint that CreateContainer adds keeps it so.
LEMMA DerivedAdds ==
  ASSUME NEW c, NEW u, Derived(c, u), NEW d, IsConfig(d),
         d.image = c.image, d.network = c.network,
         d.deps = c.deps, d.cpus = c.cpus, d.memory = c.memory,
         \A k \in {"whitelists", "policies"} : Exprs(d, k) = Exprs(c, k),
         \/ Exprs(d, "constraints") = Exprs(c, "constraints")
         \/ \E x : Added(x, u) /\ Exprs(d, "constraints") = Append(Exprs(c, "constraints"), x)
  PROVE  Derived(d, u)
<1>1. CASE Exprs(d, "constraints") = Exprs(c, "constraints")
  BY <1>1, Zenon DEF Derived
<1>2. ASSUME NEW x, Added(x, u),
             Exprs(d, "constraints") = Append(Exprs(c, "constraints"), x)
      PROVE  Derived(d, u)
  <2>1. IsSeq(Exprs(c, "constraints")) /\ IsSeq(Exprs(u, "constraints"))
    BY ExprsSeq, Zenon DEF Kinds, Derived
  <2>2. StartsWith(Exprs(u, "constraints"), Exprs(d, "constraints"))
    BY <1>2, <2>1, AppendPrefix, Zenon DEF Derived
  <2>3. Elements(Exprs(d, "constraints")) = Elements(Exprs(c, "constraints")) \cup {x}
    BY <1>2, <2>1, AppendSeq, Zenon
  <2>4. \A i \in (Len(Exprs(u, "constraints")) + 1)..Len(Exprs(d, "constraints")) :
          Added(Exprs(d, "constraints")[i], u)
    <3>. DEFINE mine == Exprs(u, "constraints")
                t == Exprs(c, "constraints")
    <3>1. /\ Len(Append(t, x)) = Len(t) + 1 /\ Append(t, x)[Len(t) + 1] = x
          /\ \A i \in 1..Len(t) : Append(t, x)[i] = t[i]
          /\ Len(t) \in Nat /\ Len(mine) \in Nat
      <4>. HIDE DEF t, mine
      <4>1. IsSeq(t) /\ IsSeq(mine)
        BY <2>1, Zenon DEF t, mine
      <4>2. Len(t) \in Nat /\ Len(mine) \in Nat
        BY <4>1, Zenon DEF IsSeq
      <4>3. /\ Len(Append(t, x)) = Len(t) + 1 /\ Append(t, x)[Len(t) + 1] = x
            /\ \A i \in 1..Len(t) : Append(t, x)[i] = t[i]
        BY <4>1, AppendSeq, Zenon
      <4>. QED  BY <4>2, <4>3, Zenon
    <3>2. /\ Exprs(d, "constraints") = Append(t, x)
          /\ \A i \in (Len(mine) + 1)..Len(t) : Added(t[i], u)
      BY <1>2, Zenon DEF Derived
    <3>. HIDE DEF t, mine
    <3>3. ASSUME NEW i \in (Len(mine) + 1)..Len(Append(t, x))
          PROVE  Added(Append(t, x)[i], u)
      <4>1. i = Len(t) + 1 \/ (i \in 1..Len(t) /\ i \in (Len(mine) + 1)..Len(t))
        BY <3>1
      <4>. QED  BY <1>2, <3>1, <3>2, <4>1, Zenon
    <3>. QED  BY <3>2, <3>3, Zenon DEF mine
  <2>. QED  BY <1>2, <2>2, <2>3, <2>4, Zenon DEF Derived
<1>. QED  BY <1>1, <1>2, Zenon

\* It holds of a request that comes in.
LEMMA PlaceInitInv == PlaceInit => PlaceInv
<1>. SUFFICES ASSUME PlaceInit PROVE PlaceInv
  BY Zenon
<1>1. IsConfig(config) /\ user = config
  BY RequestsAssumption, Zenon DEF PlaceInit
<1>2. Derived(config, user)
  BY <1>1, DerivedSelf, Zenon
<1>3. HardMet /\ LabelsKept
  BY PlaceAssumption, Zenon DEF PlaceInit, HardMet, LabelsKept
<1>. QED  BY <1>1, <1>2, <1>3, Zenon DEF PlaceInit, PlaceInv, AffinitiesKept

-----------------------------------------------------------------------------
(* The steps.                                                              *)

\* postContainersCreate builds the configuration.
LEMMA BuildStep == PlaceInv /\ postContainersCreate => PlaceInv'
<1>. SUFFICES ASSUME PlaceInv, postContainersCreate PROVE PlaceInv'
  BY Zenon
<1>1. /\ config' = BuildContainerConfig(config) /\ user' = config'
      /\ attempt = "request" /\ attempt' # "request" /\ chosen' = None /\ stored' = None
      /\ strategy' = strategy /\ attempt' \in {"ostype", "end"}
  BY Zenon DEF postContainersCreate, PlaceInv
<1>2. IsConfig(config') /\ NoneInEnv(config')
  BY <1>1, BuildFields, Zenon DEF PlaceInv, Derived, Built
<1>3. Derived(config, user)'
  BY <1>1, <1>2, DerivedSelf, Zenon
<1>4. HardMet' /\ LabelsKept'
  BY <1>1, PlaceAssumption, Zenon DEF HardMet, LabelsKept
<1>5. AffinitiesKept'
  BY <1>1, Zenon DEF AffinitiesKept
<1>. QED  BY <1>1, <1>2, <1>3, <1>4, <1>5, Zenon DEF PlaceInv

\* a step between two selections
LEMMA Between ==
  ASSUME PlaceInv, chosen' \notin Nodes, UNCHANGED <<strategy, user, stored>>,
         attempt' # "request", attempt' = "ostype" => chosen' = None, NoneInEnv(config)',
         Derived(config, user)', AffinitiesKept'
  PROVE  PlaceInv'
<1>1. HardMet'
  BY Zenon DEF HardMet
<1>2. LabelsKept'
  <2>1. LabelsKept /\ stored' = stored /\ user' = user
    BY Zenon DEF PlaceInv
  <2>. QED  BY <2>1, Zenon DEF LabelsKept
<1>. QED  BY <1>1, <1>2, Zenon DEF PlaceInv

\* Nodes change between two selections.
LEMMA NodeStep ==
  ASSUME PlaceInv, NEW n \in Nodes, NodeChanges(n)
  PROVE  PlaceInv'
<1>1. /\ UNCHANGED <<strategy, config, user, attempt, chosen, stored>>
      /\ chosen = None /\ attempt # "request"
  BY Zenon DEF NodeChanges
<1>2. chosen' \notin Nodes
  BY <1>1, PlaceAssumption, Zenon
<1>3. Derived(config, user)' /\ NoneInEnv(config)' /\ AffinitiesKept'
  BY <1>1, Zenon DEF PlaceInv, AffinitiesKept, Without
<1>. QED  BY <1>1, <1>2, <1>3, Between, Zenon

\* one constraint on the operating system
LEMMA OSTypeAdded ==
  ASSUME NEW c, NEW u, Derived(c, u), NEW vals \in SUBSET OSTypes,
         NEW d, d = AddConstraint(c, Equal("ostype", vals, FALSE))
  PROVE  /\ Derived(d, u) /\ d.env = c.env
         /\ Exprs(d, "affinities") = Exprs(c, "affinities")
<1>. DEFINE x == Equal("ostype", vals, FALSE)
<1>1. Added(x, u)
  BY Zenon DEF Added
<1>. HIDE DEF x
<1>2. IsSeq(Append(Exprs(c, "constraints"), x))
  BY ExprsSeq, AppendSeq, Zenon DEF Kinds, Derived
<1>3. OneSet(c, d, "constraints", Append(Exprs(c, "constraints"), x))
  BY <1>2, SetExprsFields, Zenon DEF AddConstraint, Kinds, Derived, x
<1>4. /\ IsConfig(d) /\ d.env = c.env /\ d.image = c.image /\ d.deps = c.deps
      /\ d.network = c.network /\ d.cpus = c.cpus /\ d.memory = c.memory
      /\ \A k \in {"whitelists", "policies"} : Exprs(d, k) = Exprs(c, k)
      /\ Exprs(d, "constraints") = Append(Exprs(c, "constraints"), x)
      /\ Exprs(d, "affinities") = Exprs(c, "affinities")
  BY <1>3, Zenon DEF OneSet, Kinds
<1>5. Derived(d, u)
  BY <1>1, <1>4, DerivedAdds, Zenon
<1>. QED  BY <1>4, <1>5, Zenon

\* The platforms that an engine has found are added as a constraint.
LEMMA OSTypeStep == PlaceInv /\ setOSTypeConstraint => PlaceInv'
<1>. SUFFICES ASSUME PlaceInv, setOSTypeConstraint PROVE PlaceInv'
  BY Zenon
<1>1. /\ UNCHANGED <<strategy, user, chosen, stored>>
      /\ attempt = "ostype" /\ attempt' = "first"
  BY Zenon DEF setOSTypeConstraint
<1>2. \/ config' = config
      \/ \E vals \in SUBSET OSTypes : config' = AddConstraint(config, Equal("ostype", vals, FALSE))
  BY Zenon DEF setOSTypeConstraint, GetImagePlatforms
<1>3. /\ Derived(config, user)' /\ config'.env = config.env
      /\ Exprs(config', "affinities") = Exprs(config, "affinities")
  BY <1>1, <1>2, OSTypeAdded, Zenon DEF PlaceInv
<1>4. chosen' \notin Nodes
  BY <1>1, PlaceAssumption, Zenon DEF PlaceInv
<1>5. NoneInEnv(config)' /\ AffinitiesKept'
  BY <1>1, <1>3, Zenon DEF PlaceInv, NoneInEnv, AffinitiesKept
<1>. QED  BY <1>1, <1>3, <1>4, <1>5, Between, Zenon

\* An attempt fails, and adds a constraint or goes on to the next one.
LEMMA FailedStep == PlaceInv /\ Failed => PlaceInv'
<1>. SUFFICES ASSUME PlaceInv, Failed PROVE PlaceInv'
  BY Zenon
<1>1. /\ UNCHANGED <<strategy, user, stored>>
      /\ chosen # None /\ chosen' = None
      /\ attempt' \in {"os", "image", "loop", "end"}
      /\ attempt' \in {"os", "image"} => attempt \in {"first", "os"}
  BY Zenon DEF Failed, RetryImage
<1>2. \/ config' = config
      \/ \E vals \in SUBSET OSTypes : config' = AddConstraint(config, Equal("ostype", vals, FALSE))
  BY Zenon DEF Failed
<1>3. /\ Derived(config, user)' /\ config'.env = config.env
      /\ Exprs(config', "affinities") = Exprs(config, "affinities")
  BY <1>1, <1>2, OSTypeAdded, Zenon DEF PlaceInv
<1>4. chosen' \notin Nodes
  BY <1>1, PlaceAssumption, Zenon
<1>5. NoneInEnv(config)'
  BY <1>1, <1>3, Zenon DEF PlaceInv, NoneInEnv
<1>6. AffinitiesKept'
  BY <1>1, <1>3, Zenon DEF PlaceInv, AffinitiesKept
<1>. QED  BY <1>1, <1>3, <1>4, <1>5, <1>6, Between, Zenon

\* The engine creates the container; the configuration read back from it has
\* no environment to move any more.
LEMMA CreatedStep == PlaceInv /\ Created => PlaceInv'
<1>. SUFFICES ASSUME PlaceInv, Created PROVE PlaceInv'
  BY Zenon
<1>1. /\ UNCHANGED <<strategy, config, user>>
      /\ chosen \in Nodes /\ chosen' = None /\ attempt' = "end"
      /\ stored' = BuildContainerConfig(config)
  BY Zenon DEF Created
<1>2. Derived(config, user) /\ NoneInEnv(config)
  BY <1>1, PlaceAssumption, Zenon DEF PlaceInv
<1>3. \A k \in Kinds : Exprs(stored', k) = Exprs(config, k)
  BY <1>1, <1>2, BuildFields, Zenon DEF Derived, Built
<1>4. Exprs(config, "affinities") \in {Exprs(user, "affinities"), Without(user)}
  BY Zenon DEF PlaceInv, AffinitiesKept
<1>5. LabelsKept'
  <2>1. /\ Exprs(stored', "policies") = Exprs(user, "policies")
        /\ Exprs(stored', "whitelists") = Exprs(user, "whitelists")
    BY <1>2, <1>3, Zenon DEF Derived, Kinds
  <2>2. Exprs(stored', "affinities") \in {Exprs(user, "affinities"), Without(user)}
    BY <1>3, <1>4, Zenon DEF Kinds
  <2>3. /\ StartsWith(Exprs(user, "constraints"), Exprs(stored', "constraints"))
        /\ \A i \in (Len(Exprs(user, "constraints")) + 1)..Len(Exprs(stored', "constraints")) :
             Added(Exprs(stored', "constraints")[i], user)
    BY <1>2, <1>3, Zenon DEF Derived, Kinds
  <2>. QED  BY <1>1, <2>1, <2>2, <2>3, Zenon DEF LabelsKept, Without
<1>6. HardMet'
  BY <1>1, PlaceAssumption, Zenon DEF HardMet
<1>7. AffinitiesKept'
  BY <1>1, <1>4, Zenon DEF AffinitiesKept
<1>. QED  BY <1>1, <1>2, <1>5, <1>6, <1>7, Zenon DEF PlaceInv

\* what d (c with the affinity x added) and r (d with x taken away) are
Attempted(c, u, x, d, r) ==
  /\ IsConfig(d) /\ d.deps = c.deps /\ d.cpus = c.cpus /\ d.memory = c.memory
  /\ \A k \in Kinds \ {"affinities"} : Exprs(d, k) = Exprs(c, k)
  /\ Elements(Exprs(d, "affinities")) = Elements(Exprs(c, "affinities")) \cup {x}
  /\ Derived(r, u) /\ r.env = c.env
  /\ Exprs(r, "affinities") = Without(u)
  /\ \A k \in Kinds \ {"affinities"} : Exprs(r, k) = Exprs(c, k)

\* the attempt with an affinity to the image adds it and takes it away
LEMMA ImageAttempt ==
  ASSUME NEW c, NEW u, Derived(c, u), Exprs(c, "affinities") = Exprs(u, "affinities"),
         NEW x, x = ImageAffinity(c),
         NEW d, d = AddAffinity(c, x), NEW r, r = RemoveAffinity(d, x)
  PROVE  Attempted(c, u, x, d, r)
<1>. DEFINE mine == Exprs(c, "affinities")
<1>1. IsConfig(c) /\ IsConfig(u) /\ IsSeq(mine)
  BY ExprsSeq, Zenon DEF Derived, Kinds
<1>2. IsSeq(Append(mine, x)) /\ Elements(Append(mine, x)) = Elements(mine) \cup {x}
  <2>. HIDE DEF mine
  <2>. QED  BY <1>1, AppendSeq, Zenon
<1>3. OneSet(c, d, "affinities", Append(mine, x))
  BY <1>1, <1>2, SetExprsFields, Zenon DEF AddAffinity, Kinds
<1>4. IsConfig(d) /\ Exprs(d, "affinities") = Append(mine, x)
  BY <1>3, Zenon DEF OneSet
<1>. DEFINE left == Pick(mine, {i \in DOMAIN mine : mine[i] # x})
<1>5. IsSeq(left)
  <2>. HIDE DEF mine
  <2>. QED  BY <1>1, PickSeq, Zenon
<1>6. r = SetExprs(d, "affinities", left)
  <2>1. r = SetExprs(d, "affinities",
                     LET t == Append(mine, x) IN Pick(t, {i \in DOMAIN t : t[i] # x}))
    <3>. HIDE DEF mine
    <3>. QED  BY <1>4, Zenon DEF RemoveAffinity
  <2>2. (LET t == Append(mine, x) IN Pick(t, {i \in DOMAIN t : t[i] # x})) = left
    <3>. HIDE DEF mine
    <3>. QED  BY <1>1, RemoveAdded, SMTT(60)
  <2>. HIDE DEF mine, left
  <2>. QED  BY <2>1, <2>2, Zenon
<1>7. OneSet(d, r, "affinities", left)
  <2>. HIDE DEF left
  <2>. QED  BY <1>4, <1>5, <1>6, SetExprsFields, Zenon DEF Kinds
<1>8. Without(u) = left
  <2>1. x = ImageAffinity(u) /\ mine = Exprs(u, "affinities")
    BY Zenon DEF ImageAffinity, Derived
  <2>2. IsSeq(left) /\ RemoveAffinity(u, x) = SetExprs(u, "affinities", left)
    BY <1>5, <2>1, Zenon DEF RemoveAffinity
  <2>3. OneSet(u, RemoveAffinity(u, x), "affinities", left)
    <3>. HIDE DEF left
    <3>. QED  BY <1>1, <2>2, SetExprsFields, Zenon DEF Kinds
  <2>. HIDE DEF left
  <2>. QED  BY <2>1, <2>3, Zenon DEF Without, OneSet
<1>9. /\ Derived(r, u) /\ r.env = c.env
      /\ \A k \in Kinds \ {"affinities"} : Exprs(r, k) = Exprs(c, k)
  <2>. HIDE DEF left, mine
  <2>1. /\ IsConfig(r) /\ r.image = c.image /\ r.network = c.network /\ r.deps = c.deps
        /\ r.cpus = c.cpus /\ r.memory = c.memory /\ r.env = c.env
    BY <1>3, <1>7, Zenon DEF OneSet
  <2>2. \A k \in Kinds \ {"affinities"} : Exprs(r, k) = Exprs(c, k)
    BY <1>3, <1>7, Zenon DEF OneSet
  <2>3. /\ \A k \in {"whitelists", "policies"} : Exprs(r, k) = Exprs(c, k)
        /\ Exprs(r, "constraints") = Exprs(c, "constraints")
    BY <2>2, Zenon DEF Kinds
  <2>4. Derived(r, u)
    BY <2>1, <2>3, DerivedAdds, Zenon
  <2>. QED  BY <2>1, <2>2, <2>4, Zenon
<1>10. /\ d.deps = c.deps /\ d.cpus = c.cpus /\ d.memory = c.memory
       /\ \A k \in Kinds \ {"affinities"} : Exprs(d, k) = Exprs(c, k)
       /\ Elements(Exprs(d, "affinities")) = Elements(mine) \cup {x}
  <2>. HIDE DEF mine
  <2>. QED  BY <1>2, <1>3, Zenon DEF OneSet
<1>11. Exprs(r, "affinities") = Without(u)
  <2>. HIDE DEF left, mine
  <2>. QED  BY <1>7, <1>8, Zenon DEF OneSet
<1>. QED  BY <1>4, <1>9, <1>10, <1>11, Zenon DEF Attempted

\* HardMet of the node n and the request u
MeetsHard(n, u) == Meets(n, u, LAMBDA xs : Hard(xs) \ {ImageAffinity(u)})

\* a node that meets the hard expressions of what has become of a request
\* meets those of the request
LEMMA MeetsMore ==
  ASSUME strategy \in {"spread", "binpack", "random"},
         NEW c, NEW u, Derived(c, u), NEW d,
         d.deps = c.deps, d.cpus = c.cpus, d.memory = c.memory,
         \A k \in Kinds \ {"affinities"} : Exprs(d, k) = Exprs(c, k),
         Elements(Exprs(u, "affinities")) \ {ImageAffinity(u)}
           \subseteq Elements(Exprs(d, "affinities")),
         NEW n \in SelectNodesForContainer(d).nodes
  PROVE  MeetsHard(n, u)
<1>1. /\ HealthIndicator(n) > 0
      /\ d.deps \subseteq {e.name : e \in node[n].containers}
      /\ \A x \in Hard(Exprs(d, "affinities")) : x.valid /\ AffinityMatch(n, x)
      /\ \A x \in Hard(Exprs(d, "constraints")) : x.valid /\ ConstraintMatch(n, x)
      /\ \A x \in Hard(Exprs(d, "whitelists")) : x.valid /\ WhitelistMatch(n, x)
      /\ strategy = "random" \/ Fits(d, n)
  BY SelectedMeets, Zenon
<1>2. /\ d.deps = u.deps /\ d.cpus = u.cpus /\ d.memory = u.memory
      /\ Elements(Exprs(u, "constraints")) \subseteq Elements(Exprs(d, "constraints"))
      /\ Exprs(d, "whitelists") = Exprs(u, "whitelists")
  BY Zenon DEF Derived, Kinds
<1>3. Fits(d, n) => Fits(u, n)
  BY <1>2, Zenon DEF Fits
<1>4. /\ Hard(Exprs(u, "constraints")) \subseteq Hard(Exprs(d, "constraints"))
      /\ Hard(Exprs(u, "whitelists")) = Hard(Exprs(d, "whitelists"))
      /\ Hard(Exprs(u, "affinities")) \ {ImageAffinity(u)} \subseteq Hard(Exprs(d, "affinities"))
  BY <1>2, Zenon DEF Hard
<1>. QED  BY <1>1, <1>2, <1>3, <1>4, Zenon DEF Meets, MeetsHard

\* RemoveAffinity takes one expression away and no other.
LEMMA WithoutElements ==
  ASSUME NEW u, IsConfig(u)
  PROVE  Elements(Without(u)) = Elements(Exprs(u, "affinities")) \ {ImageAffinity(u)}
<1>. DEFINE mine == Exprs(u, "affinities")
            x == ImageAffinity(u)
            keep == {i \in DOMAIN mine : mine[i] # x}
            left == Pick(mine, keep)
<1>1. IsSeq(mine)
  BY ExprsSeq, Zenon DEF Kinds
<1>2. IsSeq(left) /\ Elements(left) = {mine[j] : j \in DOMAIN mine \cap keep}
  <2>. HIDE DEF mine, keep
  <2>. QED  BY <1>1, PickSeq, Zenon
<1>3. Without(u) = left
  <2>1. RemoveAffinity(u, x) = SetExprs(u, "affinities", left)
    BY Zenon DEF RemoveAffinity
  <2>2. OneSet(u, RemoveAffinity(u, x), "affinities", left)
    <3>. HIDE DEF left
    <3>. QED  BY <1>2, <2>1, SetExprsFields, Zenon DEF Kinds
  <2>. HIDE DEF left
  <2>. QED  BY <2>2, Zenon DEF Without, OneSet
<1>4. {mine[j] : j \in DOMAIN mine \cap keep} = Elements(mine) \ {x}
  <2>. HIDE DEF mine, x
  <2>. QED  BY Zenon DEF Elements
<1>. HIDE DEF left, mine, x, keep
<1>5. Elements(Without(u)) = Elements(mine) \ {x}
  BY <1>2, <1>3, <1>4, Zenon
<1>. QED  BY <1>5, Zenon DEF mine, x

\* What has become of a request when its network is resolved.
LEMMA NetworkDerived ==
  ASSUME NEW b, NEW u, Derived(b, u), NEW c \in WithNetwork(b)
  PROVE  /\ Derived(c, u) /\ c.env = b.env /\ c.image = b.image
         /\ Exprs(c, "affinities") = Exprs(b, "affinities")
<1>1. IsConfig(b) /\ Derived(b, u)
  BY Zenon DEF Derived
<1>2. /\ IsConfig(c) /\ c.env = b.env /\ c.image = b.image /\ c.network = b.network
      /\ c.deps = b.deps /\ c.cpus = b.cpus /\ c.memory = b.memory
      /\ \A k \in Kinds \ {"constraints"} : Exprs(c, k) = Exprs(b, k)
      /\ \/ Exprs(c, "constraints") = Exprs(b, "constraints")
         \/ /\ b.network # None /\ ~HaveNodeConstraint(b)
            /\ Exprs(c, "constraints")
                 = Append(Exprs(b, "constraints"), Equal("node", {b.network}, TRUE))
  BY <1>1, NetworkFields, Zenon
<1>5. \/ Exprs(c, "constraints") = Exprs(b, "constraints")
      \/ \E x : Added(x, u) /\ Exprs(c, "constraints") = Append(Exprs(b, "constraints"), x)
  <2>1. b.network = u.network
    BY Zenon DEF Derived
  <2>2. HaveNodeConstraint(u) => HaveNodeConstraint(b)
    BY Zenon DEF Derived, HaveNodeConstraint
  <2>. QED  BY <1>2, <2>1, <2>2, Zenon DEF Added
<1>3. /\ \A k \in {"whitelists", "policies"} : Exprs(c, k) = Exprs(b, k)
      /\ Exprs(c, "affinities") = Exprs(b, "affinities")
  BY <1>2, Zenon DEF Kinds
<1>4. Derived(c, u)
  BY <1>1, <1>2, <1>3, <1>5, DerivedAdds, Zenon
<1>. QED  BY <1>2, <1>3, <1>4, Zenon

\* createContainer: what it adds for this attempt is taken back, and the node
\* it chooses meets the hard expressions of the request.
LEMMA CreateStep == PlaceInv /\ createContainer => PlaceInv'
<1>. SUFFICES ASSUME PlaceInv, createContainer PROVE PlaceInv'
  BY Zenon
<1>. DEFINE with(c) == IF attempt = "image" THEN AddAffinity(c, ImageAffinity(c)) ELSE c
<1>1. PICK c \in WithNetwork(config) :
        /\ config' = IF attempt = "image"
                     THEN RemoveAffinity(with(c), ImageAffinity(c)) ELSE c
        /\ chosen' \in IF SelectNodesForContainer(with(c)).nodes = {} THEN {Nowhere}
                       ELSE SelectNodesForContainer(with(c)).nodes
  BY Zenon DEF createContainer
<1>2. /\ UNCHANGED <<node, strategy, user, attempt, stored>>
      /\ attempt \in {"first", "os", "image", "loop"} /\ chosen = None
  BY Zenon DEF createContainer
<1>3. /\ Derived(c, user) /\ c.env = config.env /\ c.image = config.image
      /\ Exprs(c, "affinities") = Exprs(config, "affinities")
  BY NetworkDerived, Zenon DEF PlaceInv
<1>4. /\ Derived(config', user) /\ config'.env = config.env
      /\ AffinitiesKept'
      /\ chosen' \in Nodes => MeetsHard(chosen', user)
  <2>1. CASE attempt = "image"
    <3>. DEFINE x == ImageAffinity(c)
                d == AddAffinity(c, x)
                r == RemoveAffinity(d, x)
    <3>1. Exprs(c, "affinities") = Exprs(user, "affinities")
      BY <1>2, <1>3, <2>1, Zenon DEF PlaceInv, AffinitiesKept
    <3>3. /\ config' = r
          /\ chosen' \in Nodes => chosen' \in SelectNodesForContainer(d).nodes
      BY <1>1, <2>1, PlaceAssumption, Zenon
    <3>0. x = ImageAffinity(c) /\ d = AddAffinity(c, x) /\ r = RemoveAffinity(d, x)
      BY Zenon
    <3>. HIDE DEF d, x, r
    <3>2. /\ d.deps = c.deps /\ d.cpus = c.cpus /\ d.memory = c.memory
          /\ \A k \in Kinds \ {"affinities"} : Exprs(d, k) = Exprs(c, k)
          /\ Elements(Exprs(d, "affinities")) = Elements(Exprs(c, "affinities")) \cup {x}
          /\ Derived(r, user) /\ r.env = c.env
          /\ Exprs(r, "affinities") = Without(user)
      <4>1. Attempted(c, user, x, d, r)
        BY <1>3, <3>0, <3>1, ImageAttempt, Zenon
      <4>. QED  BY <4>1, Zenon DEF Attempted
    <3>4. chosen' # None
      BY <1>1, SelectedMeets, PlaceAssumption, Zenon DEF PlaceInv
    <3>5. AffinitiesKept'
      BY <1>2, <2>1, <3>2, <3>3, <3>4, Zenon DEF AffinitiesKept
    <3>6. Elements(Exprs(user, "affinities")) \ {ImageAffinity(user)}
            \subseteq Elements(Exprs(d, "affinities"))
      BY <3>1, <3>2, Zenon
    <3>7. ASSUME chosen' \in Nodes
          PROVE  MeetsHard(chosen', user)
      BY <1>3, <3>2, <3>3, <3>6, <3>7, MeetsMore, Zenon DEF PlaceInv
    <3>. QED  BY <1>3, <3>2, <3>3, <3>5, <3>7, Zenon
  <2>2. CASE attempt # "image"
    <3>1. /\ config' = c
          /\ chosen' \in Nodes => chosen' \in SelectNodesForContainer(c).nodes
      BY <1>1, <2>2, PlaceAssumption, Zenon
    <3>2. AffinitiesKept'
      BY <1>2, <1>3, <2>2, <3>1, Zenon DEF PlaceInv, AffinitiesKept
    <3>3. Elements(Exprs(user, "affinities")) \ {ImageAffinity(user)}
            \subseteq Elements(Exprs(c, "affinities"))
      <4>1. \/ Exprs(c, "affinities") = Exprs(user, "affinities")
            \/ Exprs(c, "affinities") = Without(user)
        BY <1>3, Zenon DEF PlaceInv, AffinitiesKept
      <4>. QED  BY <1>3, <4>1, WithoutElements, Zenon DEF Derived
    <3>4. ASSUME chosen' \in Nodes
          PROVE  MeetsHard(chosen', user)
      BY <1>3, <3>1, <3>3, <3>4, MeetsMore, Zenon DEF PlaceInv
    <3>. QED  BY <1>3, <3>1, <3>2, <3>4, Zenon
  <2>. QED  BY <2>1, <2>2, Zenon
<1>5. HardMet'
  BY <1>2, <1>4, Zenon DEF HardMet, MeetsHard, Meets, HealthIndicator, AffinityMatch, Fits
<1>6. LabelsKept'
  <2>1. LabelsKept /\ stored' = stored /\ user' = user
    BY <1>2, Zenon DEF PlaceInv
  <2>. QED  BY <2>1, Zenon DEF LabelsKept
<1>7. NoneInEnv(config)'
  BY <1>2, <1>4, Zenon DEF PlaceInv, NoneInEnv
<1>. QED  BY <1>2, <1>4, <1>5, <1>6, <1>7, Zenon DEF PlaceInv

\* The inductive invariant holds, however many attempts CreateContainer makes
\* and whatever it adds and takes back in them.
THEOREM PlaceInvariant == PlaceSpec => []PlaceInv
<1>1. PlaceInv /\ [PlaceNext]_placeVars => PlaceInv'
  <2>. SUFFICES ASSUME PlaceInv, [PlaceNext]_placeVars PROVE PlaceInv'
    BY Zenon
  <2>1. CASE UNCHANGED placeVars
    <3>1. /\ UNCHANGED <<node, strategy, config, user, attempt, chosen, stored>>
      BY <2>1, Zenon DEF placeVars
    <3>2. HardMet'
      BY <3>1, Zenon DEF PlaceInv, HardMet, Meets, HealthIndicator, AffinityMatch, Fits
    <3>3. LabelsKept'
      <4>1. LabelsKept
        BY Zenon DEF PlaceInv
      <4>. QED  BY <3>1, <4>1, Zenon DEF LabelsKept
    <3>4. AffinitiesKept'
      BY <3>1, Zenon DEF PlaceInv, AffinitiesKept
    <3>. QED  BY <3>1, <3>2, <3>3, <3>4, Zenon DEF PlaceInv
  <2>. QED
    BY <2>1, NodeStep, BuildStep, OSTypeStep, CreateStep, CreatedStep, FailedStep, Zenon
       DEF PlaceNext
<1>. QED  BY <1>1, PlaceInitInv, PTL DEF PlaceSpec

\* In every attempt, whatever CreateContainer has added to the configuration
\* and taken back before, the node it chooses is healthy, has room (but for
\* random) and satisfies every hard expression of the client but an affinity
\* to the image itself.
THEOREM HardAlwaysMet == PlaceSpec => []HardMet
<1>1. PlaceInv => HardMet
  BY Zenon DEF PlaceInv
<1>. QED  BY <1>1, PlaceInvariant, PTL

-----------------------------------------------------------------------------
(* The choice.                                                             *)

\* k is the right choice for the configuration d
Valid(d) == \A kindOf \in Kinds \ {"policies"} : \A x \in Elements(Exprs(d, kindOf)) : x.valid
MeetsAll(n, d) == Meets(n, d, Elements)
MeetsItsHard(n, d) == Meets(n, d, Hard)

GoodChoice(d, k, withSoft) ==
  /\ k \in Nodes =>
       /\ (\E n \in Nodes : MeetsAll(n, d)) => MeetsAll(k, d)
       /\ FailureRetry <= 4 /\ strategy # "random" =>
            \A n \in Nodes : (IF withSoft THEN MeetsAll(n, d) ELSE MeetsItsHard(n, d)) =>
                               HealthIndicator(n) <= HealthIndicator(k)
  /\ k = Nowhere /\ Valid(d) => \A n \in Nodes : ~MeetsItsHard(n, d)

\* what the filters leave and has room meets the expressions
LEMMA FilteredMeets ==
  ASSUME NEW d, NEW n \in Nodes
  PROVE  /\ n \in ApplyFilters(d, TRUE) /\ (strategy = "random" \/ Fits(d, n))
              <=> MeetsAll(n, d)
         /\ Valid(d) => (n \in ApplyFilters(d, FALSE) /\ (strategy = "random" \/ Fits(d, n))
                           <=> MeetsItsHard(n, d))
         /\ n \in ApplyFilters(d, FALSE) => Valid(d)
<1>1. n \in ApplyFilters(d, TRUE) /\ (strategy = "random" \/ Fits(d, n)) <=> MeetsAll(n, d)
  BY Filtered, Zenon DEF MeetsAll, Meets
<1>2. /\ Valid(d) <=> /\ \A x \in Elements(Exprs(d, "affinities")) : x.valid
                      /\ \A x \in Elements(Exprs(d, "constraints")) : x.valid
                      /\ \A x \in Elements(Exprs(d, "whitelists")) : x.valid
  BY Zenon DEF Valid, Kinds
<1>3. n \in ApplyFilters(d, FALSE) => Valid(d)
  BY <1>2, Filtered, Zenon
<1>4. ASSUME Valid(d)
      PROVE  n \in ApplyFilters(d, FALSE) /\ (strategy = "random" \/ Fits(d, n))
               <=> MeetsItsHard(n, d)
  BY <1>2, <1>4, Filtered, Zenon DEF MeetsItsHard, Meets, Hard
<1>. QED  BY <1>1, <1>3, <1>4, Zenon

\* SelectNodesForContainer chooses rightly: it tries the soft expressions
\* first, and gives up only if no node meets the hard ones.
LEMMA SelectsWell ==
  ASSUME NEW d, Sized(d), strategy \in {"spread", "binpack", "random"},
         NEW sel, sel = SelectNodesForContainer(d),
         NEW k, k \in IF sel.nodes = {} THEN {Nowhere} ELSE sel.nodes
  PROVE  GoodChoice(d, k, sel.soft)
<1>. DEFINE all == ApplyFilters(d, TRUE)
            hard == ApplyFilters(d, FALSE)
<1>1. all \subseteq Nodes /\ hard \subseteq Nodes
  BY Filtered, Zenon
<1>2. /\ \A n \in Nodes : MeetsAll(n, d) => First(d, all) # {}
      /\ \A n \in Nodes : MeetsItsHard(n, d) /\ Valid(d) => First(d, hard) # {}
  BY <1>1, FilteredMeets, FirstExists, Zenon
<1>3. /\ \A n \in First(d, all) : n \in all /\ (strategy = "random" \/ Fits(d, n))
      /\ \A n \in First(d, hard) : n \in hard /\ (strategy = "random" \/ Fits(d, n))
  BY FirstFits, Zenon
<1>4. CASE First(d, all) # {}
  <2>1. sel.soft = TRUE /\ k \in First(d, all) /\ sel.nodes = First(d, all)
    BY <1>4, Zenon DEF SelectNodesForContainer
  <2>2. k \in Nodes /\ MeetsAll(k, d)
    BY <1>1, <1>3, <2>1, FilteredMeets, Zenon
  <2>3. ASSUME FailureRetry <= 4, strategy # "random", NEW n \in Nodes, MeetsAll(n, d)
        PROVE  HealthIndicator(n) <= HealthIndicator(k)
    <3>1. n \in all /\ Fits(d, n)
      BY <2>3, FilteredMeets, Zenon
    <3>2. strategy \in {"spread", "binpack"}
      BY <2>3, Zenon
    <3>. HIDE DEF all
    <3>. QED  BY <1>1, <2>1, <2>3, <3>1, <3>2, HealthiestFirst, Zenon
  <2>. QED  BY <2>1, <2>2, <2>3, PlaceAssumption, Zenon DEF GoodChoice
<1>5. CASE First(d, all) = {}
  <2>1. sel.soft = FALSE /\ sel.nodes = First(d, hard)
    BY <1>5, Zenon DEF SelectNodesForContainer
  <2>2. ASSUME k \in Nodes, FailureRetry <= 4, strategy # "random",
               NEW n \in Nodes, MeetsItsHard(n, d)
        PROVE  HealthIndicator(n) <= HealthIndicator(k)
    <3>1. k \in First(d, hard)
      BY <2>1, <2>2, PlaceAssumption, Zenon
    <3>2. Valid(d)
      BY <1>1, <1>3, <3>1, FilteredMeets, Zenon
    <3>3. n \in hard /\ Fits(d, n)
      BY <2>2, <3>2, FilteredMeets, Zenon
    <3>4. strategy \in {"spread", "binpack"}
      BY <2>2, Zenon
    <3>. HIDE DEF hard
    <3>. QED  BY <1>1, <2>2, <3>1, <3>3, <3>4, HealthiestFirst, Zenon
  <2>3. ASSUME k = Nowhere, Valid(d), NEW n \in Nodes, MeetsItsHard(n, d)
        PROVE  FALSE
    <3>1. First(d, hard) # {}
      BY <1>2, <2>3, Zenon
    <3>2. Nowhere \in First(d, hard)
      BY <2>1, <2>3, <3>1, Zenon
    <3>. QED  BY <1>1, <1>3, <3>2, PlaceAssumption, Zenon
  <2>. QED  BY <1>2, <1>5, <2>1, <2>2, <2>3, Zenon DEF GoodChoice
<1>. QED  BY <1>4, <1>5, Zenon

\* c and d say the same, though they may list it otherwise
Alike(c, d) ==
  /\ c.deps = d.deps /\ c.cpus = d.cpus /\ c.memory = d.memory
  /\ Elements(Exprs(c, "affinities")) = Elements(Exprs(d, "affinities"))
  /\ Elements(Exprs(c, "constraints")) = Elements(Exprs(d, "constraints"))
  /\ Elements(Exprs(c, "whitelists")) = Elements(Exprs(d, "whitelists"))

\* A choice that is right for one is right for the other.
LEMMA AlikeGood ==
  ASSUME NEW c, NEW d, Alike(c, d), NEW k, NEW withSoft, GoodChoice(d, k, withSoft)
  PROVE  GoodChoice(c, k, withSoft)
<1>1. \A n : Fits(c, n) <=> Fits(d, n)
  BY Zenon DEF Fits, Alike
<1>2. \A n : MeetsAll(n, c) <=> MeetsAll(n, d)
  BY <1>1, Zenon DEF MeetsAll, Meets, Alike
<1>3. \A n : MeetsItsHard(n, c) <=> MeetsItsHard(n, d)
  BY <1>1, Zenon DEF MeetsItsHard, Meets, Hard, Alike
<1>4. Valid(c) <=> Valid(d)
  BY Zenon DEF Valid, Kinds, Alike
<1>. QED  BY <1>2, <1>3, <1>4, Zenon DEF GoodChoice

\* what a selection has seen is still there when the affinity to the image
\* has been taken away
LEMMA SeenAlike ==
  ASSUME NEW c, NEW u, Derived(c, u), Exprs(c, "affinities") = Exprs(u, "affinities"),
         NEW x, x = ImageAffinity(c),
         NEW d, d = AddAffinity(c, x), NEW r, r = RemoveAffinity(d, x),
         NEW e, e = AddAffinity(r, ImageAffinity(r))
  PROVE  Alike(e, d)
<1>1. /\ IsConfig(d) /\ d.deps = c.deps /\ d.cpus = c.cpus /\ d.memory = c.memory
      /\ \A k \in Kinds \ {"affinities"} : Exprs(d, k) = Exprs(c, k)
      /\ Elements(Exprs(d, "affinities")) = Elements(Exprs(c, "affinities")) \cup {x}
      /\ Derived(r, u) /\ Exprs(r, "affinities") = Without(u)
      /\ \A k \in Kinds \ {"affinities"} : Exprs(r, k) = Exprs(c, k)
  <2>1. Attempted(c, u, x, d, r)
    BY ImageAttempt, Zenon
  <2>. QED  BY <2>1, Zenon DEF Attempted
<1>2. /\ IsConfig(r) /\ IsConfig(u) /\ x = ImageAffinity(u) /\ ImageAffinity(r) = x
      /\ r.deps = c.deps /\ r.cpus = c.cpus /\ r.memory = c.memory
  BY <1>1, Zenon DEF Derived, ImageAffinity
<1>3. IsSeq(Without(u))
  BY <1>1, <1>2, ExprsSeq, Zenon DEF Kinds
<1>4. /\ IsSeq(Append(Without(u), x))
      /\ Elements(Append(Without(u), x)) = Elements(Without(u)) \cup {x}
  BY <1>3, AppendSeq, Zenon
<1>5. OneSet(r, e, "affinities", Append(Without(u), x))
  BY <1>1, <1>2, <1>4, SetExprsFields, Zenon DEF AddAffinity, Kinds
<1>6. Elements(Exprs(e, "affinities")) = Elements(Exprs(d, "affinities"))
  <2>1. Elements(Exprs(e, "affinities")) = Elements(Without(u)) \cup {x}
    BY <1>4, <1>5, Zenon DEF OneSet
  <2>2. Elements(Without(u)) = Elements(Exprs(u, "affinities")) \ {x}
    BY <1>2, WithoutElements, Zenon
  <2>3. Elements(Exprs(d, "affinities")) = Elements(Exprs(u, "affinities")) \cup {x}
    BY <1>1, Zenon
  <2>. QED  BY <2>1, <2>2, <2>3, Zenon
<1>7. /\ e.deps = d.deps /\ e.cpus = d.cpus /\ e.memory = d.memory
      /\ \A k \in Kinds \ {"affinities"} : Exprs(e, k) = Exprs(d, k)
  BY <1>1, <1>2, <1>5, Zenon DEF OneSet
<1>. QED  BY <1>6, <1>7, Zenon DEF Alike, Kinds

-----------------------------------------------------------------------------
(* The invariant of the choice: it is right for what the selection has     *)
(* seen.                                                                   *)
BestInv == Sized(user) /\ GoodChoice(Seen, chosen, soft)

\* It holds before there is a choice,
LEMMA BestInit == PlaceInit => BestInv
  BY RequestsAssumption, PlaceAssumption, Zenon DEF PlaceInit, BestInv, Sized, GoodChoice

\* in every step that leaves none,
LEMMA NoChoice ==
  ASSUME BestInv, chosen' = None, node' \in [Nodes -> NodeStates],
         user' = user \/ (user'.cpus = user.cpus /\ user'.memory = user.memory)
  PROVE  BestInv'
<1>1. Sized(user)'
  BY Zenon DEF BestInv, Sized
<1>2. GoodChoice(Seen, chosen, soft)'
  BY PlaceAssumption, Zenon DEF GoodChoice
<1>. QED  BY <1>1, <1>2, Zenon DEF BestInv

\* and while the nodes and the choice stay as they are.
LEMMA SameChoice ==
  ASSUME NEW d, NEW k, NEW withSoft, GoodChoice(d, k, withSoft), UNCHANGED <<node, strategy>>,
         chosen' = k, soft' = withSoft, Seen' = d
  PROVE  GoodChoice(Seen, chosen, soft)'
<1>1. ASSUME NEW n PROVE HealthIndicator(n)' = HealthIndicator(n)
  BY Zenon DEF HealthIndicator
<1>2. ASSUME NEW n PROVE Fits(Seen, n)' <=> Fits(d, n)
  BY Zenon DEF Fits
<1>3. ASSUME NEW n, NEW x PROVE AffinityMatch(n, x)' <=> AffinityMatch(n, x)
  BY Zenon DEF AffinityMatch
<1>4. ASSUME NEW n PROVE MeetsAll(n, Seen)' <=> MeetsAll(n, d)
  BY <1>1, <1>2, <1>3, Zenon DEF MeetsAll, Meets
<1>5. ASSUME NEW n PROVE MeetsItsHard(n, Seen)' <=> MeetsItsHard(n, d)
  BY <1>1, <1>2, <1>3, Zenon DEF MeetsItsHard, Meets
<1>6. Valid(Seen)' <=> Valid(d)
  BY Zenon DEF Valid
<1>. QED  BY <1>1, <1>4, <1>5, <1>6, Zenon DEF GoodChoice

\* createContainer chooses rightly for the configuration it shows to the
\* scheduler, with the affinity to the image or without.
LEMMA BestCreate == PlaceInv /\ BestInv /\ createContainer => BestInv'
<1>. SUFFICES ASSUME PlaceInv, BestInv, createContainer PROVE BestInv'
  BY Zenon
<1>. DEFINE with(c) == IF attempt = "image" THEN AddAffinity(c, ImageAffinity(c)) ELSE c
<1>1. PICK c \in WithNetwork(config) :
        /\ config' = IF attempt = "image"
                     THEN RemoveAffinity(with(c), ImageAffinity(c)) ELSE c
        /\ chosen' \in IF SelectNodesForContainer(with(c)).nodes = {} THEN {Nowhere}
                       ELSE SelectNodesForContainer(with(c)).nodes
        /\ soft' = SelectNodesForContainer(with(c)).soft
  BY Zenon DEF createContainer
<1>2. /\ UNCHANGED <<node, strategy, user, attempt, stored>>
      /\ attempt \in {"first", "os", "image", "loop"} /\ chosen = None
  BY Zenon DEF createContainer
<1>3. /\ Derived(c, user)
      /\ attempt = "image" => Exprs(c, "affinities") = Exprs(user, "affinities")
  BY <1>2, NetworkDerived, Zenon DEF PlaceInv, AffinitiesKept
<1>. DEFINE d == with(c)
<1>4. Alike(Seen', d) /\ d.cpus = user.cpus /\ d.memory = user.memory
  <2>1. CASE attempt = "image"
    <3>1. Seen' = AddAffinity(config', ImageAffinity(config'))
      BY <1>2, <2>1, Zenon DEF Seen
    <3>2. /\ d = AddAffinity(c, ImageAffinity(c))
          /\ config' = RemoveAffinity(d, ImageAffinity(c))
      BY <1>1, <2>1, Zenon
    <3>. HIDE DEF d
    <3>3. Alike(Seen', d)
      BY <1>3, <2>1, <3>1, <3>2, SeenAlike, Zenon
    <3>4. d.cpus = c.cpus /\ d.memory = c.memory
      <4>1. Attempted(c, user, ImageAffinity(c), d, config')
        BY <1>3, <2>1, <3>2, ImageAttempt, Zenon
      <4>. QED  BY <4>1, Zenon DEF Attempted
    <3>. QED  BY <1>3, <3>3, <3>4, Zenon DEF Derived
  <2>2. CASE attempt # "image"
    <3>1. Seen' = c /\ d = c
      BY <1>1, <1>2, <2>2, Zenon DEF Seen
    <3>. QED  BY <1>3, <3>1, Zenon DEF Alike, Derived
  <2>. QED  BY <2>1, <2>2, Zenon
<1>. HIDE DEF d
<1>5. Sized(d)
  BY <1>4, Zenon DEF BestInv, Sized
<1>6. GoodChoice(d, chosen', soft')
  <2>1. chosen' \in IF SelectNodesForContainer(d).nodes = {} THEN {Nowhere}
                    ELSE SelectNodesForContainer(d).nodes
    BY <1>1, Zenon DEF d
  <2>2. soft' = SelectNodesForContainer(d).soft
    BY <1>1, Zenon DEF d
  <2>. QED  BY <1>5, <2>1, <2>2, SelectsWell, Zenon DEF PlaceInv
<1>7. GoodChoice(Seen', chosen', soft')
  BY <1>4, <1>6, AlikeGood, Zenon
<1>8. GoodChoice(Seen, chosen, soft)'
  BY <1>2, <1>7, SameChoice, Zenon
<1>. QED  BY <1>2, <1>8, Zenon DEF BestInv, Sized

\* Every choice is right for the configuration that the selection has seen.
THEOREM BestInvariant == PlaceSpec => []BestInv
<1>1. PlaceInv /\ BestInv /\ [PlaceNext]_placeVars => BestInv'
  <2>. SUFFICES ASSUME PlaceInv, BestInv, [PlaceNext]_placeVars PROVE BestInv'
    BY Zenon
  <2>0. node \in [Nodes -> NodeStates]
    BY Zenon DEF BestInv, Sized
  <2>1. ASSUME NEW n \in Nodes, NodeChanges(n) PROVE BestInv'
    <3>1. chosen' = None /\ node' \in [Nodes -> NodeStates] /\ user' = user
      BY <2>0, <2>1, Zenon DEF NodeChanges
    <3>. QED  BY <3>1, NoChoice, Zenon
  <2>2. CASE postContainersCreate
    <3>1. chosen' = None /\ node' = node /\ user' = BuildContainerConfig(user) /\ IsConfig(user)
      BY <2>2, Zenon DEF postContainersCreate, PlaceInv, Derived
    <3>2. user'.cpus = user.cpus /\ user'.memory = user.memory
      BY <3>1, BuildFields, Zenon DEF Built
    <3>. QED  BY <2>0, <3>1, <3>2, NoChoice, Zenon
  <2>3. CASE setOSTypeConstraint \/ Created \/ Failed
    <3>1. chosen' = None /\ node' = node /\ user' = user
      BY <2>3, Zenon DEF setOSTypeConstraint, Created, Failed, PlaceInv
    <3>. QED  BY <2>0, <3>1, NoChoice, Zenon
  <2>4. CASE createContainer
    BY <2>4, BestCreate, Zenon
  <2>5. CASE UNCHANGED placeVars
    <3>1. UNCHANGED <<node, strategy, config, user, attempt, chosen, soft>>
      BY <2>5, Zenon DEF placeVars
    <3>2. Seen' = Seen
      BY <3>1, Zenon DEF Seen
    <3>3. GoodChoice(Seen, chosen, soft)'
      BY <3>1, <3>2, SameChoice, Zenon DEF BestInv
    <3>. QED  BY <3>1, <3>3, Zenon DEF BestInv, Sized
  <2>. QED  BY <2>1, <2>2, <2>3, <2>4, <2>5, Zenon DEF PlaceNext
<1>. QED  BY <1>1, BestInit, PlaceInvariant, PTL DEF PlaceSpec

\* SelectNodesForContainer: if a node satisfies the soft expressions too the
\* chosen one does, and no node is chosen only if none satisfies the hard
\* ones.  With at most four failures before an engine is unhealthy, the health
\* also decides against any load, as spread.go and binpack.go say; the factor ten is
\* too small beyond that.
THEOREM BestNode ==
  PlaceSpec => [](SoftPreferred /\ (FailureRetry <= 4 => BestChosen))
<1>1. BestInv => SoftPreferred
  BY Zenon DEF BestInv, GoodChoice, SoftPreferred, MeetsAll, MeetsItsHard, Valid
<1>2. BestInv /\ FailureRetry <= 4 => HealthOverpowers
  BY Zenon DEF BestInv, GoodChoice, HealthOverpowers, MeetsAll, MeetsItsHard, Meets
<1>3. BestInv => SoftPreferred /\ (FailureRetry <= 4 => BestChosen)
  BY <1>1, <1>2, Zenon DEF BestChosen
<1>. QED  BY <1>3, BestInvariant, PTL
-----------------------------------------------------------------------------
\* The variables of an attempt, and how far the counter can be in each:  it
\* starts with the second attempt, or with the third if the first one ends with
\* an error of operating system; an attempt with an affinity to the image comes
\* once, whatever the counter says; the loop is entered below its limit.
RetryInv ==
  /\ node \in [Nodes -> NodeStates]
  /\ attempt \in {"request", "ostype", "first", "os", "image", "loop", "end"}
  /\ retries \in Nat
  /\ chosen \in Nodes \cup {None, Nowhere}
  /\ soft \in BOOLEAN
  /\ attempt \in {"request", "ostype", "first", "os"} => retries = 0
  /\ attempt = "image" => retries <= 1
  /\ attempt = "loop" => retries < CreateRetry
  /\ attempt = "end" => chosen = None
  /\ retries <= CreateRetry + 2

\* It holds at first,
LEMMA RetryInit == PlaceInit => RetryInv
<1>. SUFFICES ASSUME PlaceInit PROVE RetryInv
  BY Zenon
<1>1. /\ node \in [Nodes -> NodeStates] /\ attempt = "request" /\ retries = 0
      /\ chosen = None /\ soft = FALSE
  BY Zenon DEF PlaceInit
<1>2. 0 <= CreateRetry + 2 /\ 0 \in Nat
  BY CreateRetryAssumption
<1>. QED  BY <1>1, <1>2, Zenon DEF RetryInv

\* in the steps that leave the counter,
LEMMA RetryKept ==
  ASSUME PlaceInv, RetryInv,
         \/ \E n \in Nodes : NodeChanges(n)
         \/ postContainersCreate \/ setOSTypeConstraint \/ createContainer \/ Created
  PROVE  RetryInv'
<1>1. /\ retries' = retries
      /\ \/ attempt' = attempt
         \/ attempt' \in {"ostype", "first"} /\ attempt \in {"request", "ostype"}
         \/ attempt' = "end"
  BY Zenon DEF NodeChanges, postContainersCreate, setOSTypeConstraint, createContainer, Created
<1>2. node' \in [Nodes -> NodeStates]
  <2>1. node' = node \/ \E n \in Nodes, s \in NodeStates : node' = [node EXCEPT ![n] = s]
    BY Zenon DEF NodeChanges, postContainersCreate, setOSTypeConstraint, createContainer, Created
  <2>2. node \in [Nodes -> NodeStates]
    BY Zenon DEF RetryInv
  <2>. QED  BY <2>1, <2>2, Zenon
<1>3. chosen' \in Nodes \cup {None, Nowhere} /\ soft' \in BOOLEAN
  <2>1. CASE createContainer
    <3>1. PICK d : /\ chosen' \in IF SelectNodesForContainer(d).nodes = {} THEN {Nowhere}
                                  ELSE SelectNodesForContainer(d).nodes
                   /\ soft' = SelectNodesForContainer(d).soft
      BY <2>1, Zenon DEF createContainer
    <3>2. chosen' \in Nodes \cup {None, Nowhere}
      BY <3>1, SelectedMeets, Zenon DEF PlaceInv
    <3>3. soft' \in BOOLEAN
      BY <3>1, Zenon DEF SelectNodesForContainer
    <3>. QED  BY <3>2, <3>3, Zenon
  <2>2. CASE ~createContainer
    BY <2>2, Zenon DEF RetryInv, NodeChanges, postContainersCreate, setOSTypeConstraint, Created
  <2>. QED  BY <2>1, <2>2, Zenon
<1>4. (attempt = "end" => chosen = None)'
  BY Zenon DEF RetryInv, PlaceInv, NodeChanges, postContainersCreate, setOSTypeConstraint,
               createContainer, Created
<1>. QED  BY <1>1, <1>2, <1>3, <1>4, Zenon DEF RetryInv

\* and after the failure of an attempt.
LEMMA RetryFailed ==
  ASSUME RetryInv, Failed, PlaceInv
  PROVE  RetryInv'
<1>1. chosen' = None /\ node' = node /\ soft' = soft
  BY Zenon DEF Failed
<1>2. attempt \in {"first", "os", "image", "loop", "end"} /\ chosen # None
  BY Zenon DEF Failed, RetryInv, PlaceInv
<1>3. \/ attempt = "first" /\ attempt' = "os" /\ retries' = retries
      \/ /\ retries' = IF attempt = "first" THEN retries ELSE retries + 1
         /\ \/ attempt \in {"first", "os"} /\ attempt' = "image"
            \/ retries' < CreateRetry /\ attempt' = "loop"
            \/ attempt' = "end"
  BY Zenon DEF Failed, RetryImage
<1>4. attempt # "end"
  BY <1>2, Zenon DEF RetryInv, PlaceInv
<1>5. /\ retries \in Nat
      /\ attempt \in {"first", "os"} => retries = 0
      /\ attempt = "image" => retries <= 1
      /\ attempt = "loop" => retries < CreateRetry
  BY Zenon DEF RetryInv
<1>6. /\ retries' \in Nat /\ retries' <= CreateRetry + 2
      /\ attempt' \in {"os", "image", "loop", "end"}
      /\ attempt' = "os" => retries' = 0
      /\ attempt' = "image" => retries' <= 1
      /\ attempt' = "loop" => retries' < CreateRetry
  BY <1>2, <1>3, <1>4, <1>5, CreateRetryAssumption
<1>. QED  BY <1>1, <1>6, Zenon DEF RetryInv

\* The counter, and what CreateContainer works with, in every step.
THEOREM RetryInvariant == PlaceSpec => []RetryInv
<1>1. PlaceInv /\ RetryInv /\ [PlaceNext]_placeVars => RetryInv'
  <2>. SUFFICES ASSUME PlaceInv, RetryInv, [PlaceNext]_placeVars PROVE RetryInv'
    BY Zenon
  <2>1. CASE UNCHANGED placeVars
    BY <2>1, Zenon DEF placeVars, RetryInv
  <2>. QED  BY <2>1, RetryKept, RetryFailed, Zenon DEF PlaceNext
<1>. QED  BY <1>1, RetryInit, PlaceInvariant, PTL DEF PlaceSpec

\* CreateContainer gives up: however attempts fail, its counter stays within
\* two of the option swarm.createretry, and what it works with keeps its type.
THEOREM RetriesBounded == PlaceSpec => []PlaceTypeOK
<1>1. PlaceInv /\ RetryInv => PlaceTypeOK
  <2>. SUFFICES ASSUME PlaceInv, RetryInv PROVE PlaceTypeOK
    BY Zenon
  <2>1. \A c \in {config, user} : DOMAIN c.labels = Kinds
    <3>1. ASSUME NEW c, IsConfig(c) PROVE DOMAIN c.labels = Kinds
      BY <3>1, Zenon DEF IsConfig
    <3>. QED  BY <3>1, Zenon DEF PlaceInv, Derived
  <2>2. retries \in 0 .. (CreateRetry + 2)
    BY CreateRetryAssumption DEF RetryInv
  <2>. QED  BY <2>1, <2>2, Zenon DEF PlaceTypeOK, RetryInv
<1>. QED  BY <1>1, RetryInvariant, PlaceInvariant, PTL

-----------------------------------------------------------------------------
(* How many constraints CreateContainer has added: one on the operating    *)
(* system before its first attempt and one after, and in every attempt the *)
(* one of the network.                                                     *)
Budget ==
  IF attempt \in {"request", "ostype"} THEN 0
  ELSE (IF attempt = "first" THEN 1 ELSE retries + 3)
       + (IF chosen # None \/ attempt = "end" THEN 1 ELSE 0)

Constraints(c) == Len(Exprs(c, "constraints"))

FewInv ==
  /\ Constraints(config) <= Constraints(user) + Budget
  /\ FewAdded
  /\ stored # None => Constraints(stored) \in Nat

\* The numbers that the argument compares.
LEMMA Counts ==
  ASSUME NEW c, IsConfig(c)
  PROVE  Constraints(c) \in Nat
<1>1. IsSeq(Exprs(c, "constraints"))
  BY ExprsSeq, Zenon DEF Kinds
<1>. QED  BY <1>1, Zenon DEF Constraints, IsSeq

\* AddConstraint adds one.
LEMMA CountsOneMore ==
  ASSUME NEW c, IsConfig(c), NEW x
  PROVE  Constraints(AddConstraint(c, x)) = Constraints(c) + 1
<1>1. /\ IsSeq(Append(Exprs(c, "constraints"), x))
      /\ Len(Append(Exprs(c, "constraints"), x)) = Len(Exprs(c, "constraints")) + 1
  <2>1. IsSeq(Exprs(c, "constraints"))
    BY ExprsSeq, Zenon DEF Kinds
  <2>. QED  BY <2>1, AppendSeq, Zenon
<1>2. OneSet(c, AddConstraint(c, x), "constraints", Append(Exprs(c, "constraints"), x))
  BY <1>1, SetExprsFields, Zenon DEF AddConstraint, Kinds
<1>. QED  BY <1>1, <1>2, Zenon DEF OneSet, Constraints

\* An attempt adds at most one, and the affinity to the image none.
LEMMA AttemptAdds ==
  ASSUME PlaceInv, createContainer
  PROVE  Constraints(config') <= Constraints(config) + 1
<1>. DEFINE with(c) == IF attempt = "image" THEN AddAffinity(c, ImageAffinity(c)) ELSE c
<1>1. PICK c \in WithNetwork(config) :
        config' = IF attempt = "image" THEN RemoveAffinity(with(c), ImageAffinity(c)) ELSE c
  BY Zenon DEF createContainer
<1>2. IsConfig(config) /\ Derived(c, user) /\ IsConfig(c)
      /\ Exprs(c, "affinities") = Exprs(config, "affinities")
  <2>1. Derived(c, user) /\ Exprs(c, "affinities") = Exprs(config, "affinities")
    BY NetworkDerived, Zenon DEF PlaceInv
  <2>. QED  BY <2>1, Zenon DEF PlaceInv, Derived
<1>3. Constraints(config) \in Nat /\ Constraints(c) \in Nat
  BY <1>2, Counts, Zenon
<1>4. \/ Constraints(c) = Constraints(config)
      \/ Constraints(c) = Constraints(config) + 1
  <2>1. \/ Exprs(c, "constraints") = Exprs(config, "constraints")
        \/ \E x : Exprs(c, "constraints") = Append(Exprs(config, "constraints"), x)
    BY <1>2, NetworkFields, Zenon
  <2>2. IsSeq(Exprs(config, "constraints"))
    BY <1>2, ExprsSeq, Zenon DEF Kinds
  <2>. QED  BY <2>1, <2>2, AppendSeq, Zenon DEF Constraints
<1>5. Constraints(config') = Constraints(c)
  <2>1. CASE attempt = "image"
    <3>. DEFINE x == ImageAffinity(c)
                d == AddAffinity(c, x)
                r == RemoveAffinity(d, x)
    <3>1. config' = r
      BY <1>1, <2>1, Zenon
    <3>2. Exprs(c, "affinities") = Exprs(user, "affinities")
      BY <1>2, <2>1, Zenon DEF PlaceInv, AffinitiesKept, createContainer
    <3>3. Attempted(c, user, x, d, r)
      BY <1>2, <3>2, ImageAttempt, Zenon
    <3>. HIDE DEF x, d, r
    <3>. QED  BY <3>1, <3>3, Zenon DEF Attempted, Kinds, Constraints
  <2>. QED  BY <1>1, <2>1, Zenon
<1>. QED  BY <1>3, <1>4, <1>5

\* Every step keeps within the number.
LEMMA FewStep ==
  ASSUME PlaceInv, RetryInv, FewInv, PlaceInv', RetryInv', PlaceNext
  PROVE  FewInv'
<1>1. /\ Constraints(config) \in Nat /\ Constraints(user) \in Nat
      /\ Constraints(config') \in Nat /\ Constraints(user') \in Nat
      /\ retries \in Nat /\ retries' \in Nat
  BY Counts, Zenon DEF PlaceInv, RetryInv, Derived
<1>2. CASE postContainersCreate
  <2>1. /\ user' = config' /\ stored' = stored /\ stored = None /\ retries' = retries
        /\ attempt' \in {"ostype", "end"}
    BY <1>2, Zenon DEF postContainersCreate, PlaceInv
  <2>2. Budget' >= 0
    BY <1>1, <2>1 DEF Budget
  <2>3. Budget' \in Int
    BY <1>1, <2>1 DEF Budget
  <2>4. Constraints(config') <= Constraints(user') + Budget'
    BY <1>1, <2>1, <2>2, <2>3
  <2>. QED  BY <2>1, <2>4, Zenon DEF FewInv, FewAdded
<1>3. CASE Created
  <2>1. /\ UNCHANGED <<config, user, retries>> /\ chosen # None /\ attempt' = "end"
        /\ attempt \notin {"request", "ostype"} /\ stored' = BuildContainerConfig(config)
    BY <1>3, PlaceAssumption, Zenon DEF Created, PlaceInv
  <2>2. Exprs(stored', "constraints") = Exprs(config, "constraints")
    BY <2>1, BuildFields, Zenon DEF PlaceInv, Derived, Built, Kinds
  <2>3. Constraints(stored') = Constraints(config)
    BY <2>2, Zenon DEF Constraints
  <2>4. Budget' = retries + 4 /\ Budget <= retries + 4 /\ Budget \in Int
    BY <1>1, <2>1 DEF Budget
  <2>5. Constraints(config) <= Constraints(user) + retries + 4
    BY <1>1, <2>4 DEF FewInv
  <2>6. Constraints(config') <= Constraints(user') + Budget'
    BY <1>1, <2>1, <2>4, <2>5
  <2>7. Constraints(stored') <= Constraints(user') + 2 + (retries' + 2)
    BY <1>1, <2>1, <2>3, <2>5
  <2>8. Constraints(stored') \in Nat
    BY <1>1, <2>3, Zenon
  <2>. QED  BY <2>6, <2>7, <2>8, Zenon DEF FewInv, FewAdded, Constraints
<1>4. ASSUME UNCHANGED <<user, stored>>, retries <= retries',
             Constraints(config') <= Constraints(user') + Budget'
      PROVE  FewInv'
  <2>1. stored # None => Constraints(stored) <= Constraints(user) + 2 + (retries + 2)
    BY Zenon DEF FewInv, FewAdded, Constraints
  <2>2. stored # None => Constraints(stored) \in Nat
    BY Zenon DEF FewInv
  <2>3. stored # None => Constraints(stored) <= Constraints(user) + 2 + (retries' + 2)
    BY <1>1, <1>4, <2>1, <2>2
  <2>. QED  BY <1>4, <2>2, <2>3, Zenon DEF FewInv, FewAdded, Constraints
<1>5. CASE \E n \in Nodes : NodeChanges(n)
  <2>1. UNCHANGED <<config, user, stored, retries, attempt, chosen>>
    BY <1>5, Zenon DEF NodeChanges
  <2>2. Constraints(config') <= Constraints(user') + Budget'
    BY <2>1, Zenon DEF FewInv, Budget
  <2>. QED  BY <1>1, <1>4, <2>1, <2>2
<1>6. CASE setOSTypeConstraint
  <2>1. /\ UNCHANGED <<user, stored, retries, chosen>> /\ attempt = "ostype" /\ attempt' = "first"
        /\ chosen = None
        /\ config' = config \/ \E x : config' = AddConstraint(config, x)
    BY <1>6, Zenon DEF setOSTypeConstraint, PlaceInv
  <2>2. Constraints(config') <= Constraints(config) + 1
    BY <1>1, <2>1, CountsOneMore DEF PlaceInv, Derived
  <2>3. Budget = 0 /\ Budget' = 1
    BY <2>1 DEF Budget
  <2>4. Constraints(config') <= Constraints(user') + Budget'
    BY <1>1, <2>1, <2>2, <2>3 DEF FewInv
  <2>. QED  BY <1>1, <1>4, <2>1, <2>4
<1>7. CASE createContainer
  <2>1. /\ UNCHANGED <<user, stored, retries, attempt>> /\ chosen = None
        /\ attempt \in {"first", "os", "image", "loop"}
    BY <1>7, Zenon DEF createContainer
  <2>2. chosen' # None
    <3>1. PICK d : chosen' \in IF SelectNodesForContainer(d).nodes = {} THEN {Nowhere}
                               ELSE SelectNodesForContainer(d).nodes
      BY <1>7, Zenon DEF createContainer
    <3>. QED  BY <3>1, SelectedMeets, PlaceAssumption, Zenon DEF PlaceInv
  <2>3. Budget' = Budget + 1 /\ Budget \in Int
    BY <1>1, <2>1, <2>2 DEF Budget
  <2>4. Constraints(config') <= Constraints(config) + 1
    BY <1>7, AttemptAdds, Zenon
  <2>5. Constraints(config') <= Constraints(user') + Budget'
    BY <1>1, <2>1, <2>3, <2>4 DEF FewInv
  <2>. QED  BY <1>1, <1>4, <2>1, <2>5
<1>8. CASE Failed
  <2>1. /\ UNCHANGED <<user, stored>> /\ chosen # None /\ chosen' = None
        /\ attempt \notin {"request", "ostype", "end"}
    BY <1>8, Zenon DEF Failed, PlaceInv, RetryInv
  <2>2. \/ /\ attempt = "first" /\ attempt' = "os" /\ retries' = retries
           /\ \E x : config' = AddConstraint(config, x)
        \/ /\ config' = config
           /\ retries' = IF attempt = "first" THEN retries ELSE retries + 1
           /\ attempt' \in {"image", "loop", "end"}
    BY <1>8, Zenon DEF Failed
  <2>3. CASE config' # config
    <3>1. Constraints(config') = Constraints(config) + 1
      BY <2>2, <2>3, CountsOneMore, Zenon DEF PlaceInv, Derived
    <3>0. attempt = "first" /\ attempt' = "os" /\ retries' = retries
      BY <2>2, <2>3, Zenon
    <3>2. Budget = 2 /\ Budget' = retries + 3 /\ retries' = retries
      BY <1>1, <2>1, <3>0 DEF Budget
    <3>3. Constraints(config') <= Constraints(user') + Budget'
      BY <1>1, <2>1, <3>1, <3>2 DEF FewInv
    <3>. QED  BY <1>1, <1>4, <2>1, <3>2, <3>3
  <2>4. CASE config' = config
    <3>0. /\ attempt' \in {"os", "image", "loop", "end"}
          /\ attempt = "first" => retries' = retries
          /\ attempt # "first" => retries' = retries + 1
      BY <2>2, Zenon
    <3>1. Budget <= Budget' /\ retries <= retries' /\ Budget \in Int /\ Budget' \in Int
      <4>1. CASE attempt = "first"
        BY <1>1, <2>1, <3>0, <4>1 DEF Budget
      <4>2. CASE attempt # "first"
        BY <1>1, <2>1, <3>0, <4>2 DEF Budget
      <4>. QED  BY <4>1, <4>2, Zenon
    <3>2. Constraints(config') <= Constraints(user') + Budget'
      BY <1>1, <2>1, <2>4, <3>1 DEF FewInv
    <3>. QED  BY <1>1, <1>4, <2>1, <3>1, <3>2
  <2>. QED  BY <2>3, <2>4, Zenon
<1>. QED  BY <1>2, <1>3, <1>5, <1>6, <1>7, <1>8, Zenon DEF PlaceNext

\* For any request and any number of attempts, what a manager reads back from
\* the labels of the container begins with the constraints of the client,
\* followed only by what CreateContainer has added: at most two on the operating
\* system and, one in each attempt, the soft one on the engine of the network.
\* The other kinds of expressions and the reschedule policy are the client's.
THEOREM ConfigKept == PlaceSpec => []ConfigSurvives
<1>1. PlaceInit => FewInv
  <2>. SUFFICES ASSUME PlaceInit PROVE FewInv
    BY Zenon
  <2>1. Constraints(config) \in Nat /\ user = config /\ Budget = 0 /\ stored = None
    BY RequestsAssumption, Counts, Zenon DEF PlaceInit, Budget
  <2>. QED  BY <2>1 DEF FewInv, FewAdded
<1>2. /\ PlaceInv /\ RetryInv /\ FewInv /\ PlaceInv' /\ RetryInv' /\ [PlaceNext]_placeVars
      => FewInv'
  <2>1. FewInv /\ UNCHANGED placeVars => FewInv'
    BY Zenon DEF placeVars, FewInv, FewAdded, Budget
  <2>. QED  BY <2>1, FewStep, Zenon
<1>3. PlaceInv /\ FewInv => ConfigSurvives
  BY Zenon DEF PlaceInv, FewInv, ConfigSurvives
<1>. QED  BY <1>1, <1>2, <1>3, PlaceInvariant, RetryInvariant, PTL DEF PlaceSpec
=============================================================================
