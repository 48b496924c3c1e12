------------------------------ MODULE FoldFacts ------------------------------
(****************************************************************************)
(* Facts about operators of the community modules: folds, and sequences of  *)
(* which an item is removed or to which one is added.  The induction        *)
(* theorems of the library speak of predicates, which the provers cannot    *)
(* instantiate; these speak of sets, which they can.                        *)
(****************************************************************************)
EXTENDS Integers, Sequences, FiniteSets, Community, FiniteSetTheorems, SequenceTheorems, WellFoundedInduction, TLAPS

\* A set of natural numbers that has 0 and the successor of each of its members is all of Nat.
LEMMA NatSetInduction ==
    ASSUME NEW T \in SUBSET Nat, 0 \in T, \A n \in T : n + 1 \in T
    PROVE  T = Nat
<1>. DEFINE Less == OpToRel(<, Nat)
<1>1. SUFFICES ASSUME Nat \ T # {} PROVE FALSE  OBVIOUS
<1>2. IsWellFoundedOn(Less, Nat)  BY NatLessThanWellFounded
<1>3. PICK m \in Nat \ T : \A n \in Nat \ T : <<n, m>> \notin Less
  <2>. HIDE DEF Less
  <2>. QED  BY <1>1, <1>2, WFMin
<1>4. m # 0 /\ m - 1 \in Nat  OBVIOUS
<1>5. m - 1 \notin T  BY <1>4
<1>6. <<m - 1, m>> \in Less  BY <1>4 DEF OpToRel
<1>. QED  BY <1>3, <1>4, <1>5, <1>6

\* What holds at one end of an interval, and one further whenever it holds, holds all along it.
LEMMA IntervalInduction ==
    ASSUME NEW l \in Int, NEW r \in Int, l <= r, NEW T, l \in T,
           \A i \in l .. r : i # r /\ i \in T => i + 1 \in T
    PROVE  \A i \in l .. r : i \in T
<1>. DEFINE Upto == {n \in Nat : l + n <= r => l + n \in T}
<1>1. 0 \in Upto  OBVIOUS
<1>2. ASSUME NEW n \in Upto PROVE n + 1 \in Upto
  <2>1. SUFFICES ASSUME l + (n + 1) <= r PROVE l + (n + 1) \in T  OBVIOUS
  <2>2. l + n \in l .. r /\ l + n # r /\ l + n \in T  BY <2>1
  <2>3. (l + n) + 1 \in T  BY <2>2
  <2>4. (l + n) + 1 = l + (n + 1)  OBVIOUS
  <2>. QED  BY <2>3, <2>4
<1>3. Upto = Nat
  <2>. HIDE DEF Upto
  <2>1. Upto \in SUBSET Nat  BY DEF Upto
  <2>. QED  BY <1>1, <1>2, <2>1, NatSetInduction
<1>. QED
  <2>1. SUFFICES ASSUME NEW i \in l .. r PROVE i \in T  OBVIOUS
  <2>2. i - l \in Nat /\ l + (i - l) = i  OBVIOUS
  <2>3. i - l \in Upto  BY <1>3, <2>2
  <2>. QED  BY <2>2, <2>3

\* The values of a loop that runs from l to r: each from the one before.
Chain(g, l, r, base, op) ==
    g = [i \in l .. r |-> IF i = l THEN base ELSE op[i][g[i - 1]]]

\* There are such values, each of the type that is given for its place.
LEMMA ChainExists ==
    ASSUME NEW l \in Int, NEW r \in Int, l <= r, NEW base, NEW op, NEW W, base \in W[l],
           \A i \in l .. r : i # r => \A x \in W[i] : op[i + 1][x] \in W[i + 1]
    PROVE  \E g : Chain(g, l, r, base, op)
<1>. DEFINE Typed(g, m) == \A i \in l .. m : g[i] \in W[i]
            T == {m \in l .. r : \E g : Chain(g, l, m, base, op) /\ Typed(g, m)}
<1>1. l \in T
  <2>. DEFINE g == [i \in l .. l |-> base]
  <2>1. g = [i \in l .. l |-> IF i = l THEN base ELSE op[i][g[i - 1]]]  OBVIOUS
  <2>2. Chain(g, l, l, base, op)  BY <2>1 DEF Chain
  <2>3. Typed(g, l)  OBVIOUS
  <2>. QED  BY <2>2, <2>3
<1>2. ASSUME NEW m \in l .. r, m # r, m \in T PROVE m + 1 \in T
  <2>1. PICK g : Chain(g, l, m, base, op) /\ Typed(g, m)  BY <1>2
  <2>. DEFINE h == [i \in l .. m + 1 |-> IF i = m + 1 THEN op[m + 1][g[m]] ELSE g[i]]
  <2>2. \A i \in l .. m : h[i] = g[i]  OBVIOUS
  <2>3. h[m + 1] = op[m + 1][h[m]]  BY <2>2
  <2>4. \A i \in l .. m : g[i] = IF i = l THEN base ELSE op[i][g[i - 1]]  BY <2>1 DEF Chain
  <2>5. \A i \in l .. m + 1 : h[i] = IF i = l THEN base ELSE op[i][h[i - 1]]
    <3>1. SUFFICES ASSUME NEW i \in l .. m + 1 PROVE h[i] = IF i = l THEN base ELSE op[i][h[i - 1]]  OBVIOUS
    <3>2. CASE i = m + 1
      <4>1. i # l /\ i - 1 = m  BY <3>2
      <4>. HIDE DEF h
      <4>. QED  BY <2>3, <3>2, <4>1
    <3>3. CASE i # m + 1
      <4>1. i \in l .. m /\ (i # l => i - 1 \in l .. m)  BY <3>3
      <4>. HIDE DEF h
      <4>2. h[i] = g[i] /\ (i # l => h[i - 1] = g[i - 1])  BY <2>2, <4>1
      <4>3. g[i] = IF i = l THEN base ELSE op[i][g[i - 1]]  BY <2>4, <4>1
      <4>. QED  BY <4>2, <4>3
    <3>. QED  BY <3>2, <3>3
  <2>6. h = [i \in l .. m + 1 |-> h[i]]  OBVIOUS
  <2>7. Chain(h, l, m + 1, base, op)
    <3>. HIDE DEF h
    <3>. QED  BY <2>5, <2>6 DEF Chain
  <2>8. Typed(h, m + 1)
    <3>1. g[m] \in W[m]  BY <2>1
    <3>2. h[m + 1] \in W[m + 1]  BY <1>2, <2>2, <2>3, <3>1
    <3>3. \A i \in l .. m : h[i] \in W[i]  BY <2>1, <2>2
    <3>. HIDE DEF h
    <3>. QED  BY <3>2, <3>3
  <2>. HIDE DEF h
  <2>. QED  BY <1>2, <2>7, <2>8
<1>3. \A i \in l .. r : i \in T
  <2>. HIDE DEF T
  <2>. QED  BY <1>1, <1>2, IntervalInduction
<1>4. r \in T  BY <1>3
<1>. QED  BY <1>4

\* All values are of their types, whichever function gives them.
LEMMA ChainType ==
    ASSUME NEW l \in Int, NEW r \in Int, l <= r, NEW base, NEW op, NEW W, base \in W[l],
           \A i \in l .. r : i # r => \A x \in W[i] : op[i + 1][x] \in W[i + 1],
           NEW g, Chain(g, l, r, base, op)
    PROVE  /\ g[l] = base
           /\ \A i \in l .. r : g[i] \in W[i]
           /\ \A i \in l .. r : i # l => g[i] = op[i][g[i - 1]]
<1>. DEFINE T == {m \in l .. r : g[m] \in W[m]}
<1>1. \A i \in l .. r : g[i] = IF i = l THEN base ELSE op[i][g[i - 1]]  BY DEF Chain
<1>2. l \in T  BY <1>1
<1>3. ASSUME NEW m \in l .. r, m # r, m \in T PROVE m + 1 \in T
  <2>1. m + 1 \in l .. r /\ m + 1 # l /\ (m + 1) - 1 = m  BY <1>3
  <2>2. g[m + 1] = op[m + 1][g[m]]  BY <1>1, <2>1
  <2>3. g[m + 1] \in W[m + 1]  BY <1>3, <2>2
  <2>. QED  BY <2>1, <2>3
<1>4. \A i \in l .. r : i \in T
  <2>. HIDE DEF T
  <2>. QED  BY <1>2, <1>3, IntervalInduction
<1>. QED  BY <1>1, <1>4

\* The element of each subset that a fold takes last.
IsPick(pick, S) == \A s \in SUBSET S : s # {} => pick[s] \in s

\* With s minus the element that is chosen for it, T has also s.
Refills(T, pick, S) == \A s \in SUBSET S : s # {} /\ s \ {pick[s]} \in T => s \in T

\* A set of subsets of a finite set is all of them if it has the empty set and,
\* with s minus an element of s that is chosen for it, also s.
LEMMA SubsetInduction ==
    ASSUME NEW S, IsFiniteSet(S), NEW pick, IsPick(pick, S),
           NEW T \in SUBSET SUBSET S, {} \in T, Refills(T, pick, S)
    PROVE  T = SUBSET S
<1>. DEFINE Sized == {n \in Nat : \A s \in SUBSET S : Cardinality(s) = n => s \in T}
<1>1. 0 \in Sized
  <2>1. \A s \in SUBSET S : Cardinality(s) = 0 => s = {}  BY FS_Subset, FS_EmptySet
  <2>. QED  BY <2>1
<1>2. ASSUME NEW n \in Sized PROVE n + 1 \in Sized
  <2>1. SUFFICES ASSUME NEW s \in SUBSET S, Cardinality(s) = n + 1 PROVE s \in T  OBVIOUS
  <2>2. s # {}  BY <2>1, FS_EmptySet
  <2>3. IsFiniteSet(s) /\ pick[s] \in s  BY <2>2, FS_Subset DEF IsPick
  <2>4. Cardinality(s \ {pick[s]}) = n
    <3>. DEFINE x == pick[s]
    <3>1. x \in s  BY <2>3
    <3>. HIDE DEF x
    <3>2. Cardinality(s \ {x}) = Cardinality(s) - 1  BY <2>3, <3>1, FS_RemoveElement
    <3>. QED  BY <2>1, <3>2 DEF x
  <2>5. s \ {pick[s]} \in T  BY <2>4
  <2>. QED  BY <2>2, <2>5 DEF Refills
<1>3. Sized = Nat
  <2>. HIDE DEF Sized
  <2>. QED  BY <1>1, <1>2, NatSetInduction DEF Sized
<1>. QED
  <2>1. SUFFICES ASSUME NEW s \in SUBSET S PROVE s \in T  OBVIOUS
  <2>2. Cardinality(s) \in Nat  BY FS_Subset, FS_CardinalityType
  <2>. QED  BY <1>3, <2>2

\* What a fold over a finite set takes the value of: the function that gives
\* the result for each subset, the chosen element of which is folded in last.
Folding(g, S, base, op, pick) ==
    \A s \in SUBSET S : g[s] = IF s = {} THEN base ELSE op[pick[s]][g[s \ {pick[s]}]]

\* There is such a function, with results of the type of op.
LEMMA FoldExists ==
    ASSUME NEW S, IsFiniteSet(S), NEW pick, IsPick(pick, S),
           NEW V, NEW base \in V, NEW op \in [S -> [V -> V]]
    PROVE  \E g \in [SUBSET S -> V] : Folding(g, S, base, op, pick)
<1>. DEFINE Small(n) == {s \in SUBSET S : Cardinality(s) <= n}
            Step(g, s) == IF s = {} THEN base ELSE op[pick[s]][g[s \ {pick[s]}]]
            Reached(n) == \E g \in [Small(n) -> V] : \A s \in Small(n) : g[s] = Step(g, s)
<1>1. \A s \in SUBSET S : IsFiniteSet(s) /\ Cardinality(s) \in Nat /\ (Cardinality(s) = 0 <=> s = {})
  BY FS_Subset, FS_CardinalityType, FS_EmptySet
<1>2. Reached(0)
  <2>1. \A s \in Small(0) : s = {}  BY <1>1
  <2>2. [s \in Small(0) |-> base] \in [Small(0) -> V]  OBVIOUS
  <2>3. \A s \in Small(0) : [t \in Small(0) |-> base][s] = Step([t \in Small(0) |-> base], s)  BY <2>1
  <2>. QED  BY <2>2, <2>3
<1>3. ASSUME NEW n \in Nat, Reached(n) PROVE Reached(n + 1)
  <2>1. PICK g \in [Small(n) -> V] : \A s \in Small(n) : g[s] = Step(g, s)  BY <1>3
  <2>. DEFINE h == [s \in Small(n + 1) |-> Step(g, s)]
  <2>2. ASSUME NEW s \in Small(n + 1), s # {}
        PROVE  pick[s] \in S /\ s \ {pick[s]} \in Small(n)
    <3>1. pick[s] \in s  BY <2>2 DEF IsPick
    <3>2. Cardinality(s \ {pick[s]}) = Cardinality(s) - 1  BY <1>1, <3>1, FS_RemoveElement
    <3>. QED  BY <1>1, <3>1, <3>2
  <2>3. ASSUME NEW s \in Small(n) PROVE s \in Small(n + 1) /\ h[s] = g[s]
    <3>1. s \in Small(n + 1)  BY <1>1
    <3>2. h[s] = Step(g, s)  BY <3>1
    <3>. QED  BY <2>1, <3>1, <3>2
  <2>4. h \in [Small(n + 1) -> V]
    <3>1. ASSUME NEW s \in Small(n + 1) PROVE Step(g, s) \in V
      <4>1. CASE s = {}  BY <4>1
      <4>2. CASE s # {}
        <5>1. pick[s] \in S /\ g[s \ {pick[s]}] \in V  BY <2>1, <2>2, <4>2
        <5>2. op[pick[s]] \in [V -> V]  BY <5>1
        <5>3. op[pick[s]][g[s \ {pick[s]}]] \in V  BY <5>1, <5>2
        <5>. QED  BY <4>2, <5>3
      <4>. QED  BY <4>1, <4>2
    <3>. HIDE DEF Step
    <3>. QED  BY <3>1
  <2>5. ASSUME NEW s \in Small(n + 1) PROVE h[s] = Step(h, s)
    <3>1. CASE s = {}  BY <3>1
    <3>2. CASE s # {}
      <4>1. h[s \ {pick[s]}] = g[s \ {pick[s]}]  BY <2>2, <2>3, <3>2
      <4>2. h[s] = Step(g, s)  OBVIOUS
      <4>. HIDE DEF h
      <4>. QED  BY <4>1, <4>2
    <3>. QED  BY <3>1, <3>2
  <2>. HIDE DEF h
  <2>. QED  BY <2>4, <2>5
<1>4. \A n \in Nat : Reached(n)
  <2>. HIDE DEF Reached
  <2>. DEFINE Upto == {n \in Nat : Reached(n)}
  <2>1. Upto \in SUBSET Nat /\ 0 \in Upto /\ \A n \in Upto : n + 1 \in Upto  BY <1>2, <1>3
  <2>. HIDE DEF Upto
  <2>2. Upto = Nat  BY <2>1, NatSetInduction
  <2>. QED  BY <2>2 DEF Upto
<1>5. Small(Cardinality(S)) = SUBSET S /\ Cardinality(S) \in Nat  BY <1>1, FS_Subset, FS_CardinalityType
<1>6. Reached(Cardinality(S))  BY <1>4, <1>5
<1>7. PICK g \in [Small(Cardinality(S)) -> V] : \A s \in Small(Cardinality(S)) : g[s] = Step(g, s)  BY <1>6
<1>. QED
  <2>1. g \in [SUBSET S -> V] /\ \A s \in SUBSET S : g[s] = Step(g, s)
    <3>. HIDE DEF Small, Step
    <3>. QED  BY <1>5, <1>7
  <2>. QED  BY <2>1 DEF Folding

\* Any function that gives the result for each subset has results of a type
\* that each step keeps, so that it does not matter which one is taken.
LEMMA FoldType ==
    ASSUME NEW S, IsFiniteSet(S), NEW pick, IsPick(pick, S),
           NEW V, NEW g, g[{}] \in V,
           \A s \in SUBSET S : s # {} /\ g[s \ {pick[s]}] \in V => g[s] \in V
    PROVE  \A s \in SUBSET S : g[s] \in V
<1>. DEFINE T == {s \in SUBSET S : g[s] \in V}
<1>1. {} \in T /\ Refills(T, pick, S)  BY DEF Refills
<1>. HIDE DEF T
<1>2. T \in SUBSET SUBSET S  BY DEF T
<1>3. T = SUBSET S  BY <1>1, <1>2, SubsetInduction
<1>. QED  BY <1>3 DEF T

\* A set of integers that is bounded has a greatest element.
LEMMA GreatestExists ==
    ASSUME NEW S \in SUBSET Int, S # {}, NEW b \in Int, \A x \in S : x <= b
    PROVE  \E x \in S : \A y \in S : x >= y
<1>. DEFINE Above == {n \in Nat : \A x \in S : x <= b - n}
<1>1. ASSUME \A x \in S : \E y \in S : ~(x >= y) PROVE FALSE
  <2>1. 0 \in Above  OBVIOUS
  <2>2. ASSUME NEW n \in Above PROVE n + 1 \in Above
    <3>1. ASSUME NEW x \in S PROVE x <= b - (n + 1)
      <4>1. PICK y \in S : ~(x >= y)  BY <1>1
      <4>. QED  BY <4>1
    <3>. QED  BY <3>1
  <2>3. Above = Nat
    <3>. HIDE DEF Above
    <3>1. Above \in SUBSET Nat  BY DEF Above
    <3>. QED  BY <2>1, <2>2, <3>1, NatSetInduction
  <2>4. PICK x \in S : TRUE  OBVIOUS
  <2>5. b - x + 1 \in Above
    <3>1. b - x + 1 \in Nat  BY <2>4
    <3>. QED  BY <2>3, <3>1
  <2>. QED  BY <2>4, <2>5
<1>. QED  BY <1>1

\* A set of natural numbers has a least element.
LEMMA LeastExists ==
    ASSUME NEW S \in SUBSET Nat, S # {}
    PROVE  \E x \in S : \A y \in S : x <= y
<1>. DEFINE Less == OpToRel(<, Nat)
<1>1. IsWellFoundedOn(Less, Nat)  BY NatLessThanWellFounded
<1>2. PICK m \in S : \A k \in S : <<k, m>> \notin Less
  <2>. HIDE DEF Less
  <2>. QED  BY <1>1, WFMin
<1>3. ASSUME NEW k \in S PROVE m <= k
  <2>1. ~(k < m)  BY <1>2 DEF OpToRel
  <2>. QED  BY <2>1
<1>. QED  BY <1>3

-----------------------------------------------------------------------------
(* Rings of N places                                                        *)

LEMMA ModUnique ==
    ASSUME NEW N \in Nat \ {0}, NEW a \in Int, NEW q \in Int, NEW r \in 0 .. N - 1, a = N * q + r
    PROVE  a % N = r
  OBVIOUS

LEMMA ModSplit ==
    ASSUME NEW N \in Nat \ {0}, NEW a \in Int
    PROVE  \E q \in Int : a % N \in 0 .. N - 1 /\ a = N * q + (a % N)
<1>1. a % N \in 0 .. N - 1  OBVIOUS
<1>2. a \div N \in Int  OBVIOUS
<1>3. a = N * (a \div N) + (a % N)  OBVIOUS
<1>. QED  BY <1>1, <1>2, <1>3

\* The number after one and the one before, in a ring of N.
After(N, i) == IF i = N - 1 THEN 0 ELSE i + 1
Before(N, i) == IF i = 0 THEN N - 1 ELSE i - 1

LEMMA ModAfter ==
    ASSUME NEW N \in Nat \ {0}, NEW a \in Int
    PROVE  a % N \in 0 .. N - 1 /\ (a + 1) % N = After(N, a % N)
<1>1. PICK q \in Int : a % N \in 0 .. N - 1 /\ a = N * q + (a % N)  BY ModSplit
<1>. DEFINE r == a % N
<1>2. r \in 0 .. N - 1 /\ a = N * q + r  BY <1>1
<1>. HIDE DEF r
<1>3. CASE r = N - 1
  <2>1. a + 1 = N * (q + 1) + 0  BY <1>2, <1>3
  <2>. DEFINE x == a + 1
  <2>2. x = N * (q + 1) + 0 /\ x \in Int /\ q + 1 \in Int /\ 0 \in 0 .. N - 1  BY <2>1
  <2>. HIDE DEF x
  <2>3. x % N = 0  BY <2>2, ModUnique
  <2>. QED  BY <1>2, <1>3, <2>3 DEF After, r, x
<1>4. CASE r # N - 1
  <2>1. a + 1 = N * q + (r + 1) /\ r + 1 \in 0 .. N - 1  BY <1>2, <1>4
  <2>. DEFINE x == a + 1
              y == r + 1
  <2>2. x = N * q + y /\ x \in Int /\ y \in 0 .. N - 1  BY <2>1
  <2>. HIDE DEF x, y
  <2>3. x % N = y  BY <2>2, ModUnique
  <2>. QED  BY <1>2, <1>4, <2>3 DEF After, r, x, y
<1>. QED  BY <1>3, <1>4

LEMMA ModAdd ==
    ASSUME NEW N \in Nat \ {0}, NEW a \in Int, NEW c \in Int
    PROVE  (a + c) % N = ((a % N) + c) % N
<1>1. PICK q \in Int : a % N \in 0 .. N - 1 /\ a = N * q + (a % N)  BY ModSplit
<1>. DEFINE r == a % N
<1>2. r \in 0 .. N - 1 /\ a = N * q + r  BY <1>1
<1>. HIDE DEF r
<1>3. r + c \in Int  BY <1>2
<1>4. PICK p \in Int : (r + c) % N \in 0 .. N - 1 /\ r + c = N * p + ((r + c) % N)  BY <1>3, ModSplit
<1>. DEFINE s == (r + c) % N
<1>5. s \in 0 .. N - 1 /\ r + c = N * p + s  BY <1>4
<1>. HIDE DEF s
<1>6. a + c = N * (q + p) + s /\ q + p \in Int
  <2>1. N * (q + p) = N * q + N * p  OBVIOUS
  <2>. QED  BY <1>2, <1>5, <2>1
<1>. DEFINE x == a + c
            y == q + p
<1>7. x = N * y + s /\ x \in Int /\ y \in Int  BY <1>6
<1>. HIDE DEF x, y
<1>8. x % N = s  BY <1>5, <1>7, ModUnique
<1>. QED  BY <1>8 DEF s, r, x

LEMMA ModNear ==
    ASSUME NEW N \in Nat \ {0}, NEW a \in 0 .. N - 1
    PROVE  a % N = a /\ (a + N) % N = a
           /\ After(N, a) \in 0 .. N - 1 /\ Before(N, a) \in 0 .. N - 1
           /\ Before(N, After(N, a)) = a /\ After(N, Before(N, a)) = a
           /\ (a + 1) % N = After(N, a) /\ (a - 1 + N) % N = Before(N, a)
<1>1. a % N = a /\ (a + N) % N = a  OBVIOUS
<1>2. (a + 1) % N = After(N, a)
  <2>0. a \in Int  OBVIOUS
  <2>1. (a + 1) % N = After(N, a % N)  BY <2>0, ModAfter
  <2>. QED  BY <1>1, <2>1
<1>3. (a - 1 + N) % N = Before(N, a)
  <2>1. CASE a = 0  BY <2>1 DEF Before
  <2>2. CASE a # 0
    <3>1. a - 1 \in 0 .. N - 1  BY <2>2
    <3>. QED  BY <3>1, <2>2 DEF Before
  <2>. QED  BY <2>1, <2>2
<1>. QED  BY <1>1, <1>2, <1>3 DEF After, Before

\* From anywhere each place of the ring is less than N steps away.
LEMMA ModReach ==
    ASSUME NEW N \in Nat \ {0}, NEW k \in Nat, NEW g \in 0 .. N - 1
    PROVE  \E n \in 0 .. N - 1 : (k + n) % N = g
<1>. DEFINE r == k % N
            n == IF g >= r THEN g - r ELSE g - r + N
<1>1. r \in 0 .. N - 1  OBVIOUS
<1>2. ASSUME NEW m \in Int PROVE (k + m) % N = (r + m) % N
  <2>1. k \in Int  OBVIOUS
  <2>. QED  BY <2>1, ModAdd
<1>. HIDE DEF r
<1>3. n \in 0 .. N - 1  BY <1>1
<1>4. (r + n) % N = g
  <2>1. CASE g >= r
    <3>1. r + n = g  BY <2>1, <1>1
    <3>. HIDE DEF n
    <3>. QED  BY <3>1
  <2>2. CASE ~(g >= r)
    <3>1. r + n = g + N  BY <2>2, <1>1
    <3>. HIDE DEF n
    <3>. QED  BY <3>1
  <2>. QED  BY <2>1, <2>2
<1>. HIDE DEF n
<1>5. (k + n) % N = g  BY <1>2, <1>3, <1>4
<1>. QED  BY <1>3, <1>5

-----------------------------------------------------------------------------
(* Sequences                                                                *)

\* A sequence without its i-th item.
LEMMA RemoveFacts ==
    ASSUME NEW S, NEW s \in Seq(S), NEW i \in 1 .. Len(s)
    PROVE  /\ SX!RemoveAt(s, i) \in Seq(S) /\ Len(SX!RemoveAt(s, i)) = Len(s) - 1
           /\ \A j \in 1 .. Len(s) - 1 : SX!RemoveAt(s, i)[j] = IF j < i THEN s[j] ELSE s[j + 1]
<1>. DEFINE a == SubSeq(s, 1, i - 1)
            b == SubSeq(s, i + 1, Len(s))
<1>1. Len(s) \in Nat /\ \A j \in 1 .. Len(s) : s[j] \in S  BY ElementOfSeq, LenProperties
<1>2. a \in Seq(S) /\ Len(a) = i - 1 /\ \A j \in 1 .. i - 1 : a[j] = s[j]  BY <1>1, SubSeqProperties
<1>3. b \in Seq(S) /\ Len(b) = Len(s) - i /\ \A j \in 1 .. Len(s) - i : b[j] = s[i + j]
  BY <1>1, SubSeqProperties
<1>. HIDE DEF a, b
<1>4. /\ a \o b \in Seq(S) /\ Len(a \o b) = Len(a) + Len(b)
      /\ \A j \in 1 .. Len(a) + Len(b) : (a \o b)[j] = IF j <= Len(a) THEN a[j] ELSE b[j - Len(a)]
  BY <1>2, <1>3, ConcatProperties
<1>5. Len(a) + Len(b) = Len(s) - 1  BY <1>1, <1>2, <1>3
<1>6. ASSUME NEW j \in 1 .. Len(s) - 1 PROVE (a \o b)[j] = IF j < i THEN s[j] ELSE s[j + 1]
  <2>1. CASE j < i  BY <1>1, <1>2, <1>4, <1>5, <2>1
  <2>2. CASE j >= i
    <3>1. PICK k \in 1 .. Len(s) - i : k = j - (i - 1)  BY <1>1, <2>2
    <3>2. j \in 1 .. Len(a) + Len(b) /\ ~(j <= Len(a)) /\ k = j - Len(a) /\ i + k = j + 1
      BY <1>1, <1>2, <1>5, <2>2, <3>1
    <3>3. (a \o b)[j] = b[k]  BY <1>4, <3>2
    <3>4. b[k] = s[i + k]  BY <1>3
    <3>. QED  BY <2>2, <3>2, <3>3, <3>4
  <2>3. j < i \/ j >= i  OBVIOUS
  <2>. QED  BY <2>1, <2>2, <2>3
<1>. QED  BY <1>4, <1>5, <1>6 DEF SX!RemoveAt, a, b

\* A sequence with an item before its i-th.
LEMMA InsertFacts ==
    ASSUME NEW S, NEW s \in Seq(S), NEW i \in 1 .. Len(s) + 1, NEW e \in S
    PROVE  /\ SX!InsertAt(s, i, e) \in Seq(S) /\ Len(SX!InsertAt(s, i, e)) = Len(s) + 1
           /\ \A j \in 1 .. Len(s) + 1 :
                 SX!InsertAt(s, i, e)[j] = IF j < i THEN s[j] ELSE IF j = i THEN e ELSE s[j - 1]
<1>. DEFINE a == SubSeq(s, 1, i - 1)
            b == SubSeq(s, i, Len(s))
<1>1. Len(s) \in Nat /\ \A j \in 1 .. Len(s) : s[j] \in S  BY ElementOfSeq, LenProperties
<1>2. a \in Seq(S) /\ Len(a) = i - 1 /\ \A j \in 1 .. i - 1 : a[j] = s[j]  BY <1>1, SubSeqProperties
<1>3. b \in Seq(S) /\ Len(b) = Len(s) + 1 - i /\ \A j \in 1 .. Len(s) + 1 - i : b[j] = s[i + j - 1]
  BY <1>1, SubSeqProperties
<1>4. <<e>> \in Seq(S) /\ Len(<<e>>) = 1 /\ <<e>>[1] = e  OBVIOUS
<1>. HIDE DEF a, b
<1>5. a \o <<e>> \in Seq(S) /\ Len(a \o <<e>>) = i
      /\ \A j \in 1 .. i : (a \o <<e>>)[j] = IF j <= i - 1 THEN a[j] ELSE <<e>>[j - (i - 1)]
  BY <1>1, <1>2, <1>4, ConcatProperties
<1>6. \A j \in 1 .. i : (a \o <<e>>)[j] = IF j < i THEN s[j] ELSE e
  BY <1>1, <1>2, <1>4, <1>5
<1>. DEFINE ae == a \o <<e>>
<1>. HIDE DEF ae
<1>7. ae \in Seq(S) /\ Len(ae) = i /\ \A j \in 1 .. i : ae[j] = IF j < i THEN s[j] ELSE e  BY <1>5, <1>6 DEF ae
<1>8. /\ ae \o b \in Seq(S) /\ Len(ae \o b) = Len(ae) + Len(b)
      /\ \A j \in 1 .. Len(ae) + Len(b) : (ae \o b)[j] = IF j <= Len(ae) THEN ae[j] ELSE b[j - Len(ae)]
  BY <1>3, <1>7, ConcatProperties
<1>9. Len(ae) + Len(b) = Len(s) + 1  BY <1>1, <1>3, <1>7
<1>10. ASSUME NEW j \in 1 .. Len(s) + 1
       PROVE  (ae \o b)[j] = IF j < i THEN s[j] ELSE IF j = i THEN e ELSE s[j - 1]
  <2>1. CASE j <= i  BY <1>1, <1>7, <1>8, <1>9, <2>1
  <2>2. CASE j > i
    <3>1. PICK k \in 1 .. Len(s) + 1 - i : k = j - i  BY <1>1, <2>2
    <3>2. j \in 1 .. Len(ae) + Len(b) /\ ~(j <= Len(ae)) /\ k = j - Len(ae) /\ i + k - 1 = j - 1
      BY <1>1, <1>7, <1>9, <2>2, <3>1
    <3>3. (ae \o b)[j] = b[k]  BY <1>8, <3>2
    <3>4. b[k] = s[i + k - 1]  BY <1>3
    <3>. QED  BY <2>2, <3>2, <3>3, <3>4
  <2>3. j <= i \/ j > i  BY <1>1
  <2>. QED  BY <2>1, <2>2, <2>3
<1>. QED  BY <1>8, <1>9, <1>10 DEF SX!InsertAt, ae, a, b
=============================================================================
