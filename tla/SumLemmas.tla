------------------------------ MODULE SumLemmas -----------------------------
(***************************************************************************)
(* Sums over a finite set, as the Functions module defines them            *)
(* (SumFunction): that they exist and do not depend on the order of the    *)
(* terms, how they change with a term, and how they add up. SumFunction is *)
(* a function chosen on the subsets of its domain; its equation is proved  *)
(* here by induction on their size, for which the set of the sizes takes   *)
(* the place of the predicate.                                             *)
(***************************************************************************)
EXTENDS Integers, Functions, WellFoundedInduction, FiniteSetTheorems, TLAPS

(* Induction over a set: what holds 0 and with each number the next one    *)
(* holds all of them.                                                      *)
LEMMA NatSets ==
    ASSUME NEW T, 0 \in T, \A n \in Nat : n \in T => n + 1 \in T
    PROVE  Nat \subseteq T
<1> SUFFICES ASSUME Nat \ T # {}
             PROVE  FALSE
  OBVIOUS
<1>1. PICK R : R = OpToRel(<, Nat)
  OBVIOUS
<1>2. IsWellFoundedOn(R, Nat)
  BY <1>1, NatLessThanWellFounded, Zenon
<1>3. \A x, y \in Nat : x < y => <<x, y>> \in R
  BY <1>1 DEF OpToRel
<1>4. PICK x \in Nat \ T : \A y \in Nat \ T : ~(<<y, x>> \in R)
  <2>1. Nat \ T \subseteq Nat
    OBVIOUS
  <2> QED
    BY <1>2, <2>1, WFMin, Zenon
<1>5. x \in Nat /\ x - 1 \in Nat \ T /\ x - 1 < x
  <2>1. x # 0 /\ x \in Nat
    BY <1>4
  <2>2. PICK n \in Nat : n = x - 1
    BY <2>1
  <2>3. n + 1 = x /\ n < x
    BY <2>1, <2>2
  <2> QED
    BY <1>4, <2>1, <2>2, <2>3
<1>6. <<x - 1, x>> \in R
  BY <1>3, <1>5
<1> QED
  BY <1>4, <1>5, <1>6

(* A set without one of its elements has one element less.                 *)
LEMMA OneLess ==
    ASSUME NEW S, IsFiniteSet(S), NEW x \in S, NEW n \in Nat, Cardinality(S) = n + 1
    PROVE  Cardinality(S \ {x}) = n
<1>1. Cardinality(S \ {x}) = Cardinality(S) - 1
  BY FS_RemoveElement
<1> QED
  BY <1>1

(* The element that the sum takes first, ...                               *)
SumPick(s) == CHOOSE x \in s : TRUE

(* ... the sum by what is left, ...                                        *)
SumStep(g, h, s) == IF s = {} THEN 0 ELSE g[SumPick(s)] + h[s \ {SumPick(s)}]

(* ... and the function of subsets that SumFunction looks up.              *)
SumIter(g, S) == CHOOSE h : h = [s \in SUBSET S |-> SumStep(g, h, s)]

(* SumFunction as the function of subsets.                                 *)
LEMMA Unfold == ASSUME NEW g PROVE SumFunction(g) = SumIter(g, DOMAIN g)[DOMAIN g]
BY DEF SumFunction, SumFunctionOnSet, FoldFunctionOnSet, MapThenFoldSet, SumIter, SumStep, SumPick

(* The element taken first is one of the set.                              *)
LEMMA Picked == \A s : s # {} => SumPick(s) \in s
BY Zenon DEF SumPick

(* A family that holds the empty set, and with each rest what it is the    *)
(* rest of, holds every subset of a finite set.                            *)
LEMMA PickSets ==
    ASSUME NEW S, IsFiniteSet(S), NEW T, {} \in T,
           \A U \in SUBSET S : U # {} /\ U \ {SumPick(U)} \in T => U \in T
    PROVE  SUBSET S \subseteq T
<1>1. PICK N : N = {n \in Nat : \A U \in SUBSET S : Cardinality(U) = n => U \in T}
  OBVIOUS
<1>2. 0 \in N
  <2> SUFFICES ASSUME NEW U \in SUBSET S, Cardinality(U) = 0
               PROVE  U \in T
    BY <1>1
  <2> QED
    BY FS_Subset, FS_EmptySet
<1>3. ASSUME NEW n \in Nat, n \in N
      PROVE  n + 1 \in N
  <2> SUFFICES ASSUME NEW U \in SUBSET S, Cardinality(U) = n + 1
               PROVE  U \in T
    BY <1>1
  <2>1. IsFiniteSet(U) /\ U # {}
    BY FS_Subset, FS_EmptySet
  <2>2. SumPick(U) \in U
    BY <2>1, Picked
  <2>3. Cardinality(U \ {SumPick(U)}) = n
    BY <2>1, <2>2, OneLess
  <2>4. U \ {SumPick(U)} \in T
    BY <1>1, <1>3, <2>3
  <2> QED
    BY <2>1, <2>4
<1>4. Nat \subseteq N
  BY <1>2, <1>3, NatSets, Zenon
<1>5. \A U \in SUBSET S : Cardinality(U) \in Nat
  BY FS_Subset, FS_CardinalityType
<1> QED
  BY <1>1, <1>4, <1>5

(* A family that holds the empty set and grows by any element holds the    *)
(* finite set.                                                             *)
LEMMA FinSets ==
    ASSUME NEW S, IsFiniteSet(S), NEW T, {} \in T,
           \A U \in SUBSET S : \A x \in S \ U : U \in T => U \cup {x} \in T
    PROVE  S \in T
<1>1. ASSUME NEW U \in SUBSET S, U # {}, U \ {SumPick(U)} \in T
      PROVE  U \in T
  <2>1. SumPick(U) \in U /\ SumPick(U) \in S \ (U \ {SumPick(U)}) /\ U \ {SumPick(U)} \in SUBSET S
    BY <1>1, Picked
  <2>2. (U \ {SumPick(U)}) \cup {SumPick(U)} = U
    BY <2>1
  <2>3. (U \ {SumPick(U)}) \cup {SumPick(U)} \in T
    BY <1>1, <2>1
  <2> QED
    BY <2>2, <2>3
<1>2. SUBSET S \subseteq T
  BY <1>1, PickSets, Zenon
<1> QED
  BY <1>2

(* The subsets with at most n elements.                                    *)
SubsetsUpTo(S, n) == {s \in SUBSET S : Cardinality(s) <= n}

(* There is a function of the subsets as the CHOOSE of SumIter asks.       *)
LEMMA IterExists ==
    ASSUME NEW S, IsFiniteSet(S), NEW g \in [S -> Int]
    PROVE  \E h \in [SUBSET S -> Int] : \A s \in SUBSET S : h[s] = SumStep(g, h, s)
<1>1. PICK N : N = {n \in Nat : \E h \in [SubsetsUpTo(S, n) -> Int] :
                       \A s \in SubsetsUpTo(S, n) : h[s] = SumStep(g, h, s)}
  OBVIOUS
<1>2. 0 \in N
  <2>1. SubsetsUpTo(S, 0) = {{}}
    <3>1. \A s \in SUBSET S : Cardinality(s) \in Nat /\ (Cardinality(s) = 0 <=> s = {})
      BY FS_Subset, FS_EmptySet, FS_CardinalityType
    <3> QED
      BY <3>1, FS_EmptySet DEF SubsetsUpTo
  <2>2. PICK h : h = [s \in SubsetsUpTo(S, 0) |-> 0]
    OBVIOUS
  <2>3. h \in [SubsetsUpTo(S, 0) -> Int] /\ \A s \in SubsetsUpTo(S, 0) : h[s] = SumStep(g, h, s)
    BY <2>1, <2>2 DEF SumStep
  <2> QED
    BY <1>1, <2>3
<1>3. ASSUME NEW n \in Nat, n \in N
      PROVE  n + 1 \in N
  <2>1. PICK h \in [SubsetsUpTo(S, n) -> Int] : \A s \in SubsetsUpTo(S, n) : h[s] = SumStep(g, h, s)
    BY <1>1, <1>3
  <2>2. PICK k : k = [s \in SubsetsUpTo(S, n + 1) |-> SumStep(g, h, s)]
    OBVIOUS
  <2>3. ASSUME NEW s \in SubsetsUpTo(S, n + 1), s # {}
        PROVE  SumPick(s) \in S /\ s \ {SumPick(s)} \in SubsetsUpTo(S, n) /\ s \ {SumPick(s)} \in SubsetsUpTo(S, n + 1)
    <3>1. SumPick(s) \in s /\ s \in SUBSET S /\ Cardinality(s) <= n + 1
      BY <2>3, Picked DEF SubsetsUpTo
    <3>2. IsFiniteSet(s) /\ Cardinality(s) \in Nat
      BY <3>1, FS_Subset, FS_CardinalityType
    <3>3. Cardinality(s \ {SumPick(s)}) = Cardinality(s) - 1
      BY <3>1, <3>2, FS_RemoveElement
    <3>4. s \ {SumPick(s)} \in SUBSET S
      BY <3>1
    <3> QED
      BY <3>1, <3>2, <3>3, <3>4 DEF SubsetsUpTo
  <2>4. k \in [SubsetsUpTo(S, n + 1) -> Int]
    <3> SUFFICES ASSUME NEW s \in SubsetsUpTo(S, n + 1)
                 PROVE  SumStep(g, h, s) \in Int
      BY <2>2
    <3>1. CASE s = {}
      BY <3>1 DEF SumStep
    <3>2. CASE s # {}
      BY <2>3, <3>2 DEF SumStep
    <3> QED
      BY <3>1, <3>2
  <2>5. \A s \in SubsetsUpTo(S, n) : s \in SubsetsUpTo(S, n + 1) /\ k[s] = h[s]
    <3>1. \A s \in SUBSET S : Cardinality(s) \in Nat
      BY FS_Subset, FS_CardinalityType
    <3>2. \A s \in SubsetsUpTo(S, n) : s \in SubsetsUpTo(S, n + 1)
      BY <3>1 DEF SubsetsUpTo
    <3> QED
      BY <2>1, <2>2, <3>2
  <2>6. \A s \in SubsetsUpTo(S, n + 1) : k[s] = SumStep(g, k, s)
    <3> SUFFICES ASSUME NEW s \in SubsetsUpTo(S, n + 1)
                 PROVE  SumStep(g, h, s) = SumStep(g, k, s)
      BY <2>2
    <3>1. CASE s = {}
      BY <3>1 DEF SumStep
    <3>2. CASE s # {}
      BY <2>3, <2>5, <3>2 DEF SumStep
    <3> QED
      BY <3>1, <3>2
  <2> QED
    BY <1>1, <2>4, <2>6
<1>4. Cardinality(S) \in N
  <2>1. Nat \subseteq N
    BY <1>2, <1>3, NatSets, Zenon
  <2> QED
    BY <2>1, FS_CardinalityType
<1>5. SubsetsUpTo(S, Cardinality(S)) = SUBSET S
  BY FS_Subset DEF SubsetsUpTo
<1>6. PICK h \in [SUBSET S -> Int] : \A s \in SUBSET S : h[s] = SumStep(g, h, s)
  BY <1>1, <1>4, <1>5
<1> QED
  BY <1>6

(* What is chosen satisfies its equation.                                  *)
LEMMA IterDef ==
    ASSUME NEW S, IsFiniteSet(S), NEW g \in [S -> Int]
    PROVE  /\ SumIter(g, S) \in [SUBSET S -> Int]
           /\ \A s \in SUBSET S : SumIter(g, S)[s] = SumStep(g, SumIter(g, S), s)
<1>1. PICK h : h = SumIter(g, S)
  OBVIOUS
<1>3. PICK k \in [SUBSET S -> Int] : \A s \in SUBSET S : k[s] = SumStep(g, k, s)
  BY IterExists
<1>2. h = [s \in SUBSET S |-> SumStep(g, h, s)]
  <2>1. k = [s \in SUBSET S |-> SumStep(g, k, s)]
    BY <1>3
  <2> QED
    BY <1>1, <2>1, Zenon DEF SumIter
<1>5. \A s \in SUBSET S : h[s] = k[s]
  <2>1. PICK T : T = {s \in SUBSET S : h[s] = k[s]}
    OBVIOUS
  <2>2. {} \in T
    BY <1>2, <1>3, <2>1 DEF SumStep
  <2>3. ASSUME NEW U \in SUBSET S, U # {}, U \ {SumPick(U)} \in T
        PROVE  U \in T
    BY <1>2, <1>3, <2>1, <2>3 DEF SumStep
  <2>4. SUBSET S \subseteq T
    BY <2>2, <2>3, PickSets, Zenon
  <2> QED
    BY <2>1, <2>4
<1>6. h = k
  BY <1>2, <1>3, <1>5
<1> QED
  BY <1>1, <1>3, <1>6

(* The sum over a subset is what the function tells of it.                 *)
LEMMA IterSub ==
    ASSUME NEW S, IsFiniteSet(S), NEW g \in [S -> Int], NEW U \in SUBSET S,
           NEW k \in [U -> Int], \A x \in U : k[x] = g[x]
    PROVE  SumFunction(k) = SumIter(g, S)[U]
<1>1. PICK i : i = SumIter(g, S)
  OBVIOUS
<1>2. PICK j : j = SumIter(k, U)
  OBVIOUS
<1>3. IsFiniteSet(U)
  BY FS_Subset
<1>4. \A s \in SUBSET S : i[s] = SumStep(g, i, s)
  BY <1>1, IterDef
<1>5. \A s \in SUBSET U : j[s] = SumStep(k, j, s)
  BY <1>2, <1>3, IterDef
<1>6. PICK T : T = {s \in SUBSET U : j[s] = i[s]}
  OBVIOUS
<1>7. {} \in T
  BY <1>4, <1>5, <1>6 DEF SumStep
<1>8. ASSUME NEW s \in SUBSET U, s # {}, s \ {SumPick(s)} \in T
      PROVE  s \in T
  <2>1. SumPick(s) \in U
    BY <1>8, Picked
  <2> QED
    BY <1>4, <1>5, <1>6, <1>8, <2>1 DEF SumStep
<1>9. SUBSET U \subseteq T
  BY <1>3, <1>7, <1>8, PickSets, Zenon
<1>10. SumFunction(k) = j[U]
  BY <1>2, Unfold
<1> QED
  BY <1>1, <1>6, <1>9, <1>10

(* The sum of nothing is 0.                                                *)
LEMMA SumEmpty == ASSUME NEW g \in [{} -> Int] PROVE SumFunction(g) = 0
<1>1. IsFiniteSet({}) /\ DOMAIN g = {}
  BY FS_EmptySet
<1>2. SumIter(g, {})[{}] = SumStep(g, SumIter(g, {}), {})
  BY <1>1, IterDef
<1> QED
  BY <1>1, <1>2, Unfold DEF SumStep

(* A sum of integers is one.                                               *)
LEMMA SumType ==
    ASSUME NEW S, IsFiniteSet(S), NEW g \in [S -> Int]
    PROVE  SumFunction(g) \in Int
<1>1. S \in SUBSET S /\ SumIter(g, S) \in [SUBSET S -> Int]
  BY IterDef
<1> QED
  BY <1>1, Unfold

(* It does not matter which element is taken first.                        *)
LEMMA IterTake ==
    ASSUME NEW S, IsFiniteSet(S), NEW g \in [S -> Int]
    PROVE  \A U \in SUBSET S : \A x \in U : SumIter(g, S)[U] = g[x] + SumIter(g, S)[U \ {x}]
<1>1. PICK i : i = SumIter(g, S)
  OBVIOUS
<1>2. i \in [SUBSET S -> Int] /\ \A s \in SUBSET S : i[s] = SumStep(g, i, s)
  BY <1>1, IterDef
<1>3. PICK N : N = {n \in Nat : \A s \in SUBSET S : Cardinality(s) = n =>
                                   \A y \in s : i[s] = g[y] + i[s \ {y}]}
  OBVIOUS
<1>4. 0 \in N
  <2>1. \A s \in SUBSET S : Cardinality(s) = 0 => s = {}
    BY FS_Subset, FS_EmptySet
  <2> QED
    BY <1>3, <2>1
<1>5. ASSUME NEW n \in Nat, n \in N
      PROVE  n + 1 \in N
  <2> SUFFICES ASSUME NEW s \in SUBSET S, Cardinality(s) = n + 1, NEW y \in s
               PROVE  i[s] = g[y] + i[s \ {y}]
    BY <1>3
  <2>1. PICK p : p = SumPick(s)
    OBVIOUS
  <2>2. p \in s /\ i[s] = g[p] + i[s \ {p}]
    BY <1>2, <2>1, Picked DEF SumStep
  <2>3. CASE y = p
    BY <2>2, <2>3
  <2>4. CASE y # p
    <3>1. IsFiniteSet(s) /\ s \ {p} \in SUBSET S /\ s \ {y} \in SUBSET S
      BY FS_Subset
    <3>2. Cardinality(s \ {p}) = n /\ Cardinality(s \ {y}) = n
      BY <2>2, <3>1, OneLess
    <3>3. i[s \ {p}] = g[y] + i[(s \ {p}) \ {y}]
      BY <1>3, <1>5, <2>4, <3>1, <3>2
    <3>4. i[s \ {y}] = g[p] + i[(s \ {y}) \ {p}]
      BY <1>3, <1>5, <2>2, <2>4, <3>1, <3>2
    <3>5. (s \ {p}) \ {y} = (s \ {y}) \ {p}
      OBVIOUS
    <3>6. PICK r \in SUBSET S : r = (s \ {p}) \ {y}
      OBVIOUS
    <3>7. g[p] \in Int /\ g[y] \in Int /\ i[r] \in Int
      BY <1>2, <2>2
    <3>8. i[s \ {p}] = g[y] + i[r] /\ i[s \ {y}] = g[p] + i[r]
      BY <3>3, <3>4, <3>5, <3>6
    <3> QED
      BY <2>2, <3>7, <3>8
  <2> QED
    BY <2>3, <2>4
<1>6. Nat \subseteq N
  BY <1>4, <1>5, NatSets, Zenon
<1>7. \A U \in SUBSET S : Cardinality(U) \in Nat
  BY FS_Subset, FS_CardinalityType
<1> QED
  BY <1>1, <1>3, <1>6, <1>7

(* A sum is one of its terms and the sum of the others.                    *)
LEMMA SumTake ==
    ASSUME NEW S, IsFiniteSet(S), NEW g \in [S -> Int], NEW x \in S,
           NEW h \in [S \ {x} -> Int], \A y \in S \ {x} : h[y] = g[y]
    PROVE  SumFunction(g) = g[x] + SumFunction(h)
<1>1. PICK i : i = SumIter(g, S)
  OBVIOUS
<1>2. S \in SUBSET S /\ S \ {x} \in SUBSET S
  OBVIOUS
<1>3. i[S] = g[x] + i[S \ {x}]
  BY <1>1, <1>2, IterTake
<1>4. SumFunction(g) = i[S] /\ SumFunction(h) = i[S \ {x}]
  BY <1>1, <1>2, IterSub
<1> QED
  BY <1>3, <1>4

(* The same, from the smaller set to the larger.                           *)
LEMMA SumAdd ==
    ASSUME NEW S, IsFiniteSet(S), NEW T, NEW x, x \notin T, S = T \cup {x},
           NEW g \in [S -> Int], NEW h \in [T -> Int], \A y \in T : h[y] = g[y]
    PROVE  SumFunction(g) = g[x] + SumFunction(h)
<1>1. x \in S /\ T = S \ {x}
  OBVIOUS
<1>2. h \in [S \ {x} -> Int] /\ \A y \in S \ {x} : h[y] = g[y]
  BY <1>1
<1> QED
  BY <1>1, <1>2, SumTake

(* A sum changes by what one of its terms changes.                         *)
LEMMA SumChange ==
    ASSUME NEW S, IsFiniteSet(S), NEW g \in [S -> Int], NEW h \in [S -> Int],
           NEW x \in S, \A y \in S \ {x} : h[y] = g[y]
    PROVE  SumFunction(h) = SumFunction(g) + (h[x] - g[x])
<1>1. PICK k \in [S \ {x} -> Int] : \A y \in S \ {x} : k[y] = g[y]
  <2>1. [y \in S \ {x} |-> g[y]] \in [S \ {x} -> Int]
    OBVIOUS
  <2> QED BY <2>1
<1>2. SumFunction(g) = g[x] + SumFunction(k)
  BY <1>1, SumTake
<1>3. SumFunction(h) = h[x] + SumFunction(k)
  BY <1>1, SumTake
<1>4. IsFiniteSet(S \ {x})
  BY FS_RemoveElement
<1>5. SumFunction(k) \in Int
  BY <1>1, <1>4, SumType
<1>6. g[x] \in Int /\ h[x] \in Int
  OBVIOUS
<1> QED
  BY <1>2, <1>3, <1>5, <1>6

(* h is g where g is not 0.                                                *)
Supports(S, T, g, h) ==
    /\ IsFiniteSet(S) /\ T \in SUBSET S /\ g \in [S -> Int] /\ h \in [T -> Int]
    /\ \A x \in T : h[x] = g[x]
    /\ \A x \in S \ T : g[x] = 0

(* Terms that are 0 may be left out.                                       *)
LEMMA SumSupport ==
    ASSUME NEW S, NEW T, NEW g, NEW h, Supports(S, T, g, h)
    PROVE  SumFunction(g) = SumFunction(h)
<1> SUFFICES ASSUME IsFiniteSet(S), T \in SUBSET S, g \in [S -> Int], h \in [T -> Int],
                    \A x \in T : h[x] = g[x], \A x \in S \ T : g[x] = 0
             PROVE  SumFunction(g) = SumFunction(h)
  BY DEF Supports
<1>1. PICK i : i = SumIter(g, S)
  OBVIOUS
<1>2. i \in [SUBSET S -> Int] /\ \A U \in SUBSET S : i[U] = SumStep(g, i, U)
  BY <1>1, IterDef
<1>3. \A U \in SUBSET S : \A x \in U : i[U] = g[x] + i[U \ {x}]
  <2>1. \A U \in SUBSET S : \A x \in U : SumIter(g, S)[U] = g[x] + SumIter(g, S)[U \ {x}]
    BY IterTake, ZenonT(30)
  <2> QED
    BY ONLY <1>1, <2>1, Zenon
<1>4. PICK D : D = {U \in SUBSET S : i[U] = i[U \cap T]}
  OBVIOUS
<1>5. {} \in D
  <2>1. {} \cap T = {} /\ {} \in SUBSET S
    OBVIOUS
  <2> QED BY <1>4, <2>1
<1>6. ASSUME NEW U \in SUBSET S, U # {}, U \ {SumPick(U)} \in D
      PROVE  U \in D
  <2>1. PICK p : p = SumPick(U)
    OBVIOUS
  <2>2. p \in U /\ i[U] = g[p] + i[U \ {p}]
    BY <1>3, <1>6, <2>1, Picked
  <2>3. i[U \ {p}] = i[(U \ {p}) \cap T]
    BY <1>4, <1>6, <2>1
  <2>4. CASE p \in T
    <3>1. U \cap T \in SUBSET S /\ p \in U \cap T
      BY <2>2, <2>4
    <3>2. i[U \cap T] = g[p] + i[(U \cap T) \ {p}]
      BY <1>3, <3>1
    <3>3. (U \cap T) \ {p} = (U \ {p}) \cap T
      OBVIOUS
    <3> QED
      BY <1>4, <2>2, <2>3, <3>2, <3>3
  <2>5. CASE p \notin T
    <3>1. g[p] = 0
      BY <2>2, <2>5
    <3>2. (U \ {p}) \cap T = U \cap T /\ U \cap T \in SUBSET S
      BY <2>5
    <3>3. i[U \cap T] \in Int
      BY <1>2, <3>2
    <3>4. i[U \ {p}] = i[U \cap T]
      BY <2>3, <3>2
    <3>5. i[U] = i[U \cap T]
      BY ONLY <2>2, <3>1, <3>3, <3>4
    <3> QED
      BY <1>4, <3>5
  <2> QED
    BY <2>4, <2>5
<1>7. SUBSET S \subseteq D
  BY <1>5, <1>6, PickSets, Zenon
<1>8. S \in SUBSET S /\ S \cap T = T
  OBVIOUS
<1>9. SumFunction(g) = i[S] /\ SumFunction(h) = i[T]
  BY <1>1, <1>8, IterSub
<1> QED
  BY <1>4, <1>7, <1>8, <1>9

(* k is g and h, term by term.                                             *)
Adds(S, g, h, k) ==
    /\ IsFiniteSet(S) /\ g \in [S -> Int] /\ h \in [S -> Int] /\ k \in [S -> Int]
    /\ \A x \in S : k[x] = g[x] + h[x]

(* The sum of two sums.                                                    *)
LEMMA SumPlus ==
    ASSUME NEW S, NEW g, NEW h, NEW k, Adds(S, g, h, k)
    PROVE  SumFunction(k) = SumFunction(g) + SumFunction(h)
<1>0. IsFiniteSet(S) /\ g \in [S -> Int] /\ h \in [S -> Int] /\ k \in [S -> Int]
      /\ \A x \in S : k[x] = g[x] + h[x]
  BY DEF Adds
<1>1. PICK i : i = SumIter(g, S)
  OBVIOUS
<1>2. PICK j : j = SumIter(h, S)
  OBVIOUS
<1>3. PICK l : l = SumIter(k, S)
  OBVIOUS
<1>4. i \in [SUBSET S -> Int] /\ \A U \in SUBSET S : i[U] = SumStep(g, i, U)
  BY <1>0, <1>1, IterDef
<1>5. j \in [SUBSET S -> Int] /\ \A U \in SUBSET S : j[U] = SumStep(h, j, U)
  BY <1>0, <1>2, IterDef
<1>6. l \in [SUBSET S -> Int] /\ \A U \in SUBSET S : l[U] = SumStep(k, l, U)
  BY <1>0, <1>3, IterDef
<1>7. PICK D : D = {U \in SUBSET S : l[U] = i[U] + j[U]}
  OBVIOUS
<1>8. {} \in D
  <2>1. {} \in SUBSET S
    OBVIOUS
  <2>2. i[{}] = 0 /\ j[{}] = 0 /\ l[{}] = 0
    BY <1>4, <1>5, <1>6, <2>1 DEF SumStep
  <2> QED
    BY <1>7, <2>1, <2>2
<1>9. ASSUME NEW U \in SUBSET S, U # {}, U \ {SumPick(U)} \in D
      PROVE  U \in D
  <2>1. PICK p : p = SumPick(U)
    OBVIOUS
  <2>2. p \in S /\ p \in U
    BY <1>9, <2>1, Picked
  <2>3. i[U] = g[p] + i[U \ {p}] /\ j[U] = h[p] + j[U \ {p}] /\ l[U] = k[p] + l[U \ {p}]
    BY <1>4, <1>5, <1>6, <1>9, <2>1 DEF SumStep
  <2>4. U \ {p} \in SUBSET S /\ l[U \ {p}] = i[U \ {p}] + j[U \ {p}]
    BY <1>7, <1>9, <2>1
  <2>5. i[U \ {p}] \in Int /\ j[U \ {p}] \in Int /\ g[p] \in Int /\ h[p] \in Int
    BY <1>0, <1>4, <1>5, <2>2, <2>4
  <2> QED
    BY <1>0, <1>7, <2>2, <2>3, <2>4, <2>5
<1>10. SUBSET S \subseteq D
  BY <1>0, <1>8, <1>9, PickSets, Zenon
<1>11. SumFunction(g) = i[S] /\ SumFunction(h) = j[S] /\ SumFunction(k) = l[S]
  BY <1>0, <1>1, <1>2, <1>3, Unfold
<1> QED
  BY <1>0, <1>7, <1>10, <1>11

(* Larger terms have a larger sum.                                         *)
LEMMA SumMonotonic ==
    ASSUME NEW S, IsFiniteSet(S), NEW g \in [S -> Int], NEW h \in [S -> Int],
           \A x \in S : g[x] <= h[x]
    PROVE  SumFunction(g) <= SumFunction(h)
<1>1. PICK i : i = SumIter(g, S)
  OBVIOUS
<1>2. PICK j : j = SumIter(h, S)
  OBVIOUS
<1>4. i \in [SUBSET S -> Int] /\ \A U \in SUBSET S : i[U] = SumStep(g, i, U)
  BY <1>1, IterDef
<1>5. j \in [SUBSET S -> Int] /\ \A U \in SUBSET S : j[U] = SumStep(h, j, U)
  BY <1>2, IterDef
<1>7. PICK D : D = {U \in SUBSET S : i[U] <= j[U]}
  OBVIOUS
<1>8. {} \in D
  <2>1. {} \in SUBSET S
    OBVIOUS
  <2>2. i[{}] = 0 /\ j[{}] = 0
    BY <1>4, <1>5, <2>1 DEF SumStep
  <2> QED
    BY <1>7, <2>1, <2>2
<1>9. ASSUME NEW U \in SUBSET S, U # {}, U \ {SumPick(U)} \in D
      PROVE  U \in D
  <2>1. PICK p : p = SumPick(U)
    OBVIOUS
  <2>2. p \in S /\ p \in U
    BY <1>9, <2>1, Picked
  <2>3. i[U] = g[p] + i[U \ {p}] /\ j[U] = h[p] + j[U \ {p}]
    BY <1>4, <1>5, <1>9, <2>1 DEF SumStep
  <2>4. U \ {p} \in SUBSET S /\ i[U \ {p}] <= j[U \ {p}]
    BY <1>7, <1>9, <2>1
  <2>5. i[U \ {p}] \in Int /\ j[U \ {p}] \in Int /\ g[p] \in Int /\ h[p] \in Int
    BY <1>4, <1>5, <2>2, <2>4
  <2> QED
    BY <1>7, <2>2, <2>3, <2>4, <2>5
<1>10. SUBSET S \subseteq D
  BY <1>8, <1>9, PickSets, Zenon
<1>11. SumFunction(g) = i[S] /\ SumFunction(h) = j[S]
  BY <1>1, <1>2, Unfold
<1> QED
  BY <1>7, <1>10, <1>11

(* The sum of zeros.                                                       *)
LEMMA SumZero ==
    ASSUME NEW S, IsFiniteSet(S), NEW g \in [S -> Int], \A x \in S : g[x] = 0
    PROVE  SumFunction(g) = 0
<1>1. Adds(S, g, g, g)
  BY DEF Adds
<1>2. SumFunction(g) = SumFunction(g) + SumFunction(g)
  BY <1>1, SumPlus
<1> QED
  BY <1>2, SumType

(* A sum of naturals is one, and no less than any of its terms.            *)
LEMMA SumNat ==
    ASSUME NEW S, IsFiniteSet(S), NEW g \in [S -> Nat]
    PROVE  /\ SumFunction(g) \in Nat
           /\ \A x \in S : g[x] <= SumFunction(g)
<1>1. ASSUME NEW T, IsFiniteSet(T), NEW k \in [T -> Nat]
      PROVE  SumFunction(k) \in Nat
  <2>1. PICK z \in [T -> Int] : \A x \in T : z[x] = 0
    <3>1. [x \in T |-> 0] \in [T -> Int]
      OBVIOUS
    <3> QED BY <3>1
  <2>2. k \in [T -> Int] /\ \A x \in T : z[x] <= k[x]
    BY <1>1, <2>1
  <2>3. SumFunction(z) = 0 /\ SumFunction(z) <= SumFunction(k) /\ SumFunction(k) \in Int
    BY <1>1, <2>1, <2>2, SumZero, SumMonotonic, SumType
  <2> QED
    BY <2>3
<1>2. ASSUME NEW x \in S
      PROVE  g[x] <= SumFunction(g)
  <2>1. PICK k \in [S \ {x} -> Nat] : \A y \in S \ {x} : k[y] = g[y]
    <3>1. [y \in S \ {x} |-> g[y]] \in [S \ {x} -> Nat]
      OBVIOUS
    <3> QED BY <3>1
  <2>2. IsFiniteSet(S \ {x})
    BY FS_RemoveElement
  <2>3. SumFunction(k) \in Nat
    BY <1>1, <2>1, <2>2
  <2>4. g \in [S -> Int] /\ k \in [S \ {x} -> Int]
    BY <2>1
  <2>5. SumFunction(g) = g[x] + SumFunction(k)
    BY <2>1, <2>4, SumTake
  <2> QED
    BY <2>3, <2>4, <2>5
<1> QED
  BY <1>1, <1>2

-----------------------------------------------------------------------------
(* Sums over sequences of values.                                          *)

(* A sum over 1 .. n + 1 is that over 1 .. n and the last term.            *)
LEMMA SumLast ==
    ASSUME NEW n \in Nat, NEW g \in [1 .. n + 1 -> Int], NEW h \in [1 .. n -> Int],
           \A i \in 1 .. n : h[i] = g[i]
    PROVE  SumFunction(g) = SumFunction(h) + g[n + 1]
<1>1. PICK S, T, x : S = 1 .. n + 1 /\ T = 1 .. n /\ x = n + 1
  OBVIOUS
<1>2. IsFiniteSet(S)
  BY <1>1, FS_Interval
<1>3. x \notin T /\ S = T \cup {x}
  BY <1>1
<1>4. SumFunction(g) = g[n + 1] + SumFunction(h)
  <2>1. g \in [S -> Int]
    BY <1>1
  <2>2. h \in [T -> Int]
    BY <1>1
  <2>3. \A y \in T : h[y] = g[y]
    BY <1>1
  <2>4. SumFunction(g) = g[x] + SumFunction(h)
    BY ONLY <1>2, <1>3, <2>1, <2>2, <2>3, SumAdd, SMTT(20)
  <2> QED
    BY <1>1, <2>4
<1>5. SumFunction(h) \in Int /\ g[n + 1] \in Int
  <2>1. IsFiniteSet(1 .. n) /\ n + 1 \in 1 .. n + 1
    BY FS_Interval
  <2>2. SumFunction(h) \in Int
    BY <2>1, SumType
  <2> QED
    BY <2>1, <2>2
<1> QED
  BY <1>4, <1>5

(* The sum over a concatenation.                                           *)
LEMMA SumConcat ==
    ASSUME NEW m \in Nat, NEW n \in Nat,
           NEW g \in [1 .. m -> Int], NEW h \in [1 .. n -> Int], NEW k \in [1 .. m + n -> Int],
           \A i \in 1 .. m : k[i] = g[i], \A i \in 1 .. n : k[m + i] = h[i]
    PROVE  SumFunction(k) = SumFunction(g) + SumFunction(h)
<1>1. PICK K : K = [j \in Nat |-> [i \in 1 .. m + j |-> k[i]]]
  OBVIOUS
<1>2. PICK H : H = [j \in Nat |-> [i \in 1 .. j |-> h[i]]]
  OBVIOUS
<1>3. PICK N : N = {j \in Nat : j <= n => SumFunction(K[j]) = SumFunction(g) + SumFunction(H[j])}
  OBVIOUS
<1>4. SumFunction(g) \in Int
  BY FS_Interval, SumType
<1>5. \A j \in Nat : j <= n =>
          /\ K[j] \in [1 .. m + j -> Int] /\ \A i \in 1 .. m + j : K[j][i] = k[i]
          /\ H[j] \in [1 .. j -> Int] /\ \A i \in 1 .. j : H[j][i] = h[i]
  <2> SUFFICES ASSUME NEW j \in Nat, j <= n
               PROVE  /\ K[j] \in [1 .. m + j -> Int] /\ \A i \in 1 .. m + j : K[j][i] = k[i]
                      /\ H[j] \in [1 .. j -> Int] /\ \A i \in 1 .. j : H[j][i] = h[i]
    OBVIOUS
  <2>1. K[j] = [i \in 1 .. m + j |-> k[i]] /\ H[j] = [i \in 1 .. j |-> h[i]]
    BY <1>1, <1>2
  <2>2. \A i \in 1 .. m + j : k[i] \in Int
    OBVIOUS
  <2>3. \A i \in 1 .. j : h[i] \in Int
    OBVIOUS
  <2> QED
    BY <2>1, <2>2, <2>3
<1>6. 0 \in N
  <2>1. K[0] = g
    BY <1>5
  <2>2. H[0] \in [{} -> Int]
    BY <1>5
  <2>3. SumFunction(H[0]) = 0
    BY <2>2, SumEmpty
  <2> QED
    BY <1>3, <1>4, <2>1, <2>3
<1>7. ASSUME NEW j \in Nat, j \in N
      PROVE  j + 1 \in N
  <2> SUFFICES ASSUME j + 1 <= n
               PROVE  SumFunction(K[j + 1]) = SumFunction(g) + SumFunction(H[j + 1])
    BY <1>3
  <2>1. SumFunction(K[j]) = SumFunction(g) + SumFunction(H[j])
    BY <1>3, <1>7
  <2>2. H[j + 1] \in [1 .. j + 1 -> Int] /\ H[j] \in [1 .. j -> Int]
        /\ (\A i \in 1 .. j : H[j][i] = H[j + 1][i]) /\ H[j + 1][j + 1] = h[j + 1]
    <3>1. PICK u \in Nat : u = j + 1
      OBVIOUS
    <3>2. H[u] \in [1 .. u -> Int] /\ \A i \in 1 .. u : H[u][i] = h[i]
      <4>1. u <= n
        BY <3>1
      <4> QED
        BY <1>5, <4>1
    <3>3. H[j] \in [1 .. j -> Int] /\ \A i \in 1 .. j : H[j][i] = h[i]
      BY <1>5
    <3>4. j + 1 \in 1 .. u /\ \A i \in 1 .. j : i \in 1 .. u
      BY <3>1
    <3>5. H[u][j + 1] = h[j + 1] /\ \A i \in 1 .. j : H[j][i] = H[u][i]
      BY <3>2, <3>3, <3>4
    <3>6. H[u] \in [1 .. j + 1 -> Int]
      BY <3>1, <3>2
    <3> QED
      BY <3>1, <3>3, <3>5, <3>6
  <2>3. SumFunction(H[j + 1]) = SumFunction(H[j]) + h[j + 1]
    <3>1. PICK a \in [1 .. j + 1 -> Int] : a = H[j + 1]
      BY <2>2
    <3>2. PICK b \in [1 .. j -> Int] : b = H[j]
      BY <2>2
    <3>3. SumFunction(a) = SumFunction(b) + a[j + 1]
      BY <2>2, <3>1, <3>2, SumLast
    <3> QED
      BY <2>2, <3>1, <3>2, <3>3
  <2>4. K[j + 1] \in [1 .. (m + j) + 1 -> Int] /\ K[j] \in [1 .. m + j -> Int]
        /\ (\A i \in 1 .. m + j : K[j][i] = K[j + 1][i]) /\ K[j + 1][(m + j) + 1] = h[j + 1]
    <3>1. PICK u \in Nat, l \in Nat : u = j + 1 /\ l = m + j
      OBVIOUS
    <3>2. u <= n /\ j <= n /\ m + u = l + 1
      BY <3>1
    <3>3. K[u] \in [1 .. l + 1 -> Int] /\ \A i \in 1 .. l + 1 : K[u][i] = k[i]
      BY <1>5, <3>2
    <3>4. K[j] \in [1 .. l -> Int] /\ \A i \in 1 .. l : K[j][i] = k[i]
      BY <1>5, <3>1, <3>2
    <3>5. k[l + 1] = h[u] /\ l + 1 \in 1 .. l + 1
      BY <3>1, <3>2
    <3>6. \A i \in 1 .. l : K[j][i] = K[u][i]
      BY <3>3, <3>4
    <3> QED
      BY <3>1, <3>3, <3>4, <3>5, <3>6
  <2>5. SumFunction(K[j + 1]) = SumFunction(K[j]) + h[j + 1]
    <3>1. PICK a \in [1 .. (m + j) + 1 -> Int] : a = K[j + 1]
      BY <2>4
    <3>2. PICK b \in [1 .. m + j -> Int] : b = K[j]
      BY <2>4
    <3>3. PICK l \in Nat : l = m + j
      OBVIOUS
    <3>4. SumFunction(a) = SumFunction(b) + a[l + 1]
      BY <2>4, <3>1, <3>2, <3>3, SumLast
    <3> QED
      BY <2>4, <3>1, <3>2, <3>3, <3>4
  <2>6. SumFunction(H[j]) \in Int /\ h[j + 1] \in Int
    <3>1. IsFiniteSet(1 .. j) /\ j + 1 \in 1 .. n
      BY FS_Interval
    <3> QED
      BY <2>2, <3>1, SumType
  <2> QED
    BY <1>4, <2>1, <2>3, <2>5, <2>6
<1>8. Nat \subseteq N
  BY <1>6, <1>7, NatSets, Zenon
<1>9. K[n] = k /\ H[n] = h
  BY <1>5
<1> QED
  BY <1>3, <1>8, <1>9

(* The sum of one term.                                                    *)
LEMMA SumOne == ASSUME NEW g \in [1 .. 1 -> Int] PROVE SumFunction(g) = g[1]
<1>1. PICK h \in [1 .. 0 -> Int] : TRUE
  <2>1. [x \in 1 .. 0 |-> 0] \in [1 .. 0 -> Int]
    OBVIOUS
  <2> QED BY <2>1
<1>2. PICK n \in Nat : n = 0
  OBVIOUS
<1>3. SumFunction(g) = SumFunction(h) + g[n + 1]
  <2>1. g \in [1 .. n + 1 -> Int] /\ h \in [1 .. n -> Int] /\ \A i \in 1 .. n : h[i] = g[i]
    BY <1>2
  <2> QED BY <2>1, SumLast
<1>4. SumFunction(h) = 0
  <2>1. h \in [{} -> Int]
    OBVIOUS
  <2> QED BY <2>1, SumEmpty
<1> QED
  BY <1>2, <1>3, <1>4

(* The sum of three sums.                                                  *)
LEMMA SumThree ==
    ASSUME NEW S, IsFiniteSet(S), NEW a \in [S -> Int], NEW b \in [S -> Int], NEW c \in [S -> Int],
           NEW d \in [S -> Int], \A x \in S : d[x] = a[x] + b[x] + c[x]
    PROVE  SumFunction(d) = SumFunction(a) + SumFunction(b) + SumFunction(c)
<1>1. PICK e : e = [x \in S |-> a[x] + b[x]]
  OBVIOUS
<1>2. Adds(S, a, b, e) /\ Adds(S, e, c, d)
  BY <1>1 DEF Adds
<1> QED
  BY <1>2, SumPlus
=============================================================================
