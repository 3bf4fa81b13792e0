-------------------------- MODULE TuningRunsProofs --------------------------
(***************************************************************************)
(* Runs of optimize.ps1: the time that one of them takes (RunBudget), and  *)
(* the settings that one after the other leaves behind (SizingLoop), for   *)
(* any times, any applications, loads and nodes.                           *)
(*                                                                         *)
(* Sums and node counts are folds, whose equations are proved first.  The  *)
(* induction that this takes is by least counterexample, from the library  *)
(* theorem that a well-founded relation has minimal elements.              *)
(***************************************************************************)
EXTENDS SizingLoop, RunBudget, FiniteSetTheorems, SequenceTheorems,
        WellFoundedInduction, TLAPS

----------------------------------------------------------------------------
\* Folds over a finite set.

\* The least counterexample of a claim about natural numbers.
LEMMA LeastNatural ==
    ASSUME NEW T \in SUBSET Nat, T # {}
    PROVE  \E n \in T : \A m \in T : n <= m
  <1>1. PICK n \in T : \A m \in T : ~(<<m, n>> \in OpToRel(<, Nat))
    BY WFMin, NatLessThanWellFounded, Zenon
  <1>2. ASSUME NEW m \in T PROVE n <= m
    <2>1. m \in Nat /\ n \in Nat
      OBVIOUS
    <2>2. ~(m < n)
      BY <1>1, <2>1 DEF OpToRel
    <2> QED
      BY <2>1, <2>2
  <1> QED
    BY <1>2

\* A set of subsets without the empty one, that has no smallest element, is empty.
LEMMA NoSmallestSubset ==
    ASSUME NEW S, IsFiniteSet(S), NEW T \in SUBSET (SUBSET S),
           {} \notin T,
           \A s \in T : \E x \in s : s \ {x} \in T
    PROVE  T = {}
  <1> SUFFICES ASSUME T # {} PROVE FALSE
    OBVIOUS
  <1>1. IsWellFoundedOn(StrictSubsetOrdering(S), SUBSET S)
    BY FS_FiniteSubsetsOfFinite, FS_StrictSubsetOrderingWellFounded
  <1>2. PICK s \in T : \A t \in T : ~(<<t, s>> \in StrictSubsetOrdering(S))
    BY <1>1, WFMin, Zenon
  <1>3. PICK x \in s : s \ {x} \in T
    BY <1>2
  <1>4. <<s \ {x}, s>> \in StrictSubsetOrdering(S)
    BY <1>3 DEF StrictSubsetOrdering
  <1> QED
    BY <1>2, <1>3, <1>4

\* g folds each subset of S: what pick takes out of it is put into step last.
IsFold(g, S, V, base, pick, step) ==
    /\ g \in [SUBSET S -> V]
    /\ \A s \in SUBSET S :
         g[s] = IF s = {} THEN base ELSE step[pick[s]][g[s \ {pick[s]}]]

\* A function on the subsets of S may be defined by taking one element out.
LEMMA FoldDefined ==
    ASSUME NEW S, IsFiniteSet(S),
           NEW V, NEW base \in V,
           NEW pick, \A s \in SUBSET S : s # {} => pick[s] \in s,
           NEW step \in [S -> [V -> V]]
    PROVE  \E g : IsFold(g, S, V, base, pick, step)
  <1> DEFINE Upto(n) == {s \in SUBSET S : Cardinality(s) <= n}
             Folds(g, n) == /\ g \in [Upto(n) -> V]
                            /\ \A s \in Upto(n) :
                                 g[s] = IF s = {} THEN base
                                        ELSE step[pick[s]][g[s \ {pick[s]}]]
             Bad == {n \in Nat : ~\E g : Folds(g, n)}
  <1>1. \A s \in SUBSET S : /\ Cardinality(s) \in Nat
                            /\ Cardinality(s) <= Cardinality(S)
                            /\ Cardinality(s) = 0 <=> s = {}
    BY FS_Subset, FS_CardinalityType, FS_EmptySet
  <1>2. \A s \in SUBSET S : s # {} =>
          s \ {pick[s]} \in SUBSET S
            /\ Cardinality(s \ {pick[s]}) = Cardinality(s) - 1
    BY FS_Subset, FS_RemoveElement
  <1>3. Bad = {}
    <2> SUFFICES ASSUME Bad # {} PROVE FALSE
      OBVIOUS
    <2>1. PICK n \in Bad : \A m \in Bad : n <= m
      BY LeastNatural, Zenon
    <2>2. \E g : Folds(g, n)
      <3>1. CASE n = 0
        <4> DEFINE g == [s \in Upto(0) |-> base]
        <4>1. \A s \in Upto(0) : s = {}
          BY <1>1
        <4>2. Folds(g, 0)
          BY <4>1
        <4>3. Folds(g, n)
          BY <4>2, <3>1
        <4> QED
          BY <4>3
      <3>2. CASE n # 0
        <4>1. n \in Nat /\ n - 1 \in Nat /\ ~(n <= n - 1)
          BY <2>1, <3>2
        <4>2. PICK h : Folds(h, n - 1)
          <5> HIDE DEF Folds
          <5>1. n - 1 \notin Bad
            BY <2>1, <4>1, Zenon
          <5> QED
            BY <4>1, <5>1, Zenon
        <4> DEFINE g == [s \in Upto(n) |->
                           IF s = {} THEN base ELSE step[pick[s]][h[s \ {pick[s]}]]]
        <4>3. ASSUME NEW s \in Upto(n), s # {}
              PROVE  /\ pick[s] \in S
                     /\ s \ {pick[s]} \in Upto(n - 1)
                     /\ s \ {pick[s]} \in Upto(n)
                     /\ h[s \ {pick[s]}] \in V
          <5>1. s \in SUBSET S /\ pick[s] \in s
            BY <4>3
          <5>2. s \ {pick[s]} \in SUBSET S /\ Cardinality(s \ {pick[s]}) <= n - 1
            BY <5>1, <4>3, <1>1, <1>2, <2>1
          <5>3. s \ {pick[s]} \in Upto(n - 1) /\ s \ {pick[s]} \in Upto(n)
            BY <5>2, <1>1, <2>1
          <5>4. h \in [Upto(n - 1) -> V]
            BY <4>2
          <5>5. h[s \ {pick[s]}] \in V
            <6> HIDE DEF Upto
            <6> QED
              BY <5>3, <5>4
          <5>6. pick[s] \in S
            BY <5>1
          <5> HIDE DEF Upto
          <5> QED
            BY <5>3, <5>5, <5>6
        <4>4. g \in [Upto(n) -> V]
          <5> HIDE DEF Upto
          <5>1. ASSUME NEW s \in Upto(n), s # {}
                PROVE  step[pick[s]][h[s \ {pick[s]}]] \in V
            <6>1. step[pick[s]] \in [V -> V]
              BY <4>3, <5>1
            <6> QED
              BY <4>3, <5>1, <6>1
          <5> QED
            BY <5>1
        <4>5. ASSUME NEW t \in Upto(n - 1)
              PROVE  g[t] = h[t]
          <5>1. t \in Upto(n)
            BY <1>1, <2>1
          <5> QED
            BY <4>2, <5>1
        <4>6. Folds(g, n)
          BY <4>3, <4>4, <4>5
        <4> QED
          BY <4>6
      <3> QED
        BY <3>1, <3>2
    <2> QED
      BY <2>1, <2>2
  <1>4. PICK g : Folds(g, Cardinality(S))
    BY <1>1, <1>3
  <1>5. Upto(Cardinality(S)) = SUBSET S
    BY <1>1
  <1> QED
    BY <1>4, <1>5 DEF IsFold

----------------------------------------------------------------------------
\* Sums.

Pick(s) == CHOOSE x \in s : TRUE

\* The sums of f over the subsets of its domain.
Partial(f) ==
    CHOOSE g : g = [s \in SUBSET DOMAIN f |->
                      IF s = {} THEN 0 ELSE f[Pick(s)] + g[s \ {Pick(s)}]]

\* A sum is the partial sum over the whole domain.
LEMMA SumIsPartial ==
    ASSUME NEW f
    PROVE  SumFunction(f) = Partial(f)[DOMAIN f]
  BY DEF SumFunction, SumFunctionOnSet, FoldFunctionOnSet, MapThenFoldSet, Partial, Pick

\* What holds of the empty set, and of a set when it holds without one element,
\* holds of every subset of S.
LEMMA PickInduction ==
    ASSUME NEW S, IsFiniteSet(S), NEW T,
           {} \in T,
           \A s \in SUBSET S : s # {} /\ s \ {Pick(s)} \in T => s \in T
    PROVE  \A s \in SUBSET S : s \in T
  <1> DEFINE C == (SUBSET S) \ T
  <1>1. \A s : s # {} => Pick(s) \in s
    BY DEF Pick
  <1>2. \A s \in C : \E x \in s : s \ {x} \in C
    <2> TAKE s \in C
    <2>1. s # {} /\ Pick(s) \in s /\ s \ {Pick(s)} \in C
      BY <1>1
    <2> QED
      BY <2>1
  <1>3. {} \notin C /\ C \in SUBSET (SUBSET S)
    OBVIOUS
  <1>4. C = {}
    <2> HIDE DEF C
    <2> QED
      BY <1>2, <1>3, NoSmallestSubset
  <1> QED
    BY <1>4

\* The equation of the sums.
SumsUp(F, f, S) ==
    /\ F \in [SUBSET S -> Int]
    /\ F[{}] = 0
    /\ \A s \in SUBSET S : s # {} => F[s] = f[Pick(s)] + F[s \ {Pick(s)}]

\* A partial sum takes one element out at a time.
LEMMA PartialEquation ==
    ASSUME NEW S, IsFiniteSet(S), NEW f \in [S -> Int]
    PROVE  SumsUp(Partial(f), f, S)
  <1> DEFINE pick == [s \in SUBSET S |-> Pick(s)]
             step == [x \in S |-> [v \in Int |-> f[x] + v]]
  <1>1. \A s : s # {} => Pick(s) \in s
    BY DEF Pick
  <1>2. \A s \in SUBSET S : s # {} => pick[s] \in s
    BY <1>1
  <1>3. step \in [S -> [Int -> Int]]
    OBVIOUS
  <1>4. PICK g : IsFold(g, S, Int, 0, pick, step)
    <2> HIDE DEF pick, step
    <2>1. 0 \in Int
      OBVIOUS
    <2> QED
      BY <1>2, <1>3, <2>1, FoldDefined
  <1>5. ASSUME NEW s \in SUBSET S
        PROVE  g[s] = IF s = {} THEN 0 ELSE f[Pick(s)] + g[s \ {Pick(s)}]
    BY <1>1, <1>4 DEF IsFold
  <1>6. g = [s \in SUBSET DOMAIN f |->
               IF s = {} THEN 0 ELSE f[Pick(s)] + g[s \ {Pick(s)}]]
    BY <1>4, <1>5 DEF IsFold
  <1>7. Partial(f) = [s \in SUBSET DOMAIN f |->
               IF s = {} THEN 0 ELSE f[Pick(s)] + Partial(f)[s \ {Pick(s)}]]
    BY <1>6, Zenon DEF Partial
  <1>8. DOMAIN f = S
    OBVIOUS
  <1> DEFINE p == Partial(f)
  <1>9. \A s \in SUBSET S :
          p[s] = IF s = {} THEN 0 ELSE f[Pick(s)] + p[s \ {Pick(s)}]
    <2> HIDE DEF p
    <2>1. p = [s \in SUBSET S |-> IF s = {} THEN 0 ELSE f[Pick(s)] + p[s \ {Pick(s)}]]
      BY <1>7, <1>8 DEF p
    <2> QED
      BY <2>1
  <1>10. \A s \in SUBSET S : p[s] \in Int
    <2> HIDE DEF p
    <2> DEFINE T == {s \in SUBSET S : p[s] \in Int}
    <2>1. {} \in T
      <3>1. p[{}] = 0
        BY <1>9
      <3> QED
        BY <3>1
    <2>2. ASSUME NEW s \in SUBSET S, s # {}, s \ {Pick(s)} \in T
          PROVE  s \in T
      <3>1. p[s] = f[Pick(s)] + p[s \ {Pick(s)}]
        BY <1>9, <2>2
      <3>2. f[Pick(s)] \in Int
        BY <1>1, <2>2
      <3> QED
        BY <3>1, <3>2, <2>2
    <2>3. \A s \in SUBSET S : s \in T
      <3> HIDE DEF T
      <3> QED
        BY <2>1, <2>2, PickInduction
    <2> QED
      BY <2>3
  <1>11. p = [s \in SUBSET S |-> p[s]]
    <2>1. p = [s \in SUBSET S |-> IF s = {} THEN 0 ELSE f[Pick(s)] + p[s \ {Pick(s)}]]
      BY <1>7, <1>8
    <2> HIDE DEF p
    <2> QED
      BY <2>1
  <1> QED
    <2> HIDE DEF p
    <2>1. p \in [SUBSET S -> Int]
      BY <1>10, <1>11
    <2> QED
      BY <1>1, <1>9, <2>1 DEF p, SumsUp

\* The same for one subset.
LEMMA PartialStep ==
    ASSUME NEW S, NEW f \in [S -> Int], NEW F, SumsUp(F, f, S),
           NEW s \in SUBSET S, s # {}
    PROVE  /\ Pick(s) \in s /\ Pick(s) \in S /\ f[Pick(s)] \in Int
           /\ F[s \ {Pick(s)}] \in Int
           /\ F[s] = f[Pick(s)] + F[s \ {Pick(s)}]
  <1>1. Pick(s) \in s
    BY DEF Pick
  <1> QED
    BY <1>1 DEF SumsUp

\* A sum of integers is one.
LEMMA SumType ==
    ASSUME NEW S, IsFiniteSet(S), NEW f \in [S -> Int]
    PROVE  SumFunction(f) \in Int /\ SumFunction(f) = Partial(f)[S]
  <1>1. Partial(f) \in [SUBSET S -> Int] /\ DOMAIN f = S
    BY PartialEquation DEF SumsUp
  <1> QED
    BY <1>1, SumIsPartial

\* Larger terms, larger sum.
LEMMA SumMonotone ==
    ASSUME NEW S, IsFiniteSet(S), NEW f \in [S -> Int], NEW g \in [S -> Int],
           \A x \in S : f[x] <= g[x]
    PROVE  SumFunction(f) <= SumFunction(g)
  <1> DEFINE F == Partial(f)
             G == Partial(g)
             T == {s \in SUBSET S : F[s] <= G[s]}
  <1>1. SumsUp(F, f, S) /\ SumsUp(G, g, S)
    BY PartialEquation
  <1>2. {} \in T
    <2> HIDE DEF F, G
    <2> QED
      BY <1>1 DEF SumsUp
  <1>3. ASSUME NEW s \in SUBSET S, s # {}, s \ {Pick(s)} \in T
        PROVE  s \in T
    <2> HIDE DEF F, G
    <2>1. F[s] = f[Pick(s)] + F[s \ {Pick(s)}] /\ F[s \ {Pick(s)}] \in Int
      BY <1>1, <1>3, PartialStep, Zenon
    <2>2. G[s] = g[Pick(s)] + G[s \ {Pick(s)}] /\ G[s \ {Pick(s)}] \in Int
      BY <1>1, <1>3, PartialStep
    <2>3. Pick(s) \in S
      BY <1>1, <1>3, PartialStep, Zenon
    <2> QED
      BY <2>1, <2>2, <2>3, <1>3
  <1>4. \A s \in SUBSET S : s \in T
    <2> HIDE DEF T
    <2> QED
      BY <1>2, <1>3, PickInduction
  <1>5. F[S] <= G[S]
    BY <1>4
  <1> QED
    BY <1>5, SumType

\* Sums are linear in their terms.
LEMMA SumLinear ==
    ASSUME NEW S, IsFiniteSet(S), NEW i \in Int, NEW j \in Int,
           NEW f \in [S -> Int], NEW g \in [S -> Int], NEW h \in [S -> Int],
           \A x \in S : h[x] = i * f[x] + j * g[x]
    PROVE  SumFunction(h) = i * SumFunction(f) + j * SumFunction(g)
  <1> DEFINE F == Partial(f)
             G == Partial(g)
             H == Partial(h)
             T == {s \in SUBSET S : H[s] = i * F[s] + j * G[s]}
  <1>1. SumsUp(F, f, S) /\ SumsUp(G, g, S) /\ SumsUp(H, h, S)
    BY PartialEquation
  <1>2. {} \in T
    <2> HIDE DEF F, G, H
    <2> QED
      BY <1>1 DEF SumsUp
  <1>3. ASSUME NEW s \in SUBSET S, s # {}, s \ {Pick(s)} \in T
        PROVE  s \in T
    <2> HIDE DEF F, G, H
    <2>1. F[s] = f[Pick(s)] + F[s \ {Pick(s)}] /\ F[s \ {Pick(s)}] \in Int
      BY <1>1, <1>3, PartialStep, Zenon
    <2>2. G[s] = g[Pick(s)] + G[s \ {Pick(s)}] /\ G[s \ {Pick(s)}] \in Int
      <3>1. SumsUp(G, g, S) /\ s # {}
        BY <1>1, <1>3
      <3> QED
        BY <3>1, PartialStep
    <2>3. H[s] = h[Pick(s)] + H[s \ {Pick(s)}] /\ Pick(s) \in S
      BY <1>1, <1>3, PartialStep, Zenon
    <2>4. H[s \ {Pick(s)}] = i * F[s \ {Pick(s)}] + j * G[s \ {Pick(s)}]
      BY <1>3
    <2>5. \A m, a, b \in Int : m * (a + b) = m * a + m * b
      OBVIOUS
    <2>6. /\ i * F[s] = i * f[Pick(s)] + i * F[s \ {Pick(s)}]
          /\ j * G[s] = j * g[Pick(s)] + j * G[s \ {Pick(s)}]
      BY <2>1, <2>2, <2>3, <2>5
    <2>7. H[s] = i * F[s] + j * G[s]
      BY <2>1, <2>2, <2>3, <2>4, <2>6
    <2> QED
      BY <2>7
  <1>4. \A s \in SUBSET S : s \in T
    <2> HIDE DEF T
    <2> QED
      BY <1>2, <1>3, PickInduction
  <1>5. H[S] = i * F[S] + j * G[S]
    BY <1>4
  <1> QED
    BY <1>5, SumType

\* The same with one factor.
LEMMA SumScaled ==
    ASSUME NEW S, IsFiniteSet(S), NEW i \in Int,
           NEW f \in [S -> Int], NEW h \in [S -> Int], \A x \in S : h[x] = i * f[x]
    PROVE  SumFunction(h) = i * SumFunction(f)
  <1> DEFINE g == [x \in S |-> 0]
  <1>1. g \in [S -> Int] /\ 0 \in Int
    OBVIOUS
  <1>2. \A x \in S : h[x] = i * f[x] + 0 * g[x]
    OBVIOUS
  <1> HIDE DEF g
  <1>3. SumFunction(h) = i * SumFunction(f) + 0 * SumFunction(g)
    BY <1>1, <1>2, SumLinear
  <1>4. SumFunction(f) \in Int /\ SumFunction(g) \in Int
    BY <1>1, SumType
  <1> QED
    BY <1>3, <1>4

\* A sum with one term.
LEMMA SumSingle ==
    ASSUME NEW S, IsFiniteSet(S), NEW a \in S, NEW v \in Int, NEW f \in [S -> Int],
           \A x \in S : f[x] = IF x = a THEN v ELSE 0
    PROVE  SumFunction(f) = v
  <1> DEFINE F == Partial(f)
             T == {s \in SUBSET S : F[s] = IF a \in s THEN v ELSE 0}
  <1>1. SumsUp(F, f, S)
    BY PartialEquation
  <1>2. {} \in T
    <2> HIDE DEF F
    <2> QED
      BY <1>1 DEF SumsUp
  <1>3. ASSUME NEW s \in SUBSET S, s # {}, s \ {Pick(s)} \in T
        PROVE  s \in T
    <2>1. /\ F[s] = f[Pick(s)] + F[s \ {Pick(s)}]
          /\ Pick(s) \in S /\ Pick(s) \in s
      BY <1>1, <1>3, PartialStep
    <2> HIDE DEF F
    <2>2. F[s \ {Pick(s)}] = IF a \in s \ {Pick(s)} THEN v ELSE 0
      BY <1>3
    <2>3. F[s] = IF a \in s THEN v ELSE 0
      BY <2>1, <2>2
    <2> QED
      BY <2>3
  <1>4. \A s \in SUBSET S : s \in T
    <2> HIDE DEF T
    <2> QED
      BY <1>2, <1>3, PickInduction
  <1>5. F[S] = v
    BY <1>4
  <1> QED
    BY <1>5, SumType

\* A sum of at most one each.
LEMMA SumOfOnes ==
    ASSUME NEW S, IsFiniteSet(S), NEW f \in [S -> Int], \A x \in S : f[x] <= 1
    PROVE  SumFunction(f) <= Cardinality(S)
  <1> DEFINE F == Partial(f)
             T == {s \in SUBSET S : F[s] <= Cardinality(s)}
  <1>1. SumsUp(F, f, S)
    BY PartialEquation
  <1>2. {} \in T
    <2> HIDE DEF F
    <2> QED
      BY <1>1, FS_EmptySet DEF SumsUp
  <1>3. ASSUME NEW s \in SUBSET S, s # {}, s \ {Pick(s)} \in T
        PROVE  s \in T
    <2>1. /\ F[s] = f[Pick(s)] + F[s \ {Pick(s)}] /\ F[s \ {Pick(s)}] \in Int
          /\ Pick(s) \in S /\ Pick(s) \in s
      BY <1>1, <1>3, PartialStep
    <2>2. Cardinality(s) \in Nat /\ Cardinality(s \ {Pick(s)}) = Cardinality(s) - 1
      BY <2>1, FS_Subset, FS_RemoveElement, FS_CardinalityType
    <2> HIDE DEF F
    <2>3. F[s \ {Pick(s)}] <= Cardinality(s) - 1
      BY <1>3, <2>2
    <2>4. F[s] <= Cardinality(s)
      BY <2>1, <2>2, <2>3
    <2> QED
      BY <2>4
  <1>4. \A s \in SUBSET S : s \in T
    <2> HIDE DEF T
    <2> QED
      BY <1>2, <1>3, PickInduction
  <1>5. F[S] <= Cardinality(S)
    BY <1>4
  <1> QED
    BY <1>5, SumType

\* A sum of positive terms.
LEMMA SumPositive ==
    ASSUME NEW S, IsFiniteSet(S), S # {}, NEW f \in [S -> Int], \A x \in S : f[x] >= 1
    PROVE  SumFunction(f) >= 1
  <1> DEFINE F == Partial(f)
             T == {s \in SUBSET S : F[s] >= IF s = {} THEN 0 ELSE 1}
  <1>1. SumsUp(F, f, S)
    BY PartialEquation
  <1>2. {} \in T
    <2> HIDE DEF F
    <2> QED
      BY <1>1 DEF SumsUp
  <1>3. ASSUME NEW s \in SUBSET S, s # {}, s \ {Pick(s)} \in T
        PROVE  s \in T
    <2>1. /\ F[s] = f[Pick(s)] + F[s \ {Pick(s)}] /\ F[s \ {Pick(s)}] \in Int
          /\ Pick(s) \in S
      BY <1>1, <1>3, PartialStep
    <2> HIDE DEF F
    <2>2. F[s \ {Pick(s)}] >= 0
      BY <1>3, <2>1
    <2>3. F[s] >= 1
      BY <2>1, <2>2
    <2> QED
      BY <2>3, <1>3
  <1>4. \A s \in SUBSET S : s \in T
    <2> HIDE DEF T
    <2> QED
      BY <1>2, <1>3, PickInduction
  <1>5. F[S] >= 1
    BY <1>4
  <1> QED
    BY <1>5, SumType

----------------------------------------------------------------------------
\* Division and rounding.

\* Products of integers, for the steps that are not linear.
LEMMA Multiplied ==
    ASSUME NEW d \in Nat, NEW a \in Int, NEW b \in Int
    PROVE  /\ a <= b => d * a <= d * b
           /\ d * a < d * b => a < b
           /\ d * a \in Int
           /\ d * (a + b) = d * a + d * b
           /\ d * (a - b) = d * a - d * b
  OBVIOUS

\* The quotient is rounded down.
LEMMA Divided ==
    ASSUME NEW n \in Int, NEW d \in Nat \ {0}
    PROVE  n \div d \in Int /\ d * (n \div d) <= n /\ n < d * (n \div d) + d
  OBVIOUS

\* CeilDiv is the least k that is enough.
LEMMA CeilDivBounds ==
    ASSUME NEW n \in Int, NEW d \in Nat \ {0}
    PROVE  /\ CeilDiv(n, d) \in Int
           /\ n <= d * CeilDiv(n, d)
           /\ \A k \in Int : n <= d * k => CeilDiv(n, d) <= k
  <1> DEFINE q == CeilDiv(n, d)
  <1>1. q \in Int /\ d * q <= n + d - 1 /\ n + d - 1 < d * q + d
    BY Divided DEF CeilDiv
  <1> HIDE DEF q
  <1>2. d * q \in Int
    BY <1>1
  <1>3. n <= d * q
    BY <1>1, <1>2
  <1>4. ASSUME NEW k \in Int, n <= d * k PROVE q <= k
    <2>1. d * (k + 1) = d * k + d /\ d * k \in Int
      BY Multiplied
    <2>2. d * q < d * (k + 1)
      BY <2>1, <1>1, <1>2, <1>4
    <2>3. q < k + 1
      BY <2>2, <1>1
    <2> QED
      BY <2>3, <1>1
  <1> QED
    BY <1>1, <1>3, <1>4 DEF q

\* So is CeilTo, among the multiples of the unit.
LEMMA CeilToBounds ==
    ASSUME NEW n \in Int, NEW d \in Nat \ {0}
    PROVE  /\ CeilTo(n, d) \in Int
           /\ n <= d * CeilTo(n, d)
           /\ \A k \in Int : n <= (d * RequestUnit) * k => CeilTo(n, d) <= RequestUnit * k
  <1> DEFINE q == CeilDiv(n, d * RequestUnit)
  <1>1. d * RequestUnit \in Nat \ {0}
    BY DEF RequestUnit
  <1>2. /\ q \in Int /\ n <= (d * RequestUnit) * q
        /\ \A k \in Int : n <= (d * RequestUnit) * k => q <= k
    BY <1>1, CeilDivBounds
  <1> HIDE DEF q
  <1>3. CeilTo(n, d) = RequestUnit * q
    BY DEF CeilTo, q
  <1>4. d * (RequestUnit * q) = (d * RequestUnit) * q
    BY <1>2 DEF RequestUnit
  <1>5. \A k \in Int : q <= k => RequestUnit * q <= RequestUnit * k
    BY <1>2 DEF RequestUnit
  <1> QED
    BY <1>2, <1>3, <1>4, <1>5 DEF RequestUnit

\* Rounded gives an integer.
LEMMA RoundedType ==
    ASSUME NEW n \in Int, NEW d \in Nat \ {0}
    PROVE  Rounded(n, d) \in Int
  BY Divided DEF Rounded

\* Rounded never goes beyond the next whole number.
LEMMA RoundedAtMost ==
    ASSUME NEW n \in Nat, NEW k \in Nat, n <= k * 100
    PROVE  Rounded(n, 100) <= k
  <1> DEFINE q == n \div 100
             r == n % 100
  <1>1. q \in Int /\ 100 * q <= n /\ r = n - 100 * q
    OBVIOUS
  <1>2. Rounded(n, 100) = q \/ (r > 0 /\ Rounded(n, 100) = q + 1)
    BY DEF Rounded
  <1> HIDE DEF q, r
  <1> QED
    BY <1>1, <1>2

\* FloorTo never rounds up.
LEMMA FloorToBound ==
    ASSUME NEW n \in Int
    PROVE  FloorTo(n) \in Int /\ FloorTo(n) <= n
  BY DEF FloorTo, RequestUnit

\* Larger and Smaller choose one of two integers.
LEMMA LimitsType ==
    ASSUME NEW a \in Int, NEW b \in Int
    PROVE  /\ Larger(a, b) \in Int /\ Larger(a, b) >= a /\ Larger(a, b) >= b
           /\ Larger(a, b) = a \/ Larger(a, b) = b
           /\ Smaller(a, b) \in Int /\ Smaller(a, b) <= a /\ Smaller(a, b) <= b
           /\ Smaller(a, b) = a \/ Smaller(a, b) = b
  BY DEF Larger, Smaller

----------------------------------------------------------------------------
\* One application's settings.

\* What the loop keeps of a setting, whatever load the runs size for.
Valid(knob) == knob \in Knob /\ Accepted(knob)

\* A measurement of pods that are there, on nodes of the given size.
Found(m) ==
    /\ m \in [cpu : Nat, pods : Nat, perPod : Nat, need : Nat]
    /\ m.pods >= 1 /\ m.cpu <= m.pods * Alloc /\ m.perPod <= Alloc

\* The pods could carry the load that the run sizes for.
Carried(m) == m.need <= m.pods * Alloc

\* What may follow a setting: a valid one, of which a smaller request is at least
\* half of what a pod needs, and which fits a node if the setting did and the
\* pods can carry the load.
Follows(new, knob, m) ==
    /\ Valid(new)
    /\ new.request < Smaller(knob.request, SearchTop)
         => 2 * new.request * m.pods >= Demand(m)
    /\ Carried(m) /\ knob.request <= Usable => new.request <= Usable

\* Another request keeps the settings acceptable.
LEMMA ResizedFits ==
    ASSUME NEW knob, Valid(knob), NEW r \in Nat, RequestMin <= r
    PROVE  Valid(Resized(knob, r)) /\ Resized(knob, r).request = r
  <1> DEFINE t == Clamp(Rounded(knob.request * knob.target, r), TargetMin, TargetMax)
  <1>1. knob \in Knob /\ r \in Nat \ {0} /\ Accepted(knob)
    BY DEF Valid, RequestMin
  <1>2. Rounded(knob.request * knob.target, r) \in Int
    BY <1>1, RoundedType DEF Knob
  <1>3. t \in TargetMin..TargetMax
    BY <1>2 DEF Clamp, Larger, Smaller, TargetMin, TargetMax
  <1> HIDE DEF t
  <1>4. t \in Nat
    BY <1>3 DEF TargetMin, TargetMax
  <1>5. Resized(knob, r) = Retuned(knob, r, t)
    BY DEF Resized, t
  <1> DEFINE new == Retuned(knob, r, t)
  <1>6. /\ new \in Knob /\ new.request = r /\ new.target = t
        /\ new.min = knob.min /\ new.max = knob.max
    BY <1>1, <1>4 DEF Retuned, Knob
  <1> HIDE DEF new
  <1>7. Valid(new)
    BY <1>1, <1>3, <1>6 DEF Valid, Accepted
  <1> QED
    BY <1>5, <1>6, <1>7 DEF new

\* Nothing may change.
LEMMA UnchangedFollows ==
    ASSUME NEW knob, Valid(knob), NEW m
    PROVE  Follows(knob, knob, m)
  BY DEF Follows, Valid, Knob, Smaller, SearchTop

\* Another request, which is enough.
LEMMA ResizedFollows ==
    ASSUME NEW knob, Valid(knob), NEW m, NEW r \in Nat,
           RequestMin <= r, 2 * r * m.pods >= Demand(m),
           Carried(m) /\ knob.request <= Usable => r <= Usable
    PROVE  Follows(Resized(knob, r), knob, m)
  <1> DEFINE new == Resized(knob, r)
  <1>1. Valid(new) /\ new.request = r
    BY ResizedFits
  <1> HIDE DEF new
  <1>2. Follows(new, knob, m)
    BY <1>1 DEF Follows
  <1> QED
    BY <1>2 DEF new

\* Sizing by usage fits a node when the pods can carry the load.
LEMMA UsageSizedFollows ==
    ASSUME NEW knob, Valid(knob), NEW m, Found(m)
    PROVE  Follows(UsageSized(knob, m), knob, m)
  <1> DEFINE a == CeilTo(7 * m.need, 10 * m.pods)
             b == CeilTo(m.perPod, 2)
             sized == Larger(Larger(RequestMin, a), b)
             K == CeilDiv(7 * Alloc, 10 * RequestUnit)
             fits == Carried(m) /\ knob.request <= Usable
  <1>1. /\ m.need \in Nat /\ m.pods \in Nat \ {0} /\ m.perPod \in Nat /\ Alloc \in Nat
        /\ m.perPod <= Alloc /\ Usable \in Nat /\ knob.request \in Nat
        /\ fits => m.need <= m.pods * Alloc /\ RequestMin <= Usable
    BY NodeAssumption, NodesAssumption
       DEF Found, Valid, Accepted, Knob, RequestMin, Carried
  <1> HIDE DEF fits
  <1>2. K \in Int /\ 7 * Alloc <= 250 * K /\ RequestUnit * K <= Usable
    <2>1. K \in Int /\ 7 * Alloc <= (10 * RequestUnit) * K
      BY <1>1, CeilDivBounds DEF RequestUnit
    <2>2. RequestUnit * K <= Usable
      BY NodeAssumption DEF CeilTo
    <2> HIDE DEF K
    <2> QED
      BY <2>1, <2>2 DEF RequestUnit
  <1> HIDE DEF K
  <1>3. a \in Int /\ 7 * m.need <= (10 * m.pods) * a /\ (fits => a <= Usable)
    <2>1. 10 * m.pods \in Nat \ {0} /\ 7 * m.need \in Int
      BY <1>1
    <2>2. a \in Int /\ 7 * m.need <= (10 * m.pods) * a
      BY <2>1, CeilToBounds
    <2>3. ASSUME fits PROVE 7 * m.need <= ((10 * m.pods) * RequestUnit) * K
      <3>1. m.pods * (7 * Alloc) <= m.pods * (250 * K)
        BY <1>1, <1>2, Multiplied
      <3>2. m.pods * (7 * Alloc) = 7 * (m.pods * Alloc)
        BY <1>1
      <3>3. ((10 * m.pods) * RequestUnit) * K = m.pods * (250 * K)
        BY <1>1, <1>2 DEF RequestUnit
      <3>4. m.pods * Alloc \in Int /\ m.pods * (250 * K) \in Int
        BY <1>1, <1>2
      <3> QED
        BY <1>1, <2>3, <3>1, <3>2, <3>3, <3>4
    <2>4. fits => a <= RequestUnit * K
      BY <2>1, <2>3, <1>2, CeilToBounds
    <2> HIDE DEF a
    <2> QED
      BY <2>2, <2>4, <1>1, <1>2 DEF RequestUnit
  <1>4. b \in Int /\ b <= Usable
    <2>1. b \in Int /\ (m.perPod <= (2 * RequestUnit) * K => b <= RequestUnit * K)
      BY <1>1, <1>2, CeilToBounds
    <2>2. m.perPod <= (2 * RequestUnit) * K
      BY <1>1, <1>2 DEF RequestUnit
    <2> HIDE DEF b
    <2> QED
      BY <2>1, <2>2, <1>1, <1>2 DEF RequestUnit
  <1> HIDE DEF a, b
  <1>5. sized \in Nat /\ RequestMin <= sized /\ a <= sized
        /\ (fits => sized <= Usable)
    BY <1>1, <1>3, <1>4 DEF Larger, RequestMin
  <1> HIDE DEF sized
  <1>6. m.need # 0 => 2 * sized * m.pods >= Demand(m)
    <2>1. (10 * m.pods) * a <= (10 * m.pods) * sized
      BY <1>1, <1>3, <1>5, Multiplied
    <2>2. (10 * m.pods) * sized = 5 * (2 * sized * m.pods)
      BY <1>1, <1>5
    <2>3. 2 * sized * m.pods \in Int /\ (10 * m.pods) * a \in Int
      BY <1>1, <1>3, <1>5
    <2> QED
      BY <1>1, <1>3, <2>1, <2>2, <2>3 DEF Demand
  <1>7. UsageSized(knob, m) = knob
        \/ (m.need # 0 /\ UsageSized(knob, m) = Resized(knob, sized))
    BY DEF UsageSized, sized, a, b
  <1> QED
    BY <1>5, <1>6, <1>7, UnchangedFollows, ResizedFollows DEF fits

\* Pods of at most half a node, in place of more and smaller ones.
LEMMA ConsolidatedFollows ==
    ASSUME NEW knob, Valid(knob), NEW m, Found(m)
    PROVE  Follows(Consolidated(knob, m), knob, m)
  <1> DEFINE fits == knob.request <= Usable
             perPod == Clamp(Usable \div 2, RequestMin, Larger(RequestMin, Usable))
             needed == CeilDiv(m.need, perPod)
             pods == Larger(knob.min, needed)
             sized == CeilTo(m.need, pods)
             request == Larger(RequestMin, sized)
             t == Clamp(Rounded(100 * m.need, pods * request), TargetMin, TargetMax)
             max == Larger(knob.min, pods + Larger(1, CeilDiv(pods, 2)))
             new == [knob EXCEPT !.request = request, !.target = t, !.max = max]
  <1>1. /\ m.need \in Nat /\ m.pods \in Nat \ {0}
        /\ Usable \in Nat /\ (fits => RequestMin <= Usable)
        /\ knob \in Knob /\ knob.min \in Nat \ {0} /\ knob.request \in Nat
    BY NodesAssumption DEF Found, Valid, Accepted, Knob, RequestMin
  <1> HIDE DEF fits
  <1>2. perPod \in Nat /\ perPod >= RequestMin
        /\ (fits => RequestUnit * CeilDiv(perPod, RequestUnit) <= Usable)
    BY <1>1 DEF Clamp, Larger, Smaller, RequestMin, RequestUnit, CeilDiv
  <1> DEFINE K == CeilDiv(perPod, RequestUnit)
  <1>3. K \in Int /\ perPod <= RequestUnit * K /\ (fits => RequestUnit * K <= Usable)
    <2> HIDE DEF perPod
    <2> QED
      BY <1>2, CeilDivBounds DEF RequestUnit
  <1> HIDE DEF perPod, K
  <1>4. needed \in Int /\ m.need <= perPod * needed
    <2>1. perPod \in Nat \ {0} /\ m.need \in Int
      BY <1>1, <1>2 DEF RequestMin
    <2> QED
      BY <2>1, CeilDivBounds
  <1> HIDE DEF needed
  <1>5. pods \in Nat \ {0} /\ needed <= pods
    BY <1>1, <1>4 DEF Larger
  <1> HIDE DEF pods
  <1>6. sized \in Int /\ m.need <= pods * sized /\ (fits => sized <= Usable)
    <2>1. sized \in Int /\ m.need <= pods * sized
      BY <1>1, <1>5, CeilToBounds
    <2>2. m.need <= (pods * RequestUnit) * K
      <3>1. perPod * needed <= perPod * pods
        BY <1>2, <1>4, <1>5, Multiplied
      <3>2. pods * perPod <= pods * (RequestUnit * K)
        BY <1>2, <1>3, <1>5, Multiplied DEF RequestUnit
      <3>3. perPod * pods = pods * perPod /\ pods * perPod \in Int /\ perPod * needed \in Int
        BY <1>2, <1>4, <1>5
      <3>4. pods * (RequestUnit * K) = (pods * RequestUnit) * K
            /\ (pods * RequestUnit) * K \in Int
        BY <1>3, <1>5 DEF RequestUnit
      <3> QED
        BY <1>1, <1>4, <3>1, <3>2, <3>3, <3>4
    <2>3. sized <= RequestUnit * K
      BY <1>1, <1>3, <1>5, <2>2, CeilToBounds
    <2> HIDE DEF sized
    <2> QED
      BY <2>1, <2>3, <1>1, <1>3 DEF RequestUnit
  <1> HIDE DEF sized
  <1>7. request \in Nat /\ RequestMin <= request /\ sized <= request
        /\ (fits => request <= Usable)
    BY <1>1, <1>6 DEF Larger, RequestMin
  <1> HIDE DEF request
  <1>8. t \in TargetMin..TargetMax /\ t \in Nat
    <2>1. pods * request \in Nat \ {0} /\ 100 * m.need \in Int
      <3>1. request >= 1 /\ pods >= 1
        BY <1>5, <1>7 DEF RequestMin
      <3>2. pods * 1 <= pods * request
        BY <1>5, <1>7, <3>1, Multiplied
      <3> QED
        BY <1>1, <1>5, <1>7, <3>1, <3>2
    <2>2. Rounded(100 * m.need, pods * request) \in Int
      BY <2>1, RoundedType
    <2> QED
      BY <2>2 DEF Clamp, Larger, Smaller, TargetMin, TargetMax
  <1> HIDE DEF t
  <1>9. max \in Nat /\ max >= knob.min
    <2>1. CeilDiv(pods, 2) \in Int
      BY <1>5 DEF CeilDiv
    <2> QED
      BY <2>1, <1>1, <1>5 DEF Larger
  <1> HIDE DEF max
  <1>10. /\ new \in Knob
         /\ new.request = request /\ new.target = t
         /\ new.min = knob.min /\ new.max = max
    BY <1>1, <1>7, <1>8, <1>9 DEF Knob
  <1> HIDE DEF new
  <1>11. ASSUME m.need # 0, pods < m.pods PROVE Follows(new, knob, m)
    <2>1. Valid(new)
      BY <1>1, <1>7, <1>8, <1>9, <1>10 DEF Valid, Accepted
    <2>2. 2 * request * m.pods >= Demand(m)
      <3>1. pods * sized <= pods * request
        BY <1>5, <1>6, <1>7, Multiplied
      <3>2. request * pods <= request * m.pods
        BY <1>1, <1>5, <1>7, <1>11, Multiplied
      <3>3. /\ request * pods = pods * request /\ 2 * request * m.pods = 2 * (request * m.pods)
            /\ pods * sized \in Int /\ pods * request \in Int /\ request * m.pods \in Int
        BY <1>1, <1>5, <1>6, <1>7
      <3> QED
        BY <1>1, <1>6, <1>11, <3>1, <3>2, <3>3 DEF Demand
    <2> QED
      BY <1>7, <1>10, <2>1, <2>2 DEF Follows, fits
  <1>12. Consolidated(knob, m) = knob
         \/ (m.need # 0 /\ pods < m.pods /\ Consolidated(knob, m) = new)
    <2>1. Consolidated(knob, m) = IF m.need = 0 \/ pods >= m.pods THEN knob ELSE new
      BY DEF Consolidated, new, max, t, request, sized, pods, needed, perPod
    <2> QED
      BY <2>1, <1>1, <1>5
  <1> QED
    BY <1>11, <1>12, UnchangedFollows

\* What the planner can make of a setting: only the target and the replicas.
LEMMA SameRequestFollows ==
    ASSUME NEW knob, Valid(knob), NEW m,
           NEW new \in Knob, new.request = knob.request,
           new.target \in TargetMin..TargetMax, new.min >= 1, new.max >= new.min
    PROVE  Follows(new, knob, m)
  BY DEF Follows, Valid, Accepted, Knob, Smaller, SearchTop

\* performance-band and cost-reclaim move the target alone, within its limits.
LEMMA BandFollows ==
    ASSUME NEW knob, Valid(knob), NEW m
    PROVE  Follows(PerformanceBand(knob), knob, m) /\ Follows(CostReclaim(knob), knob, m)
  <1>1. knob \in Knob /\ Accepted(knob)
    BY DEF Valid
  <1> DEFINE low == Larger(TargetMin, knob.target - 10)
             high == Smaller(TargetMax, knob.target + 10)
  <1>2. /\ low \in TargetMin..TargetMax /\ low \in Nat
        /\ high \in TargetMin..TargetMax /\ high \in Nat
    BY <1>1 DEF Accepted, Knob, Larger, Smaller, TargetMin, TargetMax
  <1> HIDE DEF low, high
  <1>3. ASSUME NEW t \in TargetMin..TargetMax, t \in Nat
        PROVE  Follows([knob EXCEPT !.target = t], knob, m)
    <2> DEFINE new == [knob EXCEPT !.target = t]
    <2>1. /\ new \in Knob
          /\ new.request = knob.request /\ new.target = t
          /\ new.min = knob.min /\ new.max = knob.max
      BY <1>1, <1>3 DEF Knob
    <2> HIDE DEF new
    <2>2. Follows(new, knob, m)
      BY <1>1, <1>3, <2>1, SameRequestFollows DEF Accepted
    <2> QED
      BY <2>2 DEF new
  <1>4. /\ PerformanceBand(knob) = [knob EXCEPT !.target = low]
        /\ CostReclaim(knob) = [knob EXCEPT !.target = high]
    BY DEF PerformanceBand, CostReclaim, low, high
  <1> QED
    BY <1>2, <1>3, <1>4

\* pod-cap never goes below the smallest replicas.
LEMMA PodCapFollows ==
    ASSUME NEW knob, Valid(knob), NEW m
    PROVE  Follows(PodCap(knob, m), knob, m)
  <1>1. knob \in Knob /\ Accepted(knob)
    BY DEF Valid
  <1> DEFINE max == Larger(knob.min, (85 * knob.max) \div 100)
             new == [knob EXCEPT !.max = max]
  <1>2. max \in Nat /\ max >= knob.min
    BY <1>1 DEF Larger, Knob
  <1> HIDE DEF max
  <1>3. /\ new \in Knob
        /\ new.request = knob.request /\ new.target = knob.target
        /\ new.min = knob.min /\ new.max = max
    BY <1>1, <1>2 DEF Knob
  <1> HIDE DEF new
  <1>4. Follows(new, knob, m)
    BY <1>1, <1>2, <1>3, SameRequestFollows DEF Accepted
  <1>5. PodCap(knob, m) = new \/ PodCap(knob, m) = knob
    BY DEF PodCap, new, max
  <1> QED
    BY <1>4, <1>5, UnchangedFollows

\* gate-recovery keeps the replicas in order and the target from zero.
LEMMA GateRecoveryFollows ==
    ASSUME NEW knob, Valid(knob), NEW m, NEW new \in GateRecovery(knob, m)
    PROVE  Follows(new, knob, m)
  <1>1. knob \in Knob /\ Accepted(knob)
    BY DEF Valid
  <1> DEFINE wider == IF m.pods >= knob.max THEN knob.max + Larger(2, CeilDiv(knob.max, 2))
                      ELSE knob.max
             lifted == IF knob.min < wider THEN Smaller(wider, knob.min + 1) ELSE knob.min
             slightly == Larger(TargetMin, knob.target - 15)
             much == Larger(TargetMin, knob.target - 30)
  <1>2. wider \in Nat /\ wider >= knob.max
    BY <1>1 DEF Larger, CeilDiv, Knob
  <1> HIDE DEF wider
  <1>3. lifted \in Nat /\ lifted >= knob.min /\ lifted <= wider
    BY <1>1, <1>2 DEF Smaller, Knob, Accepted
  <1> HIDE DEF lifted
  <1>4. \A t \in {slightly, much, TargetMin} : t \in TargetMin..TargetMax /\ t \in Nat
    BY <1>1 DEF Larger, Knob, Accepted, TargetMin, TargetMax
  <1>5. ASSUME NEW t \in Nat, t \in TargetMin..TargetMax,
               NEW low \in Nat, low >= knob.min, low <= wider
        PROVE  Follows([knob EXCEPT !.target = t, !.min = low, !.max = wider], knob, m)
    <2> DEFINE changed == [knob EXCEPT !.target = t, !.min = low, !.max = wider]
    <2>1. /\ changed \in Knob
          /\ changed.request = knob.request /\ changed.target = t
          /\ changed.min = low /\ changed.max = wider
      BY <1>1, <1>2 DEF Knob
    <2> HIDE DEF changed
    <2>2. low >= 1
      BY <1>1, <1>5 DEF Knob, Accepted
    <2>3. Follows(changed, knob, m)
      BY <1>5, <2>1, <2>2, SameRequestFollows
    <2> QED
      BY <2>3 DEF changed
  <1>6. PICK t \in {slightly, much, TargetMin}, low \in {knob.min, lifted} :
          new = [knob EXCEPT !.target = t, !.min = low, !.max = wider]
    <2>1. CASE new = [knob EXCEPT !.target = slightly, !.max = wider]
      <3>1. new = [knob EXCEPT !.target = slightly, !.min = knob.min, !.max = wider]
        BY <1>1, <2>1 DEF Knob
      <3> QED
        BY <3>1
    <2>2. CASE new = [knob EXCEPT !.target = much, !.min = lifted, !.max = wider]
      BY <2>2
    <2>3. CASE new = [knob EXCEPT !.target = TargetMin, !.min = lifted, !.max = wider]
      BY <2>3
    <2> QED
      BY <2>1, <2>2, <2>3 DEF GateRecovery, slightly, much, lifted, wider
  <1>7. low \in Nat /\ low >= knob.min /\ low <= wider
    BY <1>1, <1>2, <1>3, <1>6 DEF Knob, Accepted
  <1> QED
    BY <1>4, <1>5, <1>6, <1>7

\* The floor is half of what a pod needs.
LEMMA FloorEnough ==
    ASSUME NEW m, Found(m)
    PROVE  /\ Floor(m) \in Nat /\ Floor(m) >= RequestMin
           /\ \A r \in Nat : r >= Floor(m) => 2 * r * m.pods >= Demand(m)
  <1> DEFINE D == Demand(m)
             a == CeilTo(D, 2 * m.pods)
  <1>1. D \in Nat /\ m.pods \in Nat \ {0}
    BY DEF Found, Demand
  <1> HIDE DEF D
  <1>2. a \in Int /\ D <= (2 * m.pods) * a
    <2>1. 2 * m.pods \in Nat \ {0} /\ D \in Int
      BY <1>1
    <2> QED
      BY <2>1, CeilToBounds
  <1> HIDE DEF a
  <1>3. Floor(m) = Larger(RequestMin, a)
    BY DEF Floor, a, D
  <1>4. Floor(m) \in Nat /\ Floor(m) >= RequestMin /\ Floor(m) >= a
    BY <1>2, <1>3 DEF Larger, RequestMin
  <1>5. ASSUME NEW r \in Nat, r >= Floor(m) PROVE 2 * r * m.pods >= D
    <2>1. (2 * m.pods) * a <= (2 * m.pods) * r
      BY <1>1, <1>2, <1>4, <1>5, Multiplied
    <2>2. (2 * m.pods) * r = 2 * r * m.pods /\ (2 * m.pods) * a \in Int
          /\ 2 * r * m.pods \in Int
      BY <1>1, <1>2
    <2> QED
      BY <1>1, <1>2, <2>1, <2>2
  <1> QED
    BY <1>4, <1>5 DEF D

\* The search for a cheaper request stops at the floor.
LEMMA RequestOptimalFollows ==
    ASSUME NEW knob, Valid(knob), NEW m, Found(m), NEW new \in RequestOptimal(knob, m)
    PROVE  Follows(new, knob, m)
  <1> DEFINE high == Smaller(knob.request, SearchTop)
             low == Smaller(high, Larger(Floor(m), CeilTo(knob.request, 2)))
  <1>1. /\ knob \in Knob /\ knob.request \in Nat /\ Accepted(knob)
        /\ high \in Nat /\ high >= RequestMin /\ high <= knob.request
    BY DEF Valid, Knob, Accepted, Smaller, SearchTop, RequestMin
  <1>2. CeilTo(knob.request, 2) \in Int
    <2>1. knob.request \in Int /\ 2 \in Nat \ {0}
      BY <1>1
    <2> QED
      BY <2>1, CeilToBounds, Zenon
  <1> HIDE DEF high
  <1>3. /\ low \in Nat /\ low >= RequestMin
        /\ low < high => low >= Floor(m)
    BY <1>1, <1>2, FloorEnough DEF Larger, Smaller, Accepted, RequestMin
  <1> HIDE DEF low
  <1>4. PICK r \in low..high, t \in Targets :
          new = Retuned(knob, r, t)
    <2> DEFINE requests == {r \in low..high : (r - low) % SearchStep = 0}
    <2>1. \E r \in requests, t \in Targets : new = Retuned(knob, r, t)
      BY DEF RequestOptimal, low, high
    <2>2. requests \subseteq low..high
      OBVIOUS
    <2> HIDE DEF requests
    <2> QED
      BY <2>1, <2>2
  <1>5. r \in Nat /\ r >= low /\ r <= high
    BY <1>1, <1>3, <1>4
  <1>6. t \in TargetMin..TargetMax /\ t \in Nat
    BY <1>4, TargetsAssumption DEF TargetMin, TargetMax
  <1>7. /\ new \in Knob /\ new.request = r /\ new.target = t
        /\ new.min = knob.min /\ new.max = knob.max
    <2>1. /\ Retuned(knob, r, t) \in Knob
          /\ Retuned(knob, r, t).request = r /\ Retuned(knob, r, t).target = t
          /\ Retuned(knob, r, t).min = knob.min /\ Retuned(knob, r, t).max = knob.max
      BY <1>1, <1>5, <1>6 DEF Retuned, Knob
    <2> QED
      BY <1>4, <2>1, Zenon
  <1>8. Valid(new)
    BY <1>1, <1>3, <1>5, <1>6, <1>7, NodesAssumption DEF Valid, Accepted, RequestMin
  <1>9. ASSUME r < high PROVE 2 * r * m.pods >= Demand(m)
    BY <1>1, <1>3, <1>5, <1>9, FloorEnough
  <1> QED
    BY <1>1, <1>5, <1>7, <1>8, <1>9, NodesAssumption DEF Follows, high

\* A cap on the target changes nothing else.
LEMMA CappedFollows ==
    ASSUME NEW knob, Valid(knob), NEW m, NEW p, Follows(p, knob, m), NEW cap \in TargetCaps
    PROVE  Follows(Capped(p, knob, cap), knob, m)
  <1> DEFINE t == Larger(cap, knob.target)
             new == [p EXCEPT !.target = t]
  <1>1. p \in Knob /\ Accepted(p)
    BY DEF Follows, Valid
  <1>2. t \in TargetMin..TargetMax /\ t \in Nat
    BY TargetsAssumption DEF Valid, Knob, Accepted, Larger, TargetMin, TargetMax
  <1> HIDE DEF t
  <1>3. /\ new \in Knob /\ new.request = p.request /\ new.target = t
        /\ new.min = p.min /\ new.max = p.max
    BY <1>1, <1>2 DEF Knob
  <1> HIDE DEF new
  <1>4. Follows(new, knob, m)
    BY <1>1, <1>2, <1>3 DEF Follows, Valid, Accepted
  <1>5. Capped(p, knob, cap) = p \/ Capped(p, knob, cap) = new
    BY DEF Capped, new, t
  <1> QED
    BY <1>4, <1>5

\* Whatever the candidates propose to one application.
LEMMA ProposalsFollow ==
    ASSUME NEW knob, Valid(knob), NEW m, Found(m), NEW new \in Proposals(knob, m)
    PROVE  Follows(new, knob, m)
  <1>1. CASE new \in GateRecovery(knob, m)
    BY <1>1, GateRecoveryFollows
  <1>2. CASE new \notin GateRecovery(knob, m)
    <2>1. PICK p \in {PerformanceBand(knob), CostReclaim(knob), PodCap(knob, m),
                      Consolidated(knob, m), UsageSized(knob, m)}
                      \cup RequestOptimal(knob, m),
               cap \in TargetCaps :
            new = Capped(p, knob, cap)
      BY <1>2 DEF Proposals
    <2>2. Follows(p, knob, m)
      BY <2>1, BandFollows, PodCapFollows, ConsolidatedFollows, UsageSizedFollows,
         RequestOptimalFollows
    <2> QED
      BY <2>1, <2>2, CappedFollows
  <1> QED
    BY <1>1, <1>2

----------------------------------------------------------------------------
\* The settings of all applications.

\* One application's part of an idle fit: what exceeds its floor shrinks by
\* room / slack at least.
LEMMA ShrunkBound ==
    ASSUME NEW floor \in Int, NEW request \in Int,
           NEW room \in Nat, NEW slack \in Nat, room < slack
    PROVE  LET shrunk == floor + ((request - floor) * room) \div slack
               fitted == Larger(floor, FloorTo(shrunk))
               new == IF fitted >= request THEN request ELSE fitted
           IN  /\ fitted \in Int /\ fitted >= floor /\ new \in Int
               /\ slack * new <= (slack - room) * floor + room * request
  <1> DEFINE D == ((request - floor) * room) \div slack
             shrunk == floor + D
             fitted == Larger(floor, FloorTo(shrunk))
             new == IF fitted >= request THEN request ELSE fitted
  <1>1. /\ (request - floor) * room \in Int
        /\ (request - floor) * room = room * request - room * floor
        /\ (slack - room) * floor = slack * floor - room * floor
    OBVIOUS
  <1>2. /\ D \in Int
        /\ slack * D <= (request - floor) * room
        /\ (request - floor) * room < slack * D + slack
    BY <1>1, Divided
  <1> HIDE DEF D
  <1>3. shrunk \in Int /\ FloorTo(shrunk) \in Int /\ FloorTo(shrunk) <= shrunk
    BY <1>2, FloorToBound
  <1>4. fitted \in Int /\ fitted >= floor /\ (fitted = floor \/ fitted <= shrunk)
    BY <1>3, LimitsType
  <1> HIDE DEF fitted
  <1>5. new \in Int
    BY <1>4
  <1>6. slack * new <= (slack - room) * floor + room * request
    <2>1. CASE request < floor
      <3>1. new = request
        BY <2>1, <1>4
      <3>2. (slack - room) * request <= (slack - room) * floor
        BY <2>1, Multiplied
      <3>3. slack * request = (slack - room) * request + room * request
        OBVIOUS
      <3>4. /\ (slack - room) * request \in Int /\ (slack - room) * floor \in Int
            /\ room * request \in Int
        OBVIOUS
      <3> QED
        BY <3>1, <3>2, <3>3, <3>4
    <2>2. CASE request >= floor
      <3>1. (request - floor) * room >= 0
        BY <2>2
      <3>2. D >= 0
        <4>1. slack * (D + 1) = slack * D + slack
          BY <1>2
        <4>2. slack * 0 < slack * (D + 1)
          BY <1>1, <1>2, <3>1, <4>1
        <4>3. 0 < D + 1
          BY <4>2, <1>2, Multiplied
        <4> QED
          BY <4>3, <1>2
      <3>3. new <= floor + D
        BY <1>2, <1>4, <2>2, <3>2
      <3>4. slack * new <= slack * (floor + D)
        <4>1. floor + D \in Int
          BY <1>2
        <4> HIDE DEF new
        <4> QED
          BY <1>5, <3>3, <4>1, Multiplied
      <3>5. slack * (floor + D) = slack * floor + slack * D
        BY <1>2
      <3>6. /\ slack * new \in Int /\ slack * floor \in Int /\ slack * D \in Int
            /\ room * floor \in Int /\ room * request \in Int
        BY <1>2, <1>5
      <3> HIDE DEF new
      <3> QED
        BY <1>1, <1>2, <3>4, <3>5, <3>6
    <2> QED
      BY <2>1, <2>2
  <1> QED
    BY <1>4, <1>5, <1>6 DEF D, fitted

\* The same of all applications.
AllValid(ks) == ks \in [Apps -> Knob] /\ \A a \in Apps : Valid(ks[a])
AllFound(ms) == ms \in [Apps -> [cpu : Nat, pods : Nat, perPod : Nat, need : Nat]]
                /\ \A a \in Apps : Found(ms[a])

\* An idle fit shrinks nobody below the floor and fits a zone.
LEMMA IdleFitFollows ==
    ASSUME NEW ks, AllValid(ks), NEW ms, AllFound(ms), IdleFit(ks, ms) # ks
    PROVE  /\ IdleFit(ks, ms) \in [Apps -> Knob]
           /\ \A a \in Apps : Follows(IdleFit(ks, ms)[a], ks[a], ms[a])
           /\ SumFunction([a \in Apps |-> IdleFit(ks, ms)[a].request]) <= ZoneBudget
  <1> DEFINE R == [a \in Apps |-> ks[a].request]
             F == [a \in Apps |-> Floor(ms[a])]
             total == SumFunction(R)
             slack == total - SumFunction(F)
             room == ZoneBudget - SumFunction(F)
             shrunk == [a \in Apps |-> F[a] + ((ks[a].request - F[a]) * room) \div slack]
             fitted == [a \in Apps |-> Larger(F[a], FloorTo(shrunk[a]))]
             fit == [a \in Apps |-> IF fitted[a] >= ks[a].request THEN ks[a]
                                     ELSE Resized(ks[a], fitted[a])]
             N == [a \in Apps |-> IF fitted[a] >= R[a] THEN R[a] ELSE fitted[a]]
  <1>1. ~(IdleNodes(ks) <= BaselineNodes \/ total <= ZoneBudget \/ room < 0)
        /\ IdleFit(ks, ms) = fit
    BY Zenon DEF IdleFit
  <1>2. \A a \in Apps : /\ ks[a] \in Knob /\ Valid(ks[a]) /\ Found(ms[a])
                        /\ ks[a].request \in Nat
                        /\ Floor(ms[a]) \in Nat /\ Floor(ms[a]) >= RequestMin
    BY FloorEnough DEF AllValid, AllFound, Knob
  <1>3. IsFiniteSet(Apps) /\ R \in [Apps -> Int] /\ F \in [Apps -> Int]
    BY <1>2, AppsAssumption
  <1>4. total \in Int /\ SumFunction(F) \in Int
    <2> HIDE DEF R, F
    <2> QED
      BY <1>3, SumType
  <1>5. ZoneBudget \in Int
    BY NodesAssumption DEF ZoneBudget, Larger
  <1> HIDE DEF total
  <1>6. slack \in Nat /\ room \in Nat /\ room < slack
    <2> DEFINE SF == SumFunction(F)
    <2>1. SF \in Int /\ ~(total <= ZoneBudget) /\ ~(ZoneBudget - SF < 0)
      BY <1>1, <1>4, Zenon
    <2> HIDE DEF SF
    <2>2. total - SF \in Nat /\ ZoneBudget - SF \in Nat /\ ZoneBudget - SF < total - SF
      BY <2>1, <1>4, <1>5
    <2> QED
      BY <2>2 DEF SF
  <1>7. slack * SumFunction(F) + room * (total - SumFunction(F)) = slack * ZoneBudget
    <2> DEFINE SF == SumFunction(F)
    <2>1. SF \in Int
      BY <1>4
    <2> HIDE DEF SF
    <2>2. (total - SF) * SF + (ZoneBudget - SF) * (total - SF) = (total - SF) * ZoneBudget
      BY <2>1, <1>4, <1>5
    <2> QED
      BY <2>2 DEF SF
  <1>8. ASSUME NEW a \in Apps
        PROVE  /\ fitted[a] \in Int /\ fitted[a] >= F[a] /\ N[a] \in Int
               /\ slack * N[a] <= (slack - room) * F[a] + room * R[a]
    <2>1. /\ F[a] \in Int /\ R[a] \in Int /\ R[a] = ks[a].request
          /\ shrunk[a] = F[a] + ((R[a] - F[a]) * room) \div slack
          /\ fitted[a] = Larger(F[a], FloorTo(shrunk[a]))
          /\ N[a] = IF fitted[a] >= R[a] THEN R[a] ELSE fitted[a]
      <3> HIDE DEF slack, room
      <3> QED
        BY <1>2
    <2> HIDE DEF slack, room, R, F, N, fitted, shrunk
    <2> DEFINE t == Larger(F[a], FloorTo(F[a] + ((R[a] - F[a]) * room) \div slack))
               n == IF t >= R[a] THEN R[a] ELSE t
    <2>2. /\ t \in Int /\ t >= F[a] /\ n \in Int
          /\ slack * n <= (slack - room) * F[a] + room * R[a]
      BY <1>6, <2>1, ShrunkBound
    <2>3. fitted[a] = t /\ N[a] = n
      BY <2>1
    <2> QED
      BY <2>2, <2>3
  <1>9. fit \in [Apps -> Knob] /\ \A a \in Apps : Follows(fit[a], ks[a], ms[a])
                                              /\ fit[a].request = N[a]
    <2>1. ASSUME NEW a \in Apps
          PROVE  /\ fit[a] \in Knob /\ Follows(fit[a], ks[a], ms[a])
                 /\ fit[a].request = N[a]
      <3> DEFINE r == fitted[a]
      <3>1. r \in Int /\ r >= Floor(ms[a])
        BY <1>8
      <3>2. fit[a] = (IF r >= ks[a].request THEN ks[a] ELSE Resized(ks[a], r))
            /\ N[a] = (IF r >= ks[a].request THEN ks[a].request ELSE r)
        <4> HIDE DEF slack, room, shrunk
        <4> QED
          OBVIOUS
      <3> HIDE DEF r, fit, N, fitted
      <3>3. CASE r >= ks[a].request
        BY <1>2, <3>2, <3>3, UnchangedFollows
      <3>4. CASE ~(r >= ks[a].request)
        <4>1. /\ r \in Nat /\ RequestMin <= r
              /\ 2 * r * ms[a].pods >= Demand(ms[a])
              /\ ks[a].request <= Usable => r <= Usable
          <5>1. r \in Nat /\ RequestMin <= r
            BY <1>2, <3>1 DEF RequestMin
          <5>2. ks[a].request <= Usable => r <= Usable
            BY <1>2, <3>1, <3>4, NodesAssumption
          <5> QED
            BY <1>2, <3>1, <5>1, <5>2, FloorEnough
        <4>2. Valid(Resized(ks[a], r)) /\ Resized(ks[a], r).request = r
          BY <1>2, <4>1, ResizedFits
        <4>3. Follows(Resized(ks[a], r), ks[a], ms[a])
          BY <1>2, <4>1, ResizedFollows
        <4> QED
          BY <3>2, <3>4, <4>2, <4>3 DEF Valid
      <3> QED
        BY <3>3, <3>4
    <2>2. fit = [a \in Apps |-> fit[a]]
      OBVIOUS
    <2> HIDE DEF fit, N
    <2> QED
      BY <2>1, <2>2
  <1>10. N \in [Apps -> Int]
    <2> HIDE DEF fitted
    <2> QED
      BY <1>2, <1>8
  <1>11. SumFunction(N) <= ZoneBudget
    <2> DEFINE i == slack - room
               H == [a \in Apps |-> i * F[a] + room * R[a]]
               M == [a \in Apps |-> slack * N[a]]
    <2> HIDE DEF slack, room, R, F, N
    <2>1. i \in Int /\ 0 \in Int /\ slack \in Int /\ room \in Int
      BY <1>6
    <2> HIDE DEF i
    <2>2. H \in [Apps -> Int] /\ M \in [Apps -> Int]
      BY <1>3, <1>10, <2>1
    <2>3. \A a \in Apps : H[a] = i * F[a] + room * R[a] /\ M[a] = slack * N[a]
      OBVIOUS
    <2>4. \A a \in Apps : M[a] <= H[a]
      BY <1>8, <1>10, <2>1 DEF i
    <2> HIDE DEF H, M
    <2>5. SumFunction(M) <= SumFunction(H)
      BY <1>3, <2>2, <2>4, SumMonotone
    <2>6. SumFunction(H) = i * SumFunction(F) + room * SumFunction(R)
      BY <1>3, <2>1, <2>2, <2>3, SumLinear
    <2>7. SumFunction(M) = slack * SumFunction(N)
      BY <1>3, <1>10, <2>1, <2>2, <2>3, SumScaled
    <2>8. SumFunction(N) \in Int
      BY <1>3, <1>10, SumType
    <2>9. i * SumFunction(F) + room * SumFunction(R) = slack * ZoneBudget
      BY <1>4, <1>6, <1>7 DEF i, total
    <2>10. slack * SumFunction(N) <= slack * ZoneBudget
      BY <2>5, <2>6, <2>7, <2>8, <2>9, <1>5, <1>6
    <2> QED
      BY <2>8, <2>10, <1>5, <1>6
  <1>12. [a \in Apps |-> fit[a].request] = N
    <2> HIDE DEF fit, fitted
    <2> QED
      BY <1>9
  <1> QED
    <2> HIDE DEF fit, N
    <2> QED
      BY <1>1, <1>9, <1>11, <1>12

\* What may follow the settings of all applications.
AllFollow(new, ks, ms) ==
    new \in [Apps -> Knob] /\ \A a \in Apps : Follows(new[a], ks[a], ms[a])

\* The settings of all may stay.
LEMMA AllUnchangedFollow ==
    ASSUME NEW ks, AllValid(ks), NEW ms
    PROVE  AllFollow(ks, ks, ms)
  BY UnchangedFollows DEF AllFollow, AllValid

\* Sizing before the load leads to settings that may follow.
LEMMA PresizeFollows ==
    ASSUME NEW ks, AllValid(ks), NEW ms, AllFound(ms)
    PROVE  AllFollow(Presize(ks, ms), ks, ms)
  <1>1. CASE IdleFit(ks, ms) # ks
    <2>1. Presize(ks, ms) = IdleFit(ks, ms)
      BY <1>1 DEF Presize
    <2> QED
      BY <1>1, <2>1, IdleFitFollows DEF AllFollow
  <1>2. CASE IdleFit(ks, ms) = ks
    <2> DEFINE new == [a \in Apps |-> UsageSized(ks[a], ms[a])]
    <2>1. ASSUME NEW a \in Apps PROVE Follows(UsageSized(ks[a], ms[a]), ks[a], ms[a])
      BY UsageSizedFollows DEF AllValid, AllFound
    <2>2. \A a \in Apps : UsageSized(ks[a], ms[a]) \in Knob
      BY <2>1 DEF Follows, Valid
    <2>3. AllFollow(new, ks, ms)
      BY <2>1, <2>2 DEF AllFollow
    <2>4. Presize(ks, ms) = new
      BY <1>2 DEF Presize
    <2> QED
      BY <2>3, <2>4
  <1> QED
    BY <1>1, <1>2

\* node-shed leaves the requests alone, and its sum of reservations is not zero.
LEMMA NodeShedFollows ==
    ASSUME NEW ks, AllValid(ks), NEW ms
    PROVE  AllFollow(NodeShed(ks), ks, ms)
  <1> DEFINE P == [a \in Apps |-> ks[a].max * ks[a].request]
             peak == SumFunction(P)
             budget == (CeilDiv(peak, Usable) - 1) * Usable
             new == [a \in Apps |->
                       [ks[a] EXCEPT !.max = Larger(ks[a].min, (@ * budget) \div peak)]]
  <1>1. ASSUME NEW a \in Apps
        PROVE  /\ ks[a] \in Knob /\ Valid(ks[a]) /\ Accepted(ks[a])
               /\ P[a] \in Int /\ P[a] >= 1
    <2>1. /\ ks[a] \in Knob /\ Valid(ks[a]) /\ Accepted(ks[a])
      BY DEF AllValid, Valid
    <2>2. ks[a].max \in Nat \ {0} /\ ks[a].request \in Nat \ {0}
      BY <2>1 DEF Knob, Accepted, RequestMin
    <2>3. ks[a].max * ks[a].request \in Int /\ ks[a].max * ks[a].request >= 1
      BY <2>2
    <2> QED
      BY <2>1, <2>3
  <1>2. P \in [Apps -> Int]
    BY <1>1
  <1>3. peak \in Int /\ (Apps # {} => peak >= 1)
    <2> HIDE DEF P
    <2> QED
      BY <1>1, <1>2, AppsAssumption, SumType, SumPositive
  <1>4. budget \in Int
    <2> HIDE DEF peak
    <2>1. CeilDiv(peak, Usable) \in Int
      BY <1>3, NodesAssumption, CeilDivBounds
    <2> QED
      BY <2>1, NodesAssumption
  <1>5. NodeShed(ks) = ks \/ NodeShed(ks) = new
    BY DEF NodeShed
  <1> HIDE DEF peak, budget
  <1>6. ASSUME NEW a \in Apps
        PROVE  new[a] \in Knob /\ Follows(new[a], ks[a], ms[a])
    <2> DEFINE max == Larger(ks[a].min, (ks[a].max * budget) \div peak)
               n == [ks[a] EXCEPT !.max = max]
    <2>1. peak \in Nat \ {0} /\ ks[a].max * budget \in Int
      BY <1>1, <1>3, <1>4 DEF Knob
    <2>2. max \in Nat /\ max >= ks[a].min
      BY <1>1, <2>1, Divided DEF Larger, Knob
    <2>3. new[a] = n
      BY <1>1 DEF Knob
    <2> HIDE DEF max
    <2>4. /\ n \in Knob
          /\ n.request = ks[a].request /\ n.target = ks[a].target
          /\ n.min = ks[a].min /\ n.max = max
      BY <1>1, <2>2 DEF Knob
    <2> HIDE DEF n, new
    <2>5. Follows(n, ks[a], ms[a])
      BY <1>1, <2>2, <2>4, SameRequestFollows DEF Accepted
    <2> QED
      BY <2>3, <2>4, <2>5
  <1>7. AllFollow(new, ks, ms)
    BY <1>6 DEF AllFollow
  <1> QED
    BY <1>5, <1>7, AllUnchangedFollow

----------------------------------------------------------------------------
\* The loop.

\* Between a load test and what is made of it, the measurement is of the pods
\* that the live settings cause, which carry the load unless some run did not
\* care; after an idle fit the requests fit a zone.
SizingInv ==
    /\ AllValid(knobs)
    /\ Schedulable
    /\ pc \in {"presize", "candidate"} =>
         AllFound(seen) /\ (~aux_beyond => \A a \in Apps : Carried(seen[a]))
    /\ pc = "again" /\ aux_sizing = "idle"
         => SumFunction([a \in Apps |-> knobs[a].request]) <= ZoneBudget

\* A load test finds at least one pod, and no more CPU than the nodes have.
LEMMA MeasuredType ==
    ASSUME NEW knob, Valid(knob), NEW l \in Loads
    PROVE  LET m == Measured(knob, l)
           IN  /\ m \in [cpu : Nat, pods : Nat, perPod : Nat]
               /\ m.pods >= 1 /\ m.cpu <= m.pods * Alloc /\ m.perPod <= Alloc
  <1> DEFINE pods == Replicas(l.cpu, knob)
             cpu == Smaller(l.cpu, pods * Alloc)
             busiest == CeilDiv(l.skew * cpu, 100 * pods)
             perPod == Smaller(Alloc, busiest)
  <1>1. l.cpu \in Nat /\ l.skew \in Nat /\ Alloc \in Nat
    BY LoadsAssumption, NodeAssumption
  <1>2. pods \in Nat /\ pods >= 1
    <2>1. knob.request \in Nat \ {0} /\ knob.target \in Nat \ {0} /\ knob.min \in Nat
          /\ knob.min >= 1 /\ knob.max \in Nat
      BY DEF Valid, Accepted, Knob, RequestMin, TargetMin, TargetMax
    <2>2. knob.request * knob.target \in Nat \ {0} /\ 100 * l.cpu \in Int
      BY <1>1, <2>1
    <2>3. CeilDiv(100 * l.cpu, knob.request * knob.target) \in Int
      BY <2>2, CeilDivBounds
    <2> QED
      BY <2>1, <2>3 DEF Replicas, Clamp, Larger, Smaller
  <1> HIDE DEF pods
  <1>3. cpu \in Nat /\ cpu <= pods * Alloc
    <2>1. pods * Alloc \in Nat
      BY <1>1, <1>2
    <2> QED
      BY <1>1, <2>1 DEF Smaller
  <1> HIDE DEF cpu
  <1>4. busiest \in Nat
    <2>1. l.skew * cpu \in Nat /\ 100 * pods \in Nat \ {0}
      BY <1>1, <1>2, <1>3
    <2> DEFINE n == l.skew * cpu
               d == 100 * pods
    <2>2. n \in Nat /\ n \in Int /\ d \in Nat \ {0}
      BY <2>1
    <2> HIDE DEF n, d
    <2>3. CeilDiv(n, d) \in Int /\ n <= d * CeilDiv(n, d)
      BY <2>2, CeilDivBounds
    <2>4. CeilDiv(n, d) \in Nat
      <3>1. d * (-1) < d * CeilDiv(n, d)
        BY <2>2, <2>3
      <3>2. -1 < CeilDiv(n, d)
        BY <3>1, <2>2, <2>3, Multiplied
      <3> QED
        BY <2>3, <3>2
    <2> QED
      BY <2>4 DEF n, d
  <1> HIDE DEF busiest
  <1>5. perPod \in Nat /\ perPod <= Alloc
    BY <1>1, <1>4 DEF Smaller
  <1> HIDE DEF perPod
  <1>6. Measured(knob, l) = [cpu |-> cpu, pods |-> pods, perPod |-> perPod]
    BY DEF Measured, cpu, pods, perPod, busiest
  <1> QED
    BY <1>2, <1>3, <1>5, <1>6

\* What a run needs at the load that it sizes for is a number.
LEMMA NeedType ==
    ASSUME NEW a \in Apps, NEW cpu \in Nat, aim \in Aims
    PROVE  Required(cpu, AppTarget(a, cpu, aim)) \in Nat
  <1>1. /\ aim.scale \in Nat
        /\ a \in DOMAIN aim.fixed => aim.fixed[a] \in Nat
    BY AimsAssumption
  <1>2. AppTarget(a, cpu, aim) \in Nat
    BY <1>1 DEF AppTarget
  <1> DEFINE t == AppTarget(a, cpu, aim)
  <1> HIDE DEF t
  <1>3. ASSUME t \in Nat PROVE Rounded(t, 100) \in Nat
    BY <1>3 DEF Rounded
  <1>4. t \in Nat
    BY <1>2 DEF t
  <1>5. Required(cpu, t) \in Nat
    BY <1>3, <1>4 DEF Required
  <1> QED
    BY <1>5 DEF t

\* So is what the planner makes of the measurement.
LEMMA SizedFound ==
    ASSUME NEW a \in Apps, NEW knob, Valid(knob), NEW l \in Loads, aim \in Aims
    PROVE  Found(Sized(a, Measured(knob, l)))
  <1> DEFINE m == Measured(knob, l)
  <1>1. /\ m \in [cpu : Nat, pods : Nat, perPod : Nat]
        /\ m.pods >= 1 /\ m.cpu <= m.pods * Alloc /\ m.perPod <= Alloc
    BY MeasuredType
  <1> HIDE DEF m
  <1>2. Required(m.cpu, AppTarget(a, m.cpu, aim)) \in Nat
    BY <1>1, NeedType
  <1>3. Found(Sized(a, m))
    BY <1>1, <1>2 DEF Sized, Found
  <1> QED
    BY <1>3 DEF m

\* What a candidate gives every application.
LEMMA BundleFollows ==
    ASSUME AllValid(knobs), AllFound(seen), NEW new \in Bundles
    PROVE  AllFollow(new, knobs, seen)
  <1> DEFINE fit == IdleFit(knobs, seen)
             all(a) == Proposals(knobs[a], seen[a])
                       \cup {Capped(fit[a], knobs[a], cap) : cap \in TargetCaps}
  <1>1. /\ DOMAIN new = Apps /\ new = [a \in Apps |-> new[a]]
        /\ \A a \in Apps : new[a] \in Offers[a]
    BY DEF Bundles
  <1>2. \A a \in Apps : Offers[a] \subseteq {knobs[a]} \cup all(a)
    <2> HIDE DEF all
    <2>1. Offers = [a \in Apps |->
             {knobs[a]} \cup (IF WithRequest THEN all(a) ELSE HpaOnly(all(a), knobs[a]))]
      BY Zenon DEF Offers, all
    <2> QED
      BY <2>1 DEF HpaOnly
  <1>3. AllFollow(fit, knobs, seen)
    BY IdleFitFollows, AllUnchangedFollow DEF AllFollow
  <1>4. ASSUME NEW a \in Apps
        PROVE  Follows(new[a], knobs[a], seen[a])
    <2> HIDE DEF fit
    <2>1. Valid(knobs[a]) /\ Found(seen[a])
      BY DEF AllValid, AllFound
    <2>2. CASE new[a] = knobs[a]
      BY <2>1, <2>2, UnchangedFollows
    <2>3. CASE new[a] \in Proposals(knobs[a], seen[a])
      BY <2>1, <2>3, ProposalsFollow
    <2>4. CASE \E cap \in TargetCaps : new[a] = Capped(fit[a], knobs[a], cap)
      BY <1>3, <2>1, <2>4, CappedFollows DEF AllFollow
    <2> QED
      BY <1>1, <1>2, <2>2, <2>3, <2>4
  <1>5. \A a \in Apps : new[a] \in Knob
    BY <1>4 DEF Follows, Valid
  <1> QED
    BY <1>1, <1>4, <1>5 DEF AllFollow

\* Every step leads to settings that may follow.
LEMMA StepFollows ==
    ASSUME SizingInv, [Next]_vars
    PROVE  AllFollow(knobs', knobs, seen)
  <1>1. CASE Sizing
    BY <1>1, PresizeFollows DEF Sizing, SizingInv
  <1>2. CASE AdoptBundle
    BY <1>2, BundleFollows DEF AdoptBundle, SizingInv
  <1>3. CASE AdoptShed
    BY <1>3, NodeShedFollows DEF AdoptShed, SizingInv
  <1>4. CASE UNCHANGED knobs
    BY <1>4, AllUnchangedFollow DEF SizingInv
  <1> QED
    BY <1>1, <1>2, <1>3, <1>4 DEF Next, LoadTest, KeepSettings, vars

\* The rest of TypeOK.
CourseOK ==
    /\ pc \in {"baseline", "presize", "again", "candidate"}
    /\ adopted \in 0..MaxCandidates
    /\ aux_sizing \in {"none", "idle", "usage"}

SeenOK == seen \in [Apps -> [cpu : Nat, pods : Nat, perPod : Nat, need : Nat]]

\* The inductive invariant holds before the first run.
LEMMA SizingInit ==
    ASSUME Init
    PROVE  TypeOK /\ SizingInv
  <1>1. \A a \in Apps : Valid(knobs[a]) /\ knobs[a] \in Knob
    BY InitAssumption DEF Init, Valid
  <1>2. AllValid(knobs)
    BY <1>1 DEF AllValid, Init
  <1>3. NothingSeen \in [cpu : Nat, pods : Nat, perPod : Nat, need : Nat]
    BY DEF NothingSeen
  <1>4. SeenOK
    BY <1>3 DEF SeenOK, Init
  <1>5. CourseOK
    BY BoundAssumption DEF CourseOK, Init
  <1>6. aux_beyond \in BOOLEAN
    BY Zenon DEF Init
  <1>7. SizingInv
    BY <1>2, InitAssumption DEF SizingInv, Schedulable, Init
  <1> QED
    BY <1>2, <1>4, <1>5, <1>6, <1>7 DEF TypeOK, SeenOK, CourseOK, AllValid, Init

\* What a load test finds.
LEMMA LoadTestFinds ==
    ASSUME load \in [Apps -> Loads], aim \in Aims, SizingInv, LoadTest
    PROVE  AllFound(seen') /\ (~aux_beyond' => \A a \in Apps : Carried(seen'[a]))
  <1>1. ASSUME NEW a \in Apps PROVE Found(Sized(a, Measured(knobs[a], load[a])))
    BY SizedFound DEF SizingInv, AllValid
  <1>2. seen' = [a \in Apps |-> Sized(a, Measured(knobs[a], load[a]))]
    BY DEF LoadTest
  <1>3. \A a \in Apps : Found(seen'[a])
    BY <1>1, <1>2
  <1>4. AllFound(seen')
    BY <1>2, <1>3 DEF AllFound, Found
  <1>5. ASSUME ~aux_beyond', NEW a \in Apps PROVE Carried(seen'[a])
    <2>1. ~(seen'[a].need > seen'[a].pods * Alloc)
      BY <1>5 DEF LoadTest
    <2>2. seen'[a].need \in Nat /\ seen'[a].pods * Alloc \in Nat
      BY <1>3, NodeAssumption DEF Found
    <2> QED
      BY <2>1, <2>2 DEF Carried
  <1> QED
    BY <1>4, <1>5

\* A step keeps the types.
LEMMA SizingTypeStep ==
    ASSUME TypeOK, SizingInv, [Next]_vars
    PROVE  TypeOK'
  <1>1. knobs' \in [Apps -> Knob]
    BY StepFollows DEF AllFollow
  <1>2. SeenOK'
    <2>1. CASE LoadTest
      BY <2>1, LoadTestFinds DEF TypeOK, SeenOK, AllFound
    <2>2. CASE UNCHANGED seen
      BY <2>2 DEF TypeOK, SeenOK
    <2> QED
      BY <2>1, <2>2 DEF Next, Sizing, KeepSettings, AdoptBundle, AdoptShed, vars
  <1>3. CourseOK'
    BY BoundAssumption DEF TypeOK, CourseOK, Next, LoadTest, Sizing, KeepSettings, AdoptBundle,
                           AdoptShed, vars
  <1>4. load' = load /\ aim' = aim
    BY DEF Next, LoadTest, Sizing, KeepSettings, AdoptBundle, AdoptShed, vars
  <1>5. aux_beyond' \in BOOLEAN
    <2>1. CASE LoadTest
      BY <2>1, Zenon DEF LoadTest
    <2>2. CASE UNCHANGED aux_beyond
      BY <2>2, Zenon DEF TypeOK
    <2> QED
      BY <2>1, <2>2 DEF Next, Sizing, KeepSettings, AdoptBundle, AdoptShed, vars
  <1> QED
    BY <1>1, <1>2, <1>3, <1>4, <1>5 DEF TypeOK, SeenOK, CourseOK

\* A step keeps the rest of the inductive invariant.
LEMMA SizingInvStep ==
    ASSUME TypeOK, SizingInv, [Next]_vars
    PROVE  SizingInv'
  <1>1. AllValid(knobs)'
    BY StepFollows DEF AllFollow, AllValid, Follows
  <1>2. (pc \in {"presize", "candidate"} =>
           AllFound(seen) /\ (~aux_beyond => \A a \in Apps : Carried(seen[a])))'
    <2>1. CASE LoadTest
      BY <2>1, LoadTestFinds DEF TypeOK
    <2>2. CASE Sizing
      BY <2>2 DEF SizingInv, Sizing
    <2>3. CASE KeepSettings \/ AdoptBundle \/ AdoptShed
      BY <2>3 DEF KeepSettings, AdoptBundle, AdoptShed
    <2>4. CASE UNCHANGED vars
      BY <2>4 DEF SizingInv, vars
    <2> QED
      BY <2>1, <2>2, <2>3, <2>4 DEF Next
  <1>3. (pc = "again" /\ aux_sizing = "idle"
           => SumFunction([a \in Apps |-> knobs[a].request]) <= ZoneBudget)'
    <2>1. CASE Sizing
      <3> SUFFICES ASSUME pc' = "again", aux_sizing' = "idle"
                   PROVE  SumFunction([a \in Apps |-> knobs'[a].request]) <= ZoneBudget
        OBVIOUS
      <3>1. IdleFit(knobs, seen) # knobs /\ knobs' = Presize(knobs, seen)
        BY <2>1 DEF Sizing
      <3>2. knobs' = IdleFit(knobs, seen)
        BY <3>1 DEF Presize
      <3>3. AllValid(knobs) /\ AllFound(seen)
        BY <2>1 DEF SizingInv, Sizing
      <3> QED
        BY <3>1, <3>2, <3>3, IdleFitFollows
    <2>2. CASE LoadTest \/ KeepSettings \/ AdoptBundle \/ AdoptShed
      <3>1. pc' # "again"
        BY <2>2 DEF LoadTest, KeepSettings, AdoptBundle, AdoptShed
      <3> QED
        BY <3>1
    <2>3. CASE UNCHANGED vars
      BY <2>3 DEF SizingInv, vars
    <2> QED
      BY <2>1, <2>2, <2>3 DEF Next
  <1>4. Schedulable'
    <2> SUFFICES ASSUME ~aux_beyond', NEW a \in Apps
                 PROVE  knobs'[a].request <= Usable
      BY DEF Schedulable
    <2>1. ~aux_beyond
      BY DEF Next, LoadTest, Sizing, KeepSettings, AdoptBundle, AdoptShed, vars
    <2>2. knobs[a].request <= Usable
      BY <2>1 DEF SizingInv, Schedulable
    <2>3. CASE Sizing \/ AdoptBundle \/ AdoptShed
      <3>1. Carried(seen[a])
        BY <2>1, <2>3 DEF SizingInv, Sizing, AdoptBundle, AdoptShed
      <3> QED
        BY <2>2, <3>1, StepFollows DEF AllFollow, Follows
    <2>4. CASE LoadTest \/ KeepSettings \/ UNCHANGED vars
      BY <2>2, <2>4 DEF LoadTest, KeepSettings, vars
    <2> QED
      BY <2>3, <2>4 DEF Next
  <1> QED
    BY <1>1, <1>2, <1>3, <1>4 DEF SizingInv

\* The measurements are of pods that are there, whatever is adopted in whatever
\* order, and the settings are accepted and fit their nodes as far as the runs
\* size for a load that the pods carry: the inductive invariant.
THEOREM SizingStays == Spec => [](TypeOK /\ SizingInv)
<1>1. Init => TypeOK /\ SizingInv
  BY SizingInit
<1>2. TypeOK /\ SizingInv /\ [Next]_vars => (TypeOK /\ SizingInv)'
  BY SizingTypeStep, SizingInvStep
<1> QED
  BY <1>1, <1>2, PTL DEF Spec

\* Settings and measurements keep their types.
THEOREM SizingTypes == Spec => []TypeOK
BY SizingStays, PTL

\* The HPA API accepts every setting that any sequence of runs arrives at.
THEOREM SettingsAccepted == Spec => []KnobsAccepted
<1>1. SizingInv => KnobsAccepted
  BY DEF SizingInv, AllValid, Valid, KnobsAccepted
<1> QED
  BY <1>1, SizingStays, PTL

\* tuning_engine.py:47-49: requests do not grow beyond a node from run to run,
\* until a run sizes for a load that its pods could not carry.
THEOREM PodsStaySchedulable == Spec => []Schedulable
<1>1. SizingInv => Schedulable
  BY DEF SizingInv
<1> QED
  BY <1>1, SizingStays, PTL

\* No run sizes for more than what has been measured.
AsMeasured == aim.scale <= 100 /\ DOMAIN aim.fixed = {}

\* Then it asks for no more than that either.
LEMMA AsMeasuredNeed ==
    ASSUME NEW a \in Apps, NEW cpu \in Nat, aim \in Aims, AsMeasured
    PROVE  Required(cpu, AppTarget(a, cpu, aim)) <= cpu
  <1> DEFINE n == aim.scale * cpu
  <1>1. aim.scale \in Nat /\ aim.scale <= 100
    BY AimsAssumption DEF AsMeasured
  <1>2. cpu * aim.scale <= cpu * 100 /\ cpu * aim.scale = n /\ n \in Nat
    BY <1>1, Multiplied
  <1>3. AppTarget(a, cpu, aim) = n
    BY DEF AppTarget, AsMeasured
  <1> HIDE DEF n
  <1>4. Rounded(n, 100) <= cpu
    BY <1>2, RoundedAtMost
  <1> QED
    BY <1>2, <1>3, <1>4 DEF Required

\* -LoadScale at most 1 and no -TargetRps, the default among them: a pod fits a
\* node after any number of runs, without a premise on what was measured.
THEOREM MeasuredRunsFit ==
    Spec => [](AsMeasured => \A a \in Apps : knobs[a].request <= Usable)
<1> DEFINE Inv == AsMeasured => ~aux_beyond
<1>1. Init => Inv
  BY DEF Init
<1>2. TypeOK /\ SizingInv /\ Inv /\ [Next]_vars => Inv'
  <2> SUFFICES ASSUME TypeOK, SizingInv, [Next]_vars, AsMeasured', Inv
               PROVE  ~aux_beyond'
    OBVIOUS
  <2>1. aim' = aim
    BY DEF Next, LoadTest, Sizing, KeepSettings, AdoptBundle, AdoptShed, vars
  <2>2. AsMeasured /\ ~aux_beyond
    BY <2>1 DEF AsMeasured
  <2>3. CASE LoadTest
    <3>1. ASSUME NEW a \in Apps PROVE ~(seen'[a].need > seen'[a].pods * Alloc)
      <4> DEFINE m == Measured(knobs[a], load[a])
      <4>1. m \in [cpu : Nat, pods : Nat, perPod : Nat] /\ m.cpu <= m.pods * Alloc
        BY MeasuredType DEF SizingInv, AllValid, TypeOK
      <4>2. seen'[a] = Sized(a, m)
        BY <2>3 DEF LoadTest
      <4> HIDE DEF m
      <4>3. seen'[a].pods = m.pods /\ seen'[a].need = Required(m.cpu, AppTarget(a, m.cpu, aim))
        BY <4>2 DEF Sized
      <4>4. seen'[a].need <= m.cpu /\ seen'[a].need \in Nat
        BY <2>2, <4>1, <4>3, AsMeasuredNeed, NeedType DEF TypeOK
      <4>5. m.pods * Alloc \in Nat
        BY <4>1, NodeAssumption
      <4> QED
        BY <4>1, <4>3, <4>4, <4>5
    <3> QED
      BY <2>2, <2>3, <3>1 DEF LoadTest
  <2>4. CASE UNCHANGED aux_beyond
    BY <2>2, <2>4
  <2> QED
    BY <2>3, <2>4 DEF Next, Sizing, KeepSettings, AdoptBundle, AdoptShed, vars
<1>3. SizingInv /\ Inv => (AsMeasured => \A a \in Apps : knobs[a].request <= Usable)
  BY DEF SizingInv, Schedulable
<1> QED
  BY <1>1, <1>2, <1>3, SizingStays, PTL DEF Spec

\* 3과제/README.md:186-187: no step lowers a request below half of what a pod
\* needs at the load that the run sizes for, whatever that load is.
THEOREM NobodyStarved == Spec => NeverStarved
<1>1. SizingInv /\ [Next]_vars =>
        [\A a \in Apps :
           knobs'[a].request < Smaller(knobs[a].request, SearchTop)
              => 2 * knobs'[a].request * seen[a].pods >= Demand(seen[a])]_vars
  BY StepFollows DEF AllFollow, Follows
<1> QED
  BY <1>1, SizingStays, PTL DEF Spec, NeverStarved

----------------------------------------------------------------------------
\* The idle nodes.

\* The first pod gets a node.
LEMMA PlacedFirst ==
    ASSUME NEW r
    PROVE  Placed(<<>>, r) = <<r>>
  <1>1. SelectInSeq(<<>>, LAMBDA used : used + r <= Usable) = 0
    BY DEF SelectInSeq
  <1> QED
    BY <1>1 DEF Placed

\* A pod that fits beside the others does not get another one.
LEMMA PlacedBeside ==
    ASSUME NEW w \in Int, NEW r \in Int, w + r <= Usable
    PROVE  Placed(<<w>>, r) = <<w + r>>
  <1>1. {i \in 1..Len(<<w>>) : <<w>>[i] + r <= Usable} = {1}
    OBVIOUS
  <1>2. Min({1}) = 1
    BY DEF Min
  <1> DEFINE first == SelectInSeq(<<w>>, LAMBDA used : used + r <= Usable)
  <1>3. first = 1
    BY <1>1, <1>2 DEF SelectInSeq
  <1>4. Placed(<<w>>, r) = IF first = 0 THEN Append(<<w>>, r)
                           ELSE [<<w>> EXCEPT ![first] = @ + r]
    BY DEF Placed
  <1> HIDE DEF first
  <1>5. [<<w>> EXCEPT ![1] = @ + r] = <<w + r>>
    OBVIOUS
  <1> QED
    BY <1>3, <1>4, <1>5

\* Nodes stay a sequence of what they hold.
LEMMA PlacedType ==
    ASSUME NEW nodes \in Seq(Int), NEW r \in Int
    PROVE  Placed(nodes, r) \in Seq(Int)
  <1> DEFINE first == SelectInSeq(nodes, LAMBDA used : used + r <= Usable)
  <1>1. Placed(nodes, r) = IF first = 0 THEN Append(nodes, r)
                           ELSE [nodes EXCEPT ![first] = @ + r]
    BY DEF Placed
  <1> HIDE DEF first
  <1>2. [nodes EXCEPT ![first] = @ + r] \in Seq(Int)
    <2>1. nodes \in [1..Len(nodes) -> Int] /\ Len(nodes) \in Nat
      BY LenProperties
    <2> DEFINE n == Len(nodes)
    <2> HIDE DEF n
    <2>2. [nodes EXCEPT ![first] = @ + r] \in [1..Len(nodes) -> Int]
      <3>1. \A i \in 1..n : [nodes EXCEPT ![first] = @ + r][i] \in Int
        BY <2>1 DEF n
      <3>2. [nodes EXCEPT ![first] = @ + r]
              = [i \in 1..n |-> [nodes EXCEPT ![first] = @ + r][i]]
        BY <2>1 DEF n
      <3> QED
        BY <3>1, <3>2 DEF n
    <2> QED
      BY <2>1, <2>2, SeqDef
  <1> QED
    BY <1>1, <1>2

\* The pod that the fold takes out of a set: one with the smallest request.
Least(s, ks) == CHOOSE p \in s : \A q \in s : ks[p[1]].request <= ks[q[1]].request

\* There is such a pod in every set but the empty one.
LEMMA LeastExists ==
    ASSUME NEW ks, NEW s, s # {}, \A p \in s : ks[p[1]].request \in Nat
    PROVE  Least(s, ks) \in s
  <1> DEFINE T == {ks[p[1]].request : p \in s}
  <1>1. T \in SUBSET Nat /\ T # {}
    OBVIOUS
  <1>2. PICK n \in T : \A m \in T : n <= m
    <2> HIDE DEF T
    <2> QED
      BY <1>1, LeastNatural
  <1>3. PICK p \in s : n = ks[p[1]].request
    BY <1>2
  <1>4. \A q \in s : ks[p[1]].request <= ks[q[1]].request
    BY <1>2, <1>3
  <1> QED
    BY <1>3, <1>4, Zenon DEF Least

\* The nodes for each subset of some pods.
Placing(pods, ks) ==
    CHOOSE g : g = [s \in SUBSET pods |->
                      IF s = {} THEN <<>>
                      ELSE Placed(g[s \ {Least(s, ks)}], ks[Least(s, ks)[1]].request)]

\* The number of nodes is what placing all of the pods takes.
LEMMA NodesForIsPlacing ==
    ASSUME NEW pods, NEW ks
    PROVE  NodesFor(pods, ks) = Len(Placing(pods, ks)[pods])
  BY DEF NodesFor, MapThenFoldSet, Placing, Least

\* The pods of a set are placed one after the other.
LEMMA PlacingEquation ==
    ASSUME NEW pods, IsFiniteSet(pods), NEW ks, \A p \in pods : ks[p[1]].request \in Nat
    PROVE  \A s \in SUBSET pods :
             Placing(pods, ks)[s] =
               IF s = {} THEN <<>>
               ELSE Placed(Placing(pods, ks)[s \ {Least(s, ks)}], ks[Least(s, ks)[1]].request)
  <1> DEFINE pick == [s \in SUBSET pods |-> Least(s, ks)]
             step == [p \in pods |-> [v \in Seq(Int) |-> Placed(v, ks[p[1]].request)]]
  <1>1. \A s \in SUBSET pods : s # {} => Least(s, ks) \in s
    BY LeastExists
  <1>2. \A s \in SUBSET pods : s # {} => pick[s] \in s
    BY <1>1
  <1>3. step \in [pods -> [Seq(Int) -> Seq(Int)]]
    <2>1. \A p \in pods : ks[p[1]].request \in Int
      OBVIOUS
    <2>2. \A p \in pods : \A v \in Seq(Int) : Placed(v, ks[p[1]].request) \in Seq(Int)
      BY <2>1, PlacedType
    <2> QED
      BY <2>2
  <1>4. PICK g : IsFold(g, pods, Seq(Int), <<>>, pick, step)
    <2> HIDE DEF pick, step
    <2>1. <<>> \in Seq(Int)
      OBVIOUS
    <2> QED
      BY <1>2, <1>3, <2>1, FoldDefined
  <1>5. ASSUME NEW s \in SUBSET pods
        PROVE  g[s] = IF s = {} THEN <<>>
                      ELSE Placed(g[s \ {Least(s, ks)}], ks[Least(s, ks)[1]].request)
    <2>1. CASE s = {}
      BY <1>4, <2>1 DEF IsFold
    <2>2. CASE s # {}
      <3>1. pick[s] = Least(s, ks) /\ Least(s, ks) \in pods /\ s \ {pick[s]} \in SUBSET pods
        BY <1>1, <2>2
      <3>2. g[s] = step[pick[s]][g[s \ {pick[s]}]] /\ g[s \ {pick[s]}] \in Seq(Int)
        <4> HIDE DEF pick, step
        <4> QED
          BY <1>4, <2>2, <3>1 DEF IsFold
      <3> HIDE DEF pick
      <3> QED
        BY <2>2, <3>1, <3>2
    <2> QED
      BY <2>1, <2>2
  <1>6. g = [s \in SUBSET pods |->
               IF s = {} THEN <<>>
               ELSE Placed(g[s \ {Least(s, ks)}], ks[Least(s, ks)[1]].request)]
    BY <1>4, <1>5 DEF IsFold
  <1>7. Placing(pods, ks) =
          [s \in SUBSET pods |->
             IF s = {} THEN <<>>
             ELSE Placed(Placing(pods, ks)[s \ {Least(s, ks)}], ks[Least(s, ks)[1]].request)]
    BY <1>6, Zenon DEF Placing
  <1> DEFINE p == Placing(pods, ks)
  <1>8. p = [s \in SUBSET pods |->
             IF s = {} THEN <<>>
             ELSE Placed(p[s \ {Least(s, ks)}], ks[Least(s, ks)[1]].request)]
    BY <1>7
  <1> HIDE DEF p
  <1>9. \A s \in SUBSET pods :
          p[s] = IF s = {} THEN <<>>
                 ELSE Placed(p[s \ {Least(s, ks)}], ks[Least(s, ks)[1]].request)
    BY <1>8
  <1> QED
    BY <1>9 DEF p

\* Settings with at most one idle pod a zone, which fit one node together.
LooseFit(ks) ==
    /\ AllValid(ks)
    /\ \A a \in Apps : ks[a].min <= Zones
    /\ SumFunction([a \in Apps |-> ks[a].request]) <= Usable

\* What the pods s of zone z ask for.
Asked(s, z, ks) ==
    SumFunction([a \in Apps |-> IF <<a, z>> \in s THEN ks[a].request ELSE 0])

\* No pods ask for nothing.
LEMMA AskedEmpty ==
    ASSUME NEW ks, AllValid(ks), NEW z
    PROVE  Asked({}, z, ks) = 0
  <1> DEFINE R == [a \in Apps |-> ks[a].request]
             W == [a \in Apps |-> IF <<a, z>> \in {} THEN ks[a].request ELSE 0]
  <1>1. R \in [Apps -> Int] /\ W \in [Apps -> Int] /\ \A a \in Apps : W[a] = 0 * R[a]
    BY DEF AllValid, Knob
  <1> HIDE DEF R, W
  <1>2. SumFunction(W) = 0 * SumFunction(R)
    BY <1>1, AppsAssumption, SumScaled
  <1>3. SumFunction(R) \in Int
    BY <1>1, AppsAssumption, SumType
  <1> QED
    BY <1>2, <1>3 DEF Asked, W

\* One pod more asks for its request more, and all never for more than the sum.
LEMMA AskedMore ==
    ASSUME NEW ks, AllValid(ks), NEW z, NEW a \in Apps, NEW s, <<a, z>> \in s
    PROVE  /\ Asked(s \ {<<a, z>>}, z, ks) \in Int
           /\ Asked(s, z, ks) = Asked(s \ {<<a, z>>}, z, ks) + ks[a].request
           /\ Asked(s, z, ks) <= SumFunction([x \in Apps |-> ks[x].request])
  <1> DEFINE R == [x \in Apps |-> ks[x].request]
             W == [x \in Apps |-> IF <<x, z>> \in s THEN ks[x].request ELSE 0]
             U == [x \in Apps |-> IF <<x, z>> \in s \ {<<a, z>>} THEN ks[x].request ELSE 0]
             D == [x \in Apps |-> IF x = a THEN ks[a].request ELSE 0]
  <1>1. \A x \in Apps : ks[x].request \in Nat
    BY DEF AllValid, Knob
  <1>2. /\ R \in [Apps -> Int] /\ W \in [Apps -> Int]
        /\ U \in [Apps -> Int] /\ D \in [Apps -> Int]
    BY <1>1
  <1>3. \A x \in Apps : W[x] <= R[x]
    BY <1>1
  <1>4. \A x \in Apps : W[x] = 1 * U[x] + 1 * D[x]
    <2>1. \A x \in Apps : <<x, z>> \in s \ {<<a, z>>} <=> <<x, z>> \in s /\ x # a
      OBVIOUS
    <2> QED
      BY <1>1, <2>1
  <1>5. \A x \in Apps : D[x] = IF x = a THEN ks[a].request ELSE 0
    OBVIOUS
  <1>6. Asked(s, z, ks) = SumFunction(W) /\ Asked(s \ {<<a, z>>}, z, ks) = SumFunction(U)
    BY DEF Asked
  <1> HIDE DEF R, W, U, D
  <1>7. SumFunction(W) <= SumFunction(R)
    BY <1>2, <1>3, AppsAssumption, SumMonotone
  <1>8. 1 \in Int /\ ks[a].request \in Int
    BY <1>1
  <1>9. SumFunction(W) = 1 * SumFunction(U) + 1 * SumFunction(D)
    BY <1>2, <1>4, <1>8, AppsAssumption, SumLinear
  <1>10. SumFunction(D) = ks[a].request
    <2> DEFINE v == ks[a].request
    <2>1. v \in Int /\ \A x \in Apps : D[x] = IF x = a THEN v ELSE 0
      BY <1>5, <1>8
    <2> HIDE DEF v
    <2>2. SumFunction(D) = v
      BY <1>2, <2>1, AppsAssumption, SumSingle
    <2> QED
      BY <2>2 DEF v
  <1>11. SumFunction(U) \in Int
    BY <1>2, AppsAssumption, SumType
  <1> QED
    BY <1>6, <1>7, <1>8, <1>9, <1>10, <1>11 DEF R

\* First fit puts the pods of a zone on one node.
LEMMA OneNode ==
    ASSUME NEW ks, LooseFit(ks), NEW z \in 0..(Zones - 1)
    PROVE  NodesFor(ZonePods(ks, z), ks) \in 0..1
  <1> DEFINE pods == ZonePods(ks, z)
             P == Placing(pods, ks)
             Holds(s) == P[s] = IF s = {} THEN <<>> ELSE <<Asked(s, z, ks)>>
  <1>1. \A a \in Apps : ks[a].request \in Nat /\ ks[a].min \in Nat /\ ks[a].min <= Zones
    BY DEF LooseFit, AllValid, Knob
  <1>2. \A p \in pods : p[1] \in Apps /\ p = <<p[1], z>>
    <2>1. ASSUME NEW a \in Apps, NEW i \in 0..(ks[a].min - 1), i % Zones = z
          PROVE  i = z
      <3>1. i \in Nat /\ i < Zones /\ Zones \in Nat \ {0}
        BY <1>1, <2>1, NodesAssumption
      <3>2. i % Zones = i
        BY <3>1
      <3> QED
        BY <3>2, <2>1
    <2> QED
      BY <2>1 DEF ZonePods
  <1>3. IsFiniteSet(pods)
    <2>1. IsFiniteSet({z}) /\ IsFiniteSet(Apps \X {z})
      BY AppsAssumption, FS_Singleton, FS_Product
    <2>2. pods \in SUBSET (Apps \X {z})
      BY <1>2
    <2> QED
      BY <2>1, <2>2, FS_Subset
  <1>4. \A p \in pods : ks[p[1]].request \in Nat
    BY <1>1, <1>2
  <1> HIDE DEF pods
  <1>5. \A s \in SUBSET pods :
          P[s] = IF s = {} THEN <<>>
                 ELSE Placed(P[s \ {Least(s, ks)}], ks[Least(s, ks)[1]].request)
    BY <1>3, <1>4, PlacingEquation
  <1> HIDE DEF P
  <1>6. ASSUME NEW s \in SUBSET pods, s # {}, Holds(s \ {Least(s, ks)})
        PROVE  Holds(s)
    <2> DEFINE p == Least(s, ks)
               a == p[1]
               rest == s \ {p}
               r == ks[a].request
    <2>1. p \in s /\ p \in pods
      BY <1>4, <1>6, LeastExists
    <2>2. a \in Apps /\ p = <<a, z>>
      BY <1>2, <2>1
    <2>3. r \in Int
      BY <1>1, <2>2
    <2>4. P[s] = Placed(P[rest], r)
      BY <1>5, <1>6
    <2>5. P[rest] = IF rest = {} THEN <<>> ELSE <<Asked(rest, z, ks)>>
      BY <1>6
    <2> HIDE DEF p
    <2> DEFINE w == Asked(rest, z, ks)
               all == SumFunction([x \in Apps |-> ks[x].request])
    <2>6. w \in Int /\ Asked(s, z, ks) = w + r /\ Asked(s, z, ks) <= all
      <3>1. AllValid(ks) /\ <<a, z>> \in s /\ rest = s \ {<<a, z>>}
        BY <2>1, <2>2 DEF LooseFit
      <3> HIDE DEF rest, a
      <3> QED
        BY <2>2, <3>1, AskedMore
    <2>7. all \in Int /\ all <= Usable /\ Usable \in Int
      <3> DEFINE R == [x \in Apps |-> ks[x].request]
      <3>1. R \in [Apps -> Int]
        BY <1>1
      <3> HIDE DEF R
      <3>2. SumFunction(R) \in Int
        BY <3>1, AppsAssumption, SumType
      <3> QED
        BY <3>2, NodesAssumption DEF LooseFit, R
    <2> HIDE DEF w, all, r
    <2>8. CASE rest = {}
      <3>1. w = 0
        BY <2>8, AskedEmpty DEF w, LooseFit
      <3>2. P[s] = <<r>>
        BY <2>4, <2>5, <2>8, PlacedFirst
      <3> QED
        BY <1>6, <2>3, <2>6, <3>1, <3>2
    <2>9. CASE rest # {}
      <3>1. w + r <= Usable
        BY <2>3, <2>6, <2>7
      <3>2. Placed(<<w>>, r) = <<w + r>>
        BY <2>3, <2>6, <3>1, PlacedBeside
      <3>3. P[s] = <<w + r>>
        BY <2>4, <2>5, <2>9, <3>2 DEF w
      <3> QED
        BY <1>6, <2>6, <3>3
    <2> QED
      BY <2>8, <2>9
  <1>7. Holds({})
    BY <1>5
  <1>8. \A s \in SUBSET pods : Holds(s)
    <2> DEFINE T == {s \in SUBSET pods : ~Holds(s)}
    <2> HIDE DEF Holds
    <2>1. \A s \in T : \E x \in s : s \ {x} \in T
      <3> TAKE s \in T
      <3>1. s # {} /\ s \in SUBSET pods
        BY <1>7
      <3>2. Least(s, ks) \in s
        BY <1>4, <3>1, LeastExists
      <3>3. s \ {Least(s, ks)} \in T
        BY <1>6, <3>1
      <3> QED
        BY <3>2, <3>3
    <2>2. {} \notin T /\ T \in SUBSET (SUBSET pods)
      BY <1>7
    <2>3. T = {}
      <3> HIDE DEF T
      <3> QED
        BY <1>3, <2>1, <2>2, NoSmallestSubset
    <2> QED
      BY <2>3
  <1>9. Len(P[pods]) \in 0..1
    <2>1. P[pods] = <<>> \/ P[pods] = <<Asked(pods, z, ks)>>
      BY <1>8
    <2>2. Len(<<>>) = 0 /\ \A x : Len(<<x>>) = 1
      OBVIOUS
    <2>3. Len(P[pods]) = 0 \/ Len(P[pods]) = 1
      BY <2>1, <2>2, Zenon
    <2> QED
      BY <2>3
  <1> QED
    BY <1>9, NodesForIsPlacing DEF P, pods

\* So the smallest replicas take one node a zone at most.
LEMMA LooseFitIdles ==
    ASSUME NEW ks, LooseFit(ks)
    PROVE  IdleNodes(ks) <= Zones
  <1> DEFINE S == 0..(Zones - 1)
             N == [z \in S |-> NodesFor(ZonePods(ks, z), ks)]
  <1>1. IsFiniteSet(S) /\ Cardinality(S) = Zones
    <2>1. 0 \in Int /\ Zones - 1 \in Int /\ ~(0 > Zones - 1) /\ (Zones - 1) - 0 + 1 = Zones
      BY NodesAssumption
    <2> QED
      BY <2>1, FS_Interval
  <1>2. N \in [S -> Int] /\ \A z \in S : N[z] <= 1
    BY OneNode
  <1>3. IdleNodes(ks) = SumFunction(N)
    BY DEF IdleNodes
  <1> HIDE DEF S, N
  <1> QED
    BY <1>1, <1>2, <1>3, SumOfOnes

\* tuning_engine.py:1072-1074: after an idle fit the baseline nodes suffice, for
\* any number of applications and zones, under the premises of IdleFitFits.
THEOREM IdleFitHolds == Spec => []IdleFitFits
<1>1. TypeOK /\ SizingInv => IdleFitFits
  <2> SUFFICES ASSUME TypeOK, SizingInv,
                      pc = "again", aux_sizing = "idle", BaselineNodes = Zones,
                      \A a \in Apps : knobs[a].min <= Zones
               PROVE  IdleNodes(knobs) <= BaselineNodes
    BY DEF IdleFitFits
  <2>1. ZoneBudget = Usable
    <3>1. BaselineNodes \div Zones = 1
      BY NodesAssumption
    <3> QED
      BY <3>1, NodesAssumption DEF ZoneBudget, Larger
  <2>2. LooseFit(knobs)
    BY <2>1 DEF LooseFit, SizingInv
  <2> QED
    BY <2>2, LooseFitIdles
<1> QED
  BY <1>1, SizingStays, PTL

----------------------------------------------------------------------------
\* The budget.

\* The part of ClockTypeOK that arithmetic needs.
ClockOK == elapsed \in Nat /\ estimate \in Nat /\ aux_allowed \in Nat

\* The rest of it but stage.
FlagsOK == aux_slow \in BOOLEAN /\ aux_threw \in BOOLEAN

\* A step only adds to the clock.
LEMMA ClockStep ==
    ASSUME ClockOK, [ClockNext]_clockVars
    PROVE  ClockOK'
  <1> USE TimesAssumption DEF ClockOK, Applies, Timed, Measurement
  <1>1. CASE WarmUp \/ Baseline \/ PresizeMeasure \/ CandidateMeasure \/ CandidateInterrupted
    BY <1>1 DEF WarmUp, Baseline, PresizeMeasure, CandidateMeasure, CandidateInterrupted
  <1>2. CASE PresizeAdmit \/ CandidateAdmit \/ Interrupted
    BY <1>2 DEF PresizeAdmit, CandidateAdmit, Interrupted
  <1>3. CASE PresizeApply \/ CandidateApply
    BY <1>3 DEF PresizeApply, CandidateApply
  <1>4. CASE PresizeThrows \/ CandidateThrows \/ UndoApply \/ FinallyApply
    BY <1>4 DEF PresizeThrows, CandidateThrows, UndoApply, FinallyApply
  <1>5. CASE UNCHANGED clockVars
    BY <1>5 DEF clockVars
  <1> QED
    BY <1>1, <1>2, <1>3, <1>4, <1>5 DEF ClockNext, Terminated

\* The clock only takes natural numbers.
THEOREM ClockTypes == ClockSpec => []ClockTypeOK
<1>1. ClockInit => ClockTypeOK
  <2> SUFFICES ASSUME ClockInit PROVE ClockTypeOK
    OBVIOUS
  <2>1. ClockOK
    BY TimesAssumption DEF ClockInit, ClockOK
  <2>2. stage \in Pcs /\ FlagsOK
    BY DEF ClockInit, Pcs, FlagsOK
  <2> QED
    BY <2>1, <2>2 DEF ClockTypeOK, ClockOK, FlagsOK
<1>2. ClockTypeOK /\ [ClockNext]_clockVars => ClockTypeOK'
  <2> SUFFICES ASSUME ClockTypeOK, [ClockNext]_clockVars PROVE ClockTypeOK'
    OBVIOUS
  <2>1. ClockOK'
    BY ClockStep DEF ClockTypeOK, ClockOK
  <2>2. stage' \in Pcs
    BY DEF ClockTypeOK, ClockNext, clockVars, Pcs, WarmUp, Baseline, PresizeAdmit, PresizeApply,
           PresizeMeasure, PresizeThrows, CandidateAdmit, CandidateApply,
           CandidateMeasure, CandidateThrows, CandidateInterrupted, Interrupted,
           UndoApply, FinallyApply, Terminated
  <2>3. FlagsOK'
    BY DEF ClockTypeOK, FlagsOK, ClockNext, clockVars, Applies, WarmUp, Baseline, PresizeAdmit,
           PresizeApply, PresizeMeasure, PresizeThrows, CandidateAdmit,
           CandidateApply, CandidateMeasure, CandidateThrows,
           CandidateInterrupted, Interrupted, UndoApply, FinallyApply, Terminated
  <2> QED
    BY <2>1, <2>2, <2>3 DEF ClockTypeOK, ClockOK, FlagsOK
<1> QED
  BY <1>1, <1>2, PTL DEF ClockSpec

\* An apply that was not slow took no longer than its stage allowed.
LEMMA QuickApply ==
    ASSUME NEW d \in 0..MaxApply, ClockOK, Applies(d), ~aux_slow'
    PROVE  ~aux_slow /\ d <= aux_allowed /\ elapsed' = elapsed + d
  <1>1. ~aux_slow /\ ~(d > aux_allowed)
    BY Zenon DEF Applies
  <1>2. elapsed' = elapsed + d
    BY DEF Applies
  <1> QED
    BY <1>1, <1>2, TimesAssumption DEF ClockOK

\* Every stage spends no more than it was admitted with.
LEMMA FundedStep ==
    ASSUME ClockOK, Funded, [ClockNext]_clockVars
    PROVE  Funded'
  <1> SUFFICES ASSUME ~aux_slow' PROVE Funded'
    BY DEF Funded
  <1> USE TimesAssumption DEF ClockOK, Funded, Left, Measurement
  <1>1. CASE WarmUp \/ Baseline
    BY <1>1 DEF WarmUp, Baseline
  <1>2. CASE PresizeAdmit
    BY <1>2 DEF PresizeAdmit, TestTimeFor, PresizeNeed
  <1>3. CASE PresizeApply \/ PresizeThrows
    <2>1. PICK d \in 0..MaxApply : Applies(d)
      BY <1>3 DEF PresizeApply, PresizeThrows
    <2>2. ~aux_slow /\ d <= aux_allowed /\ elapsed' = elapsed + d
      BY <2>1, QuickApply
    <2> QED
      BY <1>3, <2>2 DEF PresizeApply, PresizeThrows, PresizeNeed
  <1>4. CASE PresizeMeasure
    BY <1>4 DEF PresizeMeasure
  <1>5. CASE CandidateAdmit
    BY <1>5 DEF CandidateAdmit, TestTimeFor, CandidateNeed
  <1>6. CASE CandidateApply \/ CandidateThrows
    <2>1. PICK d \in 0..MaxApply : Applies(d)
      BY <1>6 DEF CandidateApply, CandidateThrows
    <2>2. ~aux_slow /\ d <= aux_allowed /\ elapsed' = elapsed + d
      BY <2>1, QuickApply
    <2> QED
      BY <1>6, <2>2 DEF CandidateApply, CandidateThrows, CandidateNeed
  <1>7. CASE CandidateMeasure \/ CandidateInterrupted
    BY <1>7 DEF CandidateMeasure, CandidateInterrupted
  <1>8. CASE Interrupted
    BY <1>8 DEF Interrupted
  <1>9. CASE UndoApply \/ FinallyApply
    <2>1. PICK d \in 0..MaxApply : Applies(d)
      BY <1>9 DEF UndoApply, FinallyApply
    <2>2. ~aux_slow /\ d <= aux_allowed /\ elapsed' = elapsed + d
      BY <2>1, QuickApply
    <2> QED
      BY <1>9, <2>2 DEF UndoApply, FinallyApply
  <1>10. CASE UNCHANGED clockVars
    BY <1>10 DEF clockVars, PresizeNeed, CandidateNeed
  <1> QED
    BY <1>1, <1>2, <1>3, <1>4, <1>5, <1>6, <1>7, <1>8, <1>9, <1>10 DEF ClockNext, Terminated

\* What is left to spend always fits, for any times whatever.
THEOREM StagesFunded == ClockSpec => []Funded
<1>1. ClockInit => Funded
  BY TimesAssumption, RoomAssumption DEF ClockInit, Funded, Left
<1>2. ClockTypeOK /\ Funded /\ [ClockNext]_clockVars => Funded'
  BY FundedStep DEF ClockTypeOK, ClockOK
<1> QED
  BY <1>1, <1>2, ClockTypes, PTL DEF ClockSpec

\* What a funded run keeps to.
LEMMA FundedKeeps == ClockTypeOK /\ Funded => EndsInBudget /\ RollbackFits /\ OverrunBounded
<1>1. ClockOK /\ Funded => EndsInBudget /\ RollbackFits /\ OverrunBounded
  <2> SUFFICES ASSUME ClockOK, Funded, ~aux_slow
               PROVE  EndsInBudget /\ RollbackFits /\ OverrunBounded
    BY DEF EndsInBudget, RollbackFits, OverrunBounded
  <2>1. Left \in Nat
    BY TimesAssumption DEF Left, ClockOK, PresizeNeed, CandidateNeed
  <2>2. CASE stage = "done" /\ aux_threw
    BY <2>2, TimesAssumption
       DEF ClockOK, Funded, EndsInBudget, RollbackFits, OverrunBounded
  <2>3. CASE ~(stage = "done" /\ aux_threw)
    <3>1. elapsed + Left <= Budget
      BY <2>3 DEF Funded
    <3>2. EndsInBudget /\ OverrunBounded
      BY <2>1, <3>1, TimesAssumption DEF ClockOK, EndsInBudget, OverrunBounded
    <3>3. RollbackFits
      BY <3>1 DEF RollbackFits, Left
    <3> QED
      BY <3>2, <3>3
  <2> QED
    BY <2>2, <2>3
<1>2. ClockTypeOK => ClockOK
  BY DEF ClockTypeOK, ClockOK
<1> QED
  BY <1>1, <1>2

\* optimize.ps1:8: a run whose applies are no slower than foreseen and whose
\* rollback works ends within its budget.
THEOREM BudgetKept == ClockSpec => []EndsInBudget
BY FundedKeeps, ClockTypes, StagesFunded, PTL

\* optimize.ps1:279-280: there is time for the rollback whenever one begins.
THEOREM RollbackKept == ClockSpec => []RollbackFits
BY FundedKeeps, ClockTypes, StagesFunded, PTL

\* A rollback that fails costs one estimated apply beyond the budget at most.
THEOREM OverrunKept == ClockSpec => []OverrunBounded
BY FundedKeeps, ClockTypes, StagesFunded, PTL

=============================================================================
