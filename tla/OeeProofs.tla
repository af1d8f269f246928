----------------------------- MODULE OeeProofs ------------------------------
(***************************************************************************)
(* Theorems about Oee, for all sheets, shifts, days and people.  First     *)
(* what the calculations do: a list of intervals stands for a set of       *)
(* minutes, and merging, cutting, clipping and moving do to the set what   *)
(* they should; what is added up is the number of minutes.  Then the       *)
(* invariant of the transactions.                                          *)
(***************************************************************************)
EXTENDS Oee, FiniteSetTheorems, NaturalsInduction, TLAPS

-----------------------------------------------------------------------------
(* What goes on step by step, from 0 up to some number.  The library's     *)
(* induction takes a predicate as a parameter; here it is a set.           *)

\* Among some subsets of a finite set one has none of the others within it.
LEMMA LeastSubset ==
  ASSUME NEW S, IsFiniteSet(S), NEW Bad \in SUBSET SUBSET S, Bad # {}
  PROVE  \E T \in Bad : \A U \in Bad : U \subseteq T => U = T
<1>1. IsWellFoundedOn(StrictSubsetOrdering(S), FiniteSubsetsOf(S))
  BY FS_StrictSubsetOrderingWellFounded
<1>2. Bad \subseteq FiniteSubsetsOf(S)
  BY FS_FiniteSubsetsOfFinite
<1>3. PICK T \in Bad : \A U \in Bad : <<U, T>> \notin StrictSubsetOrdering(S)
  BY <1>1, <1>2, WFMin
<1>4. QED BY <1>3 DEF StrictSubsetOrdering

\* A set of numbers has a least one.
LEMMA LeastNumber ==
  ASSUME NEW S \in SUBSET Nat, S # {}
  PROVE  \E x \in S : \A y \in S : x <= y
<1> DEFINE Less == {p \in Nat \X Nat : p[1] < p[2]}
<1>1. IsWellFoundedOn(Less, Nat)
  BY NatLessThanWellFounded DEF OpToRel
<1> HIDE DEF Less
<1>2. PICK x \in S : \A y \in S : <<y, x>> \notin Less
  BY <1>1, WFMin
<1>3. ASSUME NEW y \in S PROVE x <= y
  <2>1. x \in Nat /\ y \in Nat
    OBVIOUS
  <2>2. ~(y < x)
    BY <1>2, <2>1 DEF Less
  <2>3. QED BY <2>1, <2>2
<1>4. QED BY <1>3

\* What holds at 0, and goes on from each number to the next, holds up to n.
LEMMA StepByStep ==
  ASSUME NEW n \in Nat, NEW Good, 0 \in Good,
         \A k \in 1..n : k - 1 \in Good => k \in Good
  PROVE  \A k \in 0..n : k \in Good
<1> DEFINE Bad == {k \in 0..n : k \notin Good}
<1> SUFFICES ASSUME Bad # {} PROVE FALSE
  OBVIOUS
<1>1. Bad \in SUBSET Nat
  OBVIOUS
<1>2. PICK k \in Bad : \A j \in Bad : k <= j
  <2> HIDE DEF Bad
  <2>1. QED BY <1>1, LeastNumber
<1>3. k \in 1..n /\ k - 1 \in 0..n /\ ~(k <= k - 1)
  OBVIOUS
<1>4. k - 1 \in Good
  BY <1>2, <1>3
<1>5. QED BY <1>3, <1>4

\* A function that is told from its value before.
Follows(f, n, g) == \A k \in 1..n : f[k] = g[<<k, f[k - 1]>>]

LEMMA Iteration ==
  ASSUME NEW n \in Nat, NEW S, NEW a \in S, NEW g \in [(1..n) \X S -> S]
  PROVE  \E f \in [0..n -> S] : f[0] = a /\ Follows(f, n, g)
<1> DEFINE Fits(m, f) == f[0] = a /\ \A k \in 1..m : f[k] = g[<<k, f[k - 1]>>]
           Good == {m \in 0..n : \E f \in [0..m -> S] : Fits(m, f)}
<1>1. 0 \in Good
  <2>1. [k \in 0..0 |-> a] \in [0..0 -> S] /\ Fits(0, [k \in 0..0 |-> a])
    OBVIOUS
  <2> HIDE DEF Fits
  <2>2. QED BY <2>1, 0 \in 0..n
<1>2. ASSUME NEW m \in 1..n, m - 1 \in Good PROVE m \in Good
  <2>1. PICK f \in [0..(m - 1) -> S] : Fits(m - 1, f)
    BY <1>2
  <2> DEFINE h == [k \in 0..m |-> IF k = m THEN g[<<m, f[m - 1]>>] ELSE f[k]]
  <2>2. f[m - 1] \in S
    OBVIOUS
  <2>3. h \in [0..m -> S]
    BY <2>2
  <2>4. h[0] = a /\ h[m] = g[<<m, h[m - 1]>>]
    <3>1. m - 1 \in 0..m /\ m - 1 # m /\ m \in 0..m /\ 0 \in 0..m /\ 0 # m
      OBVIOUS
    <3>2. h[m - 1] = f[m - 1] /\ h[0] = f[0] /\ h[m] = g[<<m, f[m - 1]>>]
      BY <3>1
    <3> HIDE DEF h
    <3>3. QED BY <2>1, <3>2
  <2>5. ASSUME NEW k \in 1..(m - 1) PROVE h[k] = g[<<k, h[k - 1]>>]
    <3>1. h[k] = f[k] /\ h[k - 1] = f[k - 1]
      OBVIOUS
    <3> HIDE DEF h
    <3>2. QED BY <2>1, <3>1
  <2> HIDE DEF h
  <2>6. Fits(m, h)
    BY <2>4, <2>5
  <2>7. QED BY <2>3, <2>6
<1> HIDE DEF Good
<1>3. n \in Good
  BY <1>1, <1>2, StepByStep
<1>4. QED BY <1>3 DEF Good, Follows
-----------------------------------------------------------------------------
(* Folds over a sequence, from the left.  The library's fold goes down     *)
(* from a set of positions to the set without its last.                    *)

LEMMA LastPosition ==
  ASSUME NEW n \in Nat, NEW S \in SUBSET (1..n), S # {}
  PROVE  Max(S) \in S /\ \A y \in S : y <= Max(S)
<1> DEFINE Turned == {n - x : x \in S}
<1>0. \A x \in S : x \in Int /\ n - x \in Nat
  OBVIOUS
<1>1. Turned \in SUBSET Nat /\ Turned # {}
  BY <1>0
<1>2. PICK t \in Turned : \A u \in Turned : t <= u
  <2> HIDE DEF Turned
  <2>1. QED BY <1>1, LeastNumber
<1>3. PICK x \in S : t = n - x
  OBVIOUS
<1>4. \A y \in S : x >= y
  <2>1. ASSUME NEW y \in S PROVE x >= y
    <3>1. n - x <= n - y /\ x \in Int /\ y \in Int
      <4>1. n - y \in Turned
        OBVIOUS
      <4> HIDE DEF Turned
      <4>2. QED BY <1>0, <1>2, <1>3, <4>1
    <3>2. QED BY <3>1
  <2>2. QED BY <2>1
<1>5. Max(S) = CHOOSE z \in S : \A y \in S : z >= y
  BY DEF Max
<1>6. Max(S) \in S /\ \A y \in S : Max(S) >= y
  BY <1>4, <1>5
<1>7. QED BY <1>6

LEMMA LastOfFirst ==
  ASSUME NEW k \in Nat, k # 0
  PROVE  Max(1..k) = k /\ (1..k) \ {k} = 1..(k - 1)
<1>1. Max(1..k) \in 1..k /\ \A y \in 1..k : y <= Max(1..k)
  <2>1. 1..k \in SUBSET (1..k) /\ 1..k # {}
    OBVIOUS
  <2>2. QED BY <2>1, LastPosition
<1>2. k \in 1..k
  OBVIOUS
<1>3. QED BY <1>1, <1>2

\* The equation of a fold over n positions.
NextFold(G, b, g, S) == IF S = {} THEN b ELSE G[<<g[S \ {Max(S)}], Max(S)>>]
Folded(G, b, n, g) == [S \in SUBSET (1..n) |-> NextFold(G, b, g, S)]
IsFold(G, b, n, g) == g = Folded(G, b, n, g)

\* It has a solution: what n rounds of it make of anything.
LEMMA FoldExists ==
  ASSUME NEW n \in Nat, NEW V, NEW b \in V, NEW G \in [V \X (1..n) -> V]
  PROVE  \E g \in [SUBSET (1..n) -> V] : IsFold(G, b, n, g)
<1> DEFINE W == [SUBSET (1..n) -> V]
           R == [p \in (1..n) \X W |-> Folded(G, b, n, p[2])]
           start == [S \in SUBSET (1..n) |-> b]
<1>1. \A g \in W : Folded(G, b, n, g) \in W
  <2>1. ASSUME NEW g \in W, NEW S \in SUBSET (1..n) PROVE NextFold(G, b, g, S) \in V
    <3>1. CASE S = {}
      BY <3>1 DEF NextFold
    <3>2. CASE S # {}
      <4>1. Max(S) \in 1..n /\ S \ {Max(S)} \in SUBSET (1..n)
        BY <3>2, LastPosition
      <4>2. <<g[S \ {Max(S)}], Max(S)>> \in V \X (1..n)
        BY <4>1
      <4>3. QED BY <3>2, <4>2 DEF NextFold
    <3>3. QED BY <3>1, <3>2
  <2>2. QED BY <2>1 DEF Folded
<1>2. start \in W /\ R \in [(1..n) \X W -> W]
  BY <1>1
<1>3. PICK f \in [0..n -> W] : f[0] = start /\ Follows(f, n, R)
  <2> HIDE DEF W, R, start
  <2>1. QED BY <1>2, Iteration
<1>4. \A k \in 1..n : f[k] = Folded(G, b, n, f[k - 1])
  <2>1. \A k \in 1..n : f[k - 1] \in W
    <3> HIDE DEF W
    <3>1. QED OBVIOUS
  <2> HIDE DEF W
  <2>2. QED BY <1>3, <2>1 DEF Follows
<1> DEFINE Done(k) == \A S \in SUBSET (1..k) : f[k][S] = NextFold(G, b, f[k], S)
           Good == {k \in 0..n : Done(k)}
<1>5. 0 \in Good
  <2>1. 1..0 = {} /\ f[0][{}] = b /\ 0 \in 0..n
    BY <1>3
  <2>2. Done(0)
    BY <2>1 DEF NextFold
  <2> HIDE DEF Done
  <2>3. QED BY <2>1, <2>2
<1>6. ASSUME NEW k \in 1..n, k - 1 \in Good PROVE k \in Good
  <2>1. ASSUME NEW S \in SUBSET (1..k) PROVE f[k][S] = NextFold(G, b, f[k], S)
    <3>1. S \in SUBSET (1..n) /\ 1..(k - 1) \subseteq 1..n
      OBVIOUS
    <3>2. \A T \in SUBSET (1..n) : f[k][T] = NextFold(G, b, f[k - 1], T)
      BY <1>4 DEF Folded
    <3>3. CASE S = {}
      BY <3>1, <3>2, <3>3 DEF NextFold
    <3>4. CASE S # {}
      <4> DEFINE T == S \ {Max(S)}
      <4>1. Max(S) \in 1..k /\ \A y \in S : y <= Max(S)
        <5>1. k \in Nat /\ S \in SUBSET (1..k)
          OBVIOUS
        <5>2. QED BY <3>4, <5>1, LastPosition
      <4>2. T \in SUBSET (1..(k - 1))
        <5>1. \A y \in T : y \in 1..k /\ y <= Max(S) /\ y # Max(S)
          BY <4>1
        <5>2. \A y \in T : y \in 1..(k - 1)
          BY <4>1, <5>1
        <5>3. QED BY <5>2
      <4>3. f[k - 1][T] = NextFold(G, b, f[k - 1], T)
        BY <1>6, <4>2
      <4>4. f[k][T] = f[k - 1][T]
        BY <3>1, <3>2, <4>2, <4>3
      <4>5. QED BY <3>1, <3>2, <3>4, <4>4 DEF NextFold
    <3>5. QED BY <3>3, <3>4
  <2>2. QED BY <2>1
<1>7. n \in Good
  <2>1. n \in 0..n
    OBVIOUS
  <2> HIDE DEF Good, Done, W, R, start
  <2>2. \A k \in 0..n : k \in Good
    BY <1>5, <1>6, StepByStep
  <2>3. QED BY <2>1, <2>2
<1>8. f[n] \in W
  <2>1. n \in 0..n
    OBVIOUS
  <2> HIDE DEF W
  <2>2. QED BY <2>1
<1>9. f[n] = Folded(G, b, n, f[n])
  <2>1. \A S \in SUBSET (1..n) : f[n][S] = NextFold(G, b, f[n], S)
    BY <1>7 DEF Good
  <2>2. f[n] = [S \in SUBSET (1..n) |-> f[n][S]]
    BY <1>8
  <2>3. QED BY <2>1, <2>2 DEF Folded
<1>10. QED BY <1>8, <1>9 DEF IsFold

\* The rounds of a fold: what it has come to after each position.
FoldsOn(G, V, n, c) ==
  \A S \in SUBSET (1..n) : S # {} /\ c[S \ {Max(S)}] \in V
                             => c[S] = G[<<c[S \ {Max(S)}], Max(S)>>]

FromTo(G, a, b, n, f) == /\ f[0] = a /\ f[n] = b
                         /\ \A k \in 1..n : f[k] = G[<<f[k - 1], k>>]

LEMMA Rounds ==
  ASSUME NEW n \in Nat, NEW V, NEW b \in V, NEW G \in [V \X (1..n) -> V],
         NEW c, c[{}] = b, FoldsOn(G, V, n, c)
  PROVE  \E f \in [0..n -> V] : FromTo(G, b, c[1..n], n, f)
<1> DEFINE f == [k \in 0..n |-> c[1..k]]
           Good == {k \in 0..n : f[k] \in V}
<1>1. f[0] = b /\ f[n] = c[1..n]
  <2>1. 0 \in 0..n /\ n \in 0..n /\ 1..0 = {}
    OBVIOUS
  <2>2. QED BY <2>1
<1>2. ASSUME NEW k \in 1..n, f[k - 1] \in V PROVE f[k] = G[<<f[k - 1], k>>]
  <2>1. k \in Nat /\ k # 0 /\ k \in 0..n /\ k - 1 \in 0..n /\ 1..k \in SUBSET (1..n)
        /\ 1..k # {}
    OBVIOUS
  <2>2. Max(1..k) = k /\ (1..k) \ {k} = 1..(k - 1)
    BY <2>1, LastOfFirst
  <2>3. f[k - 1] = c[1..(k - 1)] /\ f[k] = c[1..k]
    BY <2>1
  <2>4. QED BY <1>2, <2>1, <2>2, <2>3 DEF FoldsOn
<1>3. f = [k \in 0..n |-> f[k]]
  OBVIOUS
<1> HIDE DEF f
<1>4. \A k \in 0..n : k \in Good
  <2>1. 0 \in Good
    BY <1>1
  <2>2. ASSUME NEW k \in 1..n, k - 1 \in Good PROVE k \in Good
    <3>1. f[k - 1] \in V /\ k \in 0..n
      BY <2>2
    <3>2. f[k] = G[<<f[k - 1], k>>] /\ <<f[k - 1], k>> \in V \X (1..n)
      BY <1>2, <3>1
    <3>3. QED BY <3>1, <3>2
  <2> HIDE DEF Good
  <2>3. QED BY <2>1, <2>2, StepByStep
<1>5. f \in [0..n -> V] /\ \A k \in 1..n : k - 1 \in 0..n
  BY <1>3, <1>4
<1>6. QED BY <1>1, <1>2, <1>4, <1>5 DEF FromTo

-----------------------------------------------------------------------------
(* Sums of sequences.                                                      *)

LEMMA NumbersAdded ==
  ASSUME NEW s \in Seq(Int)
  PROVE  \E f \in [0..Len(s) -> Int] :
           /\ f[0] = 0 /\ f[Len(s)] = Total(s)
           /\ \A k \in 1..Len(s) : f[k] = f[k - 1] + s[k]
<1> DEFINE n == Len(s)
           G == [p \in Int \X (1..n) |-> p[1] + s[p[2]]]
           Round(g, S) == IF S = {} THEN 0 ELSE g[S \ {Max(S)}] + s[Max(S)]
           Fits(g) == g = [S \in SUBSET (1..n) |-> Round(g, S)]
           c == CHOOSE g : Fits(g)
<1>1. n \in Nat /\ DOMAIN s = 1..n /\ \A k \in 1..n : s[k] \in Int
  OBVIOUS
<1>2. Total(s) = c[1..n]
  BY <1>1 DEF Total, FoldLeft, MapThenFoldSet
<1> HIDE DEF n
<1>3. G \in [Int \X (1..n) -> Int] /\ 0 \in Int
  BY <1>1
<1>4. \A x \in Int, k \in 1..n : <<x, k>> \in Int \X (1..n) /\ G[<<x, k>>] = x + s[k]
  OBVIOUS
<1>5. \A S \in SUBSET (1..n) : S # {} => Max(S) \in 1..n
  BY <1>1, LastPosition
<1>6. PICK g \in [SUBSET (1..n) -> Int] : IsFold(G, 0, n, g)
  <2> HIDE DEF G
  <2>1. QED BY <1>1, <1>3, FoldExists
<1>7. Fits(g)
  <2>1. ASSUME NEW S \in SUBSET (1..n) PROVE NextFold(G, 0, g, S) = Round(g, S)
    BY <1>4, <1>5 DEF NextFold
  <2> HIDE DEF Round, G
  <2>2. QED BY <1>6, <2>1 DEF IsFold, Folded
<1>8. \A S \in SUBSET (1..n) : c[S] = Round(c, S)
  <2>1. Fits(c)
    <3> HIDE DEF Fits
    <3>1. QED BY <1>7
  <2> HIDE DEF Round, c
  <2>2. QED BY <2>1
<1>9. c[{}] = 0 /\ FoldsOn(G, Int, n, c)
  BY <1>4, <1>5, <1>8 DEF FoldsOn
<1>10. \E f \in [0..n -> Int] : FromTo(G, 0, c[1..n], n, f)
  <2> HIDE DEF G, c
  <2>1. QED BY <1>1, <1>3, <1>9, Rounds
<1>11. \E f \in [0..n -> Int] : /\ f[0] = 0 /\ f[n] = Total(s)
                                /\ \A k \in 1..n : f[k] = f[k - 1] + s[k]
  <2>1. PICK f \in [0..n -> Int] : FromTo(G, 0, c[1..n], n, f)
    BY <1>10
  <2>2. \A k \in 1..n : k - 1 \in 0..n
    BY <1>1
  <2>3. \A k \in 1..n : f[k] = f[k - 1] + s[k]
    <3> HIDE DEF G
    <3>1. QED BY <1>4, <2>1, <2>2 DEF FromTo
  <2>4. QED BY <1>2, <2>1, <2>3 DEF FromTo
<1>12. QED BY <1>11 DEF n

LEMMA TotalType ==
  ASSUME NEW s \in Seq(Int)
  PROVE  Total(s) \in Int
<1>1. PICK f \in [0..Len(s) -> Int] : f[Len(s)] = Total(s)
  BY NumbersAdded
<1>2. Len(s) \in 0..Len(s)
  OBVIOUS
<1>3. QED BY <1>1, <1>2

LEMMA TotalNat ==
  ASSUME NEW s \in Seq(Int), \A k \in 1..Len(s) : s[k] >= 0
  PROVE  Total(s) \in Nat
<1>1. PICK f \in [0..Len(s) -> Int] :
        /\ f[0] = 0 /\ f[Len(s)] = Total(s)
        /\ \A k \in 1..Len(s) : f[k] = f[k - 1] + s[k]
  BY NumbersAdded
<1> DEFINE n == Len(s)
           Good == {k \in 0..n : f[k] \in Nat}
<1>2. n \in Nat /\ \A k \in 1..n : s[k] \in Nat
  OBVIOUS
<1>3. f[0] = 0 /\ f[n] = Total(s) /\ \A k \in 1..n : f[k] = f[k - 1] + s[k]
  BY <1>1
<1> HIDE DEF n
<1>4. 0 \in Good
  BY <1>2, <1>3
<1>8. ASSUME NEW k \in 1..n, k - 1 \in Good PROVE k \in Good
  <2>1. k \in 0..n /\ f[k - 1] \in Nat /\ s[k] \in Nat
    BY <1>2, <1>8
  <2>2. f[k] \in Nat
    BY <1>3, <2>1
  <2>3. QED BY <2>1, <2>2
<1>5. \A k \in 0..n : k \in Good
  <2> HIDE DEF Good
  <2>1. QED BY <1>2, <1>4, <1>8, StepByStep
<1>6. n \in 0..n
  BY <1>2
<1>7. QED BY <1>3, <1>5, <1>6

\* What is added up one after the other are sets that have nothing in common:
\* the sum is the number of all their elements.
Counts(s, A) ==
  /\ \A k \in 1..Len(s) : IsFiniteSet(A[k]) /\ s[k] = Cardinality(A[k])
  /\ \A k, l \in 1..Len(s) : k # l => A[k] \cap A[l] = {}

LEMMA TotalOfCards ==
  ASSUME NEW s \in Seq(Int), NEW A, Counts(s, A)
  PROVE  /\ IsFiniteSet(UNION {A[k] : k \in 1..Len(s)})
         /\ Total(s) = Cardinality(UNION {A[k] : k \in 1..Len(s)})
<1>1. PICK f \in [0..Len(s) -> Int] :
        /\ f[0] = 0 /\ f[Len(s)] = Total(s)
        /\ \A k \in 1..Len(s) : f[k] = f[k - 1] + s[k]
  BY NumbersAdded
<1> DEFINE n == Len(s)
           U(m) == UNION {A[k] : k \in 1..m}
           Good == {m \in 0..n : IsFiniteSet(U(m)) /\ f[m] = Cardinality(U(m))}
<1>2. /\ n \in Nat
      /\ \A k \in 1..n : IsFiniteSet(A[k]) /\ s[k] = Cardinality(A[k])
      /\ \A k, l \in 1..n : k # l => A[k] \cap A[l] = {}
  BY DEF Counts
<1>3. f[0] = 0 /\ f[n] = Total(s) /\ \A k \in 1..n : f[k] = f[k - 1] + s[k]
  BY <1>1
<1> HIDE DEF n
<1>4. 0 \in Good
  <2>1. 1..0 = {} /\ U(0) = {} /\ 0 \in 0..n
    BY <1>2
  <2> HIDE DEF U
  <2>2. QED BY <1>3, <2>1, FS_EmptySet
<1>5. ASSUME NEW m \in 1..n, m - 1 \in Good PROVE m \in Good
  <2>1. 1..m = (1..(m - 1)) \cup {m} /\ m \in 0..n /\ \A k \in 1..(m - 1) : k \in 1..n /\ k # m
    BY <1>2
  <2>2. U(m) = U(m - 1) \cup A[m]
    BY <2>1
  <2>3. U(m - 1) \cap A[m] = {}
    BY <1>2, <2>1
  <2>4. IsFiniteSet(U(m - 1)) /\ f[m - 1] = Cardinality(U(m - 1)) /\ IsFiniteSet(A[m])
    BY <1>2, <1>5
  <2> HIDE DEF U
  <2>5. /\ IsFiniteSet(U(m))
        /\ Cardinality(U(m)) = Cardinality(U(m - 1)) + Cardinality(A[m]) - Cardinality({})
    BY <2>2, <2>3, <2>4, FS_Union
  <2>6. Cardinality({}) = 0 /\ Cardinality(U(m - 1)) \in Nat /\ Cardinality(A[m]) \in Nat
    BY <2>4, FS_EmptySet, FS_CardinalityType
  <2>7. f[m] = Cardinality(U(m))
    BY <1>2, <1>3, <2>4, <2>5, <2>6
  <2>8. QED BY <2>1, <2>5, <2>7
<1>6. \A m \in 0..n : m \in Good
  <2> HIDE DEF Good
  <2>1. QED BY <1>2, <1>4, <1>5, StepByStep
<1>7. n \in 0..n
  BY <1>2
<1>8. IsFiniteSet(U(n)) /\ Total(s) = Cardinality(U(n))
  BY <1>3, <1>6, <1>7
<1>9. QED BY <1>8 DEF n

-----------------------------------------------------------------------------
(* Sequences of sequences.                                                 *)

LEMMA RangeOf == \A s : Range(s) = {s[k] : k \in DOMAIN s}
  BY DEF Range

LEMMA Joined ==
  ASSUME NEW X, NEW s \in Seq(X), NEW t \in Seq(X)
  PROVE  s \o t \in Seq(X) /\ Range(s \o t) = Range(s) \cup Range(t)
<1>1. s \o t \in Seq(X) /\ Len(s \o t) = Len(s) + Len(t)
  OBVIOUS
<1>2. /\ DOMAIN s = 1..Len(s) /\ DOMAIN t = 1..Len(t)
      /\ DOMAIN (s \o t) = 1..(Len(s) + Len(t)) /\ Len(s) \in Nat /\ Len(t) \in Nat
  OBVIOUS
<1>3. /\ \A k \in 1..Len(s) : (s \o t)[k] = s[k]
      /\ \A k \in 1..Len(t) : (s \o t)[Len(s) + k] = t[k]
  OBVIOUS
<1>4. ASSUME NEW x \in Range(s \o t) PROVE x \in Range(s) \cup Range(t)
  <2>1. PICK k \in 1..(Len(s) + Len(t)) : x = (s \o t)[k]
    BY <1>2, RangeOf
  <2>2. CASE k <= Len(s)
    BY <1>2, <1>3, <2>1, <2>2, RangeOf
  <2>3. CASE k > Len(s)
    <3>1. k - Len(s) \in 1..Len(t) /\ k = Len(s) + (k - Len(s))
      BY <1>2, <2>3
    <3>2. x = t[k - Len(s)]
      BY <1>3, <2>1, <3>1
    <3>3. QED BY <1>2, <3>1, <3>2, RangeOf
  <2>4. QED BY <1>2, <2>2, <2>3
<1>5. ASSUME NEW x \in Range(s) \cup Range(t) PROVE x \in Range(s \o t)
  <2>1. CASE x \in Range(s)
    <3>1. PICK k \in 1..Len(s) : x = s[k]
      BY <1>2, <2>1, RangeOf
    <3>2. k \in 1..(Len(s) + Len(t)) /\ x = (s \o t)[k]
      BY <1>2, <1>3, <3>1
    <3>3. QED BY <1>2, <3>2, RangeOf
  <2>2. CASE x \in Range(t)
    <3>1. PICK k \in 1..Len(t) : x = t[k]
      BY <1>2, <2>2, RangeOf
    <3>2. Len(s) + k \in 1..(Len(s) + Len(t)) /\ x = (s \o t)[Len(s) + k]
      BY <1>2, <1>3, <3>1
    <3>3. QED BY <1>2, <3>2, RangeOf
  <2>3. QED BY <2>1, <2>2
<1>6. QED BY <1>1, <1>4, <1>5

LEMMA Flattened ==
  ASSUME NEW X, NEW ss \in Seq(Seq(X))
  PROVE  /\ FlattenSeq(ss) \in Seq(X)
         /\ Range(FlattenSeq(ss)) = UNION {Range(ss[k]) : k \in 1..Len(ss)}
<1> DEFINE n == Len(ss)
           Fits(h) == h = [k \in 1..n |-> IF k = 1 THEN ss[k] ELSE h[k - 1] \o ss[k]]
           c == CHOOSE h : Fits(h)
           g == [p \in (1..n) \X Seq(X) |-> p[2] \o ss[p[1]]]
<1>1. n \in Nat /\ DOMAIN ss = 1..n /\ \A k \in 1..n : ss[k] \in Seq(X)
  OBVIOUS
<1>2. CASE n = 0
  <2>1. ss = << >> /\ FlattenSeq(ss) = ss /\ 1..n = {}
    BY <1>2 DEF FlattenSeq
  <2>2. Range(ss) = {}
    BY <2>1, RangeOf
  <2>3. UNION {Range(ss[k]) : k \in 1..Len(ss)} = {} /\ << >> \in Seq(X)
    BY <2>1
  <2> HIDE DEF n
  <2>4. QED BY <2>1, <2>2, <2>3
<1>3. CASE n # 0
  <2>1. FlattenSeq(ss) = c[n]
    BY <1>3 DEF FlattenSeq
  <2>2. n \in Nat /\ n # 0 /\ 1 \in 1..n /\ n \in 1..n /\ \A k \in 1..n : k # 1 => k - 1 \in 1..n
    BY <1>1, <1>3
  <2> HIDE DEF n
  <2>3. g \in [(1..n) \X Seq(X) -> Seq(X)] /\ << >> \in Seq(X)
    BY <1>1
  <2>4. PICK f \in [0..n -> Seq(X)] : f[0] = << >> /\ Follows(f, n, g)
    <3> HIDE DEF g
    <3>1. QED BY <2>2, <2>3, Iteration
  <2>5. ASSUME NEW k \in 1..n PROVE f[k] = f[k - 1] \o ss[k]
    <3>1. f[k] = g[<<k, f[k - 1]>>]
      BY <2>4 DEF Follows
    <3>2. f[k - 1] \in Seq(X)
      BY <2>2
    <3>3. QED BY <3>1, <3>2
  <2>6. Fits([k \in 1..n |-> f[k]])
    <3> DEFINE h == [k \in 1..n |-> f[k]]
    <3>1. ASSUME NEW k \in 1..n
          PROVE  h[k] = IF k = 1 THEN ss[k] ELSE h[k - 1] \o ss[k]
      <4>1. CASE k = 1
        <5>1. h[1] = << >> \o ss[1]
          <6>1. h[1] = f[1]
            BY <2>2
          <6>2. f[1] = f[1 - 1] \o ss[1]
            BY <2>2, <2>5
          <6>3. f[1 - 1] = << >>
            BY <2>4
          <6> HIDE DEF h
          <6>4. QED BY <6>1, <6>2, <6>3
        <5>2. << >> \o ss[1] = ss[1]
          BY <1>1, <2>2
        <5>3. QED BY <4>1, <5>1, <5>2
      <4>2. CASE k # 1
        BY <2>2, <2>5, <4>2
      <4>3. QED BY <4>1, <4>2
    <3>2. h = [k \in 1..n |-> h[k]]
      OBVIOUS
    <3> HIDE DEF h
    <3>3. Fits(h)
      BY <3>1, <3>2
    <3>4. QED BY <3>3 DEF h
  <2>7. \A k \in 1..n : c[k] = IF k = 1 THEN ss[k] ELSE c[k - 1] \o ss[k]
    <3>1. Fits(c)
      <4> HIDE DEF Fits
      <4>1. QED BY <2>6
    <3> HIDE DEF c
    <3>2. QED BY <3>1
  <2> HIDE DEF c
  <2> DEFINE U(m) == UNION {Range(ss[k]) : k \in 1..m}
             Good == {m \in 0..n : m # 0 => c[m] \in Seq(X) /\ Range(c[m]) = U(m)}
  <2>8. 0 \in Good
    BY <2>2
  <2>9. ASSUME NEW m \in 1..n, m - 1 \in Good PROVE m \in Good
    <3>1. 1..m = (1..(m - 1)) \cup {m} /\ m \in 0..n
      OBVIOUS
    <3>2. U(m) = U(m - 1) \cup Range(ss[m])
      BY <3>1
    <3>3. CASE m = 1
      <4>1. U(m - 1) = {}
        BY <3>3
      <4>2. c[m] = ss[m]
        BY <2>7, <3>3
      <4> HIDE DEF U
      <4>3. c[m] \in Seq(X) /\ Range(c[m]) = U(m)
        BY <1>1, <3>2, <4>1, <4>2
      <4>4. QED BY <3>1, <4>3
    <3>4. CASE m # 1
      <4>1. c[m - 1] \in Seq(X) /\ Range(c[m - 1]) = U(m - 1) /\ ss[m] \in Seq(X)
        BY <1>1, <2>9, <3>4
      <4>2. c[m] = c[m - 1] \o ss[m]
        BY <2>7, <3>4
      <4> HIDE DEF U
      <4>3. c[m] \in Seq(X) /\ Range(c[m]) = Range(c[m - 1]) \cup Range(ss[m])
        BY <4>1, <4>2, Joined
      <4>4. c[m] \in Seq(X) /\ Range(c[m]) = U(m)
        BY <3>2, <4>1, <4>3
      <4>5. QED BY <3>1, <4>4
    <3>5. QED BY <3>3, <3>4
  <2>10. \A m \in 0..n : m \in Good
    <3> HIDE DEF Good
    <3>1. QED BY <1>1, <2>8, <2>9, StepByStep
  <2>11. n \in 0..n
    BY <1>1
  <2>12. c[n] \in Seq(X) /\ Range(c[n]) = U(n)
    BY <2>2, <2>10, <2>11
  <2>13. QED BY <2>1, <2>12 DEF n
<1>4. QED BY <1>2, <1>3

-----------------------------------------------------------------------------
(* Intervals in order.                                                     *)

Pairs == Int \X Int
Intervals == {i \in Pairs : i[1] <= i[2]}
Span(i) == i[1] .. (i[2] - 1)

LEMMA SpansApart ==
  ASSUME NEW i \in Intervals, NEW j \in Intervals, i[2] < j[1] \/ j[2] < i[1]
  PROVE  Span(i) \cap Span(j) = {}
<1>1. PICK a, b, c, d : a = i[1] /\ b = i[2] /\ c = j[1] /\ d = j[2]
  OBVIOUS
<1>2. a \in Int /\ b \in Int /\ c \in Int /\ d \in Int /\ a <= b /\ c <= d
  BY <1>1 DEF Intervals, Pairs
<1>3. (a .. (b - 1)) \cap (c .. (d - 1)) = {}
  BY <1>1, <1>2
<1>4. QED BY <1>1, <1>3 DEF Span

LEMMA SpansJoin ==
  ASSUME NEW i \in Intervals, NEW j \in Intervals, i[1] <= j[1], j[1] <= i[2]
  PROVE  i[1] .. (Greater(i[2], j[2]) - 1) = Span(i) \cup Span(j)
<1>1. PICK a, b, c, d, e : /\ a = i[1] /\ b = i[2] /\ c = j[1] /\ d = j[2]
                           /\ e = Greater(b, d)
  OBVIOUS
<1>2. a \in Int /\ b \in Int /\ c \in Int /\ d \in Int /\ a <= b /\ c <= d
  BY <1>1 DEF Intervals, Pairs
<1>3. a <= c /\ c <= b /\ e \in Int /\ e = IF b > d THEN b ELSE d
  BY <1>1, <1>2 DEF Greater
<1>4. a .. (e - 1) = (a .. (b - 1)) \cup (c .. (d - 1))
  BY <1>2, <1>3
<1>5. QED BY <1>1, <1>4 DEF Span

LEMMA MinutesOf ==
  ASSUME NEW s \in Seq(Pairs)
  PROVE  /\ Minutes(s) = UNION {Span(s[k]) : k \in 1..Len(s)}
         /\ Minutes(s) = UNION {Span(i) : i \in Range(s)}
  BY DEF Minutes, Span, Range

\* The k-th is before the l-th, or is the l-th.
Before(s, k, l) == \/ s[k][1] < s[l][1]
                   \/ s[k][1] = s[l][1] /\ k <= l
Down(s, l) == {k \in DOMAIN s : Before(s, k, l)}
RankIn(s, l) == Cardinality(Down(s, l))

LEMMA Ranks ==
  ASSUME NEW s \in Seq(Pairs)
  PROVE  /\ \A k \in 1..Len(s) : RankIn(s, k) \in 1..Len(s)
         /\ \A k, l \in 1..Len(s) : k # l /\ Before(s, k, l) => RankIn(s, k) < RankIn(s, l)
<1> DEFINE n == Len(s)
<1>1. n \in Nat /\ DOMAIN s = 1..n /\ \A k \in 1..n : s[k][1] \in Int
  BY DEF Pairs
<1>2. \A k : Down(s, k) \in SUBSET (1..n)
  BY <1>1 DEF Down
<1> HIDE DEF n
<1>3. IsFiniteSet(1..n) /\ Cardinality(1..n) = n
  BY <1>1, FS_Interval
<1>4. \A k : IsFiniteSet(Down(s, k)) /\ RankIn(s, k) \in Nat /\ RankIn(s, k) <= n
  BY <1>2, <1>3, FS_Subset, FS_CardinalityType DEF RankIn
<1>5. ASSUME NEW k \in 1..n PROVE RankIn(s, k) \in 1..n
  <2>1. k \in Down(s, k)
    BY <1>1 DEF Down, Before
  <2>2. RankIn(s, k) # 0
    BY <1>4, <2>1, FS_EmptySet DEF RankIn
  <2>3. QED BY <1>1, <1>4, <2>2
<1>6. ASSUME NEW k \in 1..n, NEW l \in 1..n, k # l, Before(s, k, l)
      PROVE  RankIn(s, k) < RankIn(s, l)
  <2>1. Down(s, k) \in SUBSET Down(s, l)
    BY <1>1, <1>6 DEF Down, Before
  <2>2. l \in Down(s, l) /\ l \notin Down(s, k)
    BY <1>1, <1>6 DEF Down, Before
  <2>3. RankIn(s, k) <= RankIn(s, l) /\ RankIn(s, k) # RankIn(s, l)
    BY <1>4, <2>1, <2>2, FS_Subset DEF RankIn
  <2>4. QED BY <1>4, <2>3
<1>7. QED BY <1>5, <1>6 DEF n

\* Every rank is taken once.
LEMMA RanksAreTaken ==
  ASSUME NEW s \in Seq(Pairs)
  PROVE  /\ \A m \in 1..Len(s) : \E k \in 1..Len(s) : RankIn(s, k) = m
         /\ \A k, l \in 1..Len(s) : RankIn(s, k) = RankIn(s, l) => k = l
<1> DEFINE n == Len(s)
           r == [k \in 1..n |-> RankIn(s, k)]
<1>1. n \in Nat /\ DOMAIN s = 1..n /\ \A k \in 1..n : s[k][1] \in Int
  BY DEF Pairs
<1>2. /\ \A k \in 1..n : RankIn(s, k) \in 1..n
      /\ \A k, l \in 1..n : k # l /\ Before(s, k, l) => RankIn(s, k) < RankIn(s, l)
  BY Ranks
<1> HIDE DEF n
<1>3. ASSUME NEW k \in 1..n, NEW l \in 1..n, k # l PROVE RankIn(s, k) # RankIn(s, l)
  <2>1. Before(s, k, l) \/ Before(s, l, k)
    <3>1. PICK a, b : a = s[k][1] /\ b = s[l][1]
      OBVIOUS
    <3>2. a \in Int /\ b \in Int /\ k \in Int /\ l \in Int
      BY <1>1, <3>1
    <3>3. (a < b \/ (a = b /\ k <= l)) \/ (b < a \/ (b = a /\ l <= k))
      BY <3>2
    <3>4. QED BY <3>1, <3>3 DEF Before
  <2>2. RankIn(s, k) \in Int /\ RankIn(s, l) \in Int
    BY <1>2
  <2>3. QED BY <1>2, <1>3, <2>1, <2>2
<1>4. r \in Injection(1..n, 1..n)
  BY <1>2, <1>3 DEF Injection, IsInjective
<1>5. r \in Surjection(1..n, 1..n)
  <2> HIDE DEF r
  <2>1. IsFiniteSet(1..n)
    BY <1>1, FS_Interval
  <2>2. QED BY <1>4, <2>1, FS_Injection
<1>6. \A m \in 1..n : \E k \in 1..n : r[k] = m
  <2> HIDE DEF r
  <2>1. QED BY <1>5 DEF Surjection
<1>7. QED BY <1>3, <1>6 DEF n

InOrder(t) == \A k, l \in 1..Len(t) : k <= l => t[k][1] <= t[l][1]

LEMMA SortedInOrder ==
  ASSUME NEW X \in SUBSET Pairs, NEW s \in Seq(X)
  PROVE  /\ Sorted(s) \in Seq(X) /\ Len(Sorted(s)) = Len(s)
         /\ Range(Sorted(s)) = Range(s) /\ InOrder(Sorted(s))
<1> DEFINE n == Len(s)
           At(m) == CHOOSE k \in DOMAIN s : RankIn(s, k) = m
<1>1. /\ n \in Nat /\ DOMAIN s = 1..n /\ \A k \in 1..n : s[k] \in X /\ s[k][1] \in Int
      /\ s \in Seq(Pairs)
  BY DEF Pairs
<1>2. Sorted(s) = [m \in 1..n |-> s[At(m)]]
  <2>1. Sorted(s) = [m \in DOMAIN s |-> s[At(m)]]
    BY DEF Sorted, RankIn, Down, Before
  <2> HIDE DEF At
  <2>2. QED BY <1>1, <2>1
<1>3. /\ \A k \in 1..n : RankIn(s, k) \in 1..n
      /\ \A k, l \in 1..n : k # l /\ Before(s, k, l) => RankIn(s, k) < RankIn(s, l)
      /\ \A m \in 1..n : \E k \in 1..n : RankIn(s, k) = m
      /\ \A k, l \in 1..n : RankIn(s, k) = RankIn(s, l) => k = l
  BY <1>1, Ranks, RanksAreTaken
<1> HIDE DEF n
<1>4. \A m \in 1..n : At(m) \in 1..n /\ RankIn(s, At(m)) = m
  BY <1>1, <1>3
<1> HIDE DEF At
<1>5. Sorted(s) \in Seq(X) /\ Len(Sorted(s)) = n /\ DOMAIN Sorted(s) = 1..n
      /\ \A m \in 1..n : Sorted(s)[m] = s[At(m)]
  <2>1. \A m \in 1..n : s[At(m)] \in X
    BY <1>1, <1>4
  <2>2. QED BY <1>1, <1>2, <2>1
<1>6. Range(Sorted(s)) = Range(s)
  <2>1. \A k \in 1..n : At(RankIn(s, k)) = k
    BY <1>3, <1>4
  <2>2. ASSUME NEW k \in 1..n PROVE \E m \in 1..n : Sorted(s)[m] = s[k]
    <3>1. RankIn(s, k) \in 1..n
      BY <1>3
    <3>2. QED BY <1>5, <2>1, <3>1
  <2>3. \A m \in 1..n : \E k \in 1..n : Sorted(s)[m] = s[k]
    BY <1>4, <1>5
  <2>4. /\ Range(s) = {s[k] : k \in 1..n}
        /\ Range(Sorted(s)) = {Sorted(s)[m] : m \in 1..n}
    BY <1>1, <1>5, RangeOf
  <2>5. Range(s) \subseteq Range(Sorted(s))
    BY <2>2, <2>4
  <2>6. Range(Sorted(s)) \subseteq Range(s)
    BY <2>3, <2>4
  <2>7. QED BY <2>5, <2>6
<1>7. InOrder(Sorted(s))
  <2>1. ASSUME NEW k \in 1..n, NEW l \in 1..n, k <= l
        PROVE  s[At(k)][1] <= s[At(l)][1]
    <3>1. At(k) \in 1..n /\ At(l) \in 1..n /\ RankIn(s, At(k)) = k /\ RankIn(s, At(l)) = l
      BY <1>4
    <3>2. s[At(k)][1] \in Int /\ s[At(l)][1] \in Int
      BY <1>1, <3>1
    <3>3. CASE s[At(l)][1] < s[At(k)][1]
      <4>1. Before(s, At(l), At(k)) /\ At(l) # At(k)
        <5>1. PICK a, b : a = s[At(l)][1] /\ b = s[At(k)][1]
          OBVIOUS
        <5>2. a \in Int /\ b \in Int /\ a < b
          BY <3>2, <3>3, <5>1
        <5>3. QED BY <5>1, <5>2 DEF Before
      <4>2. RankIn(s, At(l)) < RankIn(s, At(k))
        BY <1>3, <3>1, <4>1
      <4>3. l < k
        BY <3>1, <4>2
      <4>4. QED BY <1>1, <2>1, <4>3
    <3>4. QED BY <3>2, <3>3
  <2>2. QED BY <1>5, <2>1 DEF InOrder
<1>8. QED BY <1>5, <1>6, <1>7 DEF n

-----------------------------------------------------------------------------
(* mergeIntervals: the same minutes in stretches that do not touch.        *)

Separate(m) == \A k, l \in 1..Len(m) : k < l => m[k][2] < m[l][1]

\* What is merged of the first k intervals.
MergedTo(m, t, k) ==
  /\ Minutes(m) = UNION {Span(t[j]) : j \in 1..k}
  /\ Separate(m)
  /\ \A a \in 1..Len(m) : \E i, j \in 1..k : m[a] = <<t[i][1], t[j][2]>>
  /\ IF k = 0 THEN m = << >> ELSE m # << >> /\ Last(m)[1] <= t[k][1]

LEMMA JoinStep ==
  ASSUME NEW t \in Seq(Intervals), InOrder(t), NEW k \in 1..Len(t),
         NEW m \in Seq(Intervals), MergedTo(m, t, k - 1)
  PROVE  Join(m, t[k]) \in Seq(Intervals) /\ MergedTo(Join(m, t[k]), t, k)
<1> DEFINE n == Len(m)
           i == t[k]
           last == m[n]
           new == Join(m, i)
<1>1. /\ n \in Nat /\ DOMAIN m = 1..n /\ \A a \in 1..n : m[a] \in Intervals
      /\ \A a \in 1..n : m[a][1] \in Int /\ m[a][2] \in Int /\ m[a][1] <= m[a][2]
  BY DEF Intervals, Pairs
<1>2. i \in Intervals /\ i[1] \in Int /\ i[2] \in Int /\ i[1] <= i[2]
  BY DEF Intervals, Pairs
<1>3. k \in Nat /\ 1..k = (1..(k - 1)) \cup {k} /\ k - 1 \in Nat
  OBVIOUS
<1>4. \A x, y \in 1..n : x < y => m[x][2] < m[y][1]
  BY DEF MergedTo, Separate
<1>5. \A a \in 1..n : \E x, y \in 1..(k - 1) : m[a] = <<t[x][1], t[y][2]>>
  BY DEF MergedTo
<1>6. n # 0 => last[1] <= i[1]
  <2> SUFFICES ASSUME n # 0 PROVE last[1] <= i[1]
    OBVIOUS
  <2>1. k - 1 # 0 /\ last[1] <= t[k - 1][1]
    BY <1>1 DEF MergedTo, Last
  <2>2. k - 1 \in 1..Len(t) /\ t[k - 1][1] <= t[k][1]
    BY <1>3, <2>1 DEF InOrder
  <2>3. t[k - 1][1] \in Int /\ last[1] \in Int
    <3>1. n \in 1..n
      BY <1>1
    <3>2. t[k - 1] \in Intervals
      BY <2>2
    <3>3. QED BY <1>1, <3>1, <3>2 DEF Intervals, Pairs
  <2>4. QED BY <1>2, <2>1, <2>2, <2>3
<1>7. UNION {Span(t[j]) : j \in 1..k} = (UNION {Span(t[j]) : j \in 1..(k - 1)}) \cup Span(i)
  BY <1>3
<1>8. Minutes(m) = UNION {Span(t[j]) : j \in 1..(k - 1)}
      /\ Minutes(m) = UNION {Span(m[a]) : a \in 1..n}
  <2>1. m \in Seq(Pairs)
    BY DEF Intervals
  <2>2. QED BY <2>1, MinutesOf DEF MergedTo
<1>9. CASE m # << >> /\ i[1] <= last[2]
  <2> DEFINE j == <<last[1], Greater(last[2], i[2])>>
  <2>1. n # 0 /\ n \in 1..n
    BY <1>1, <1>9
  <2>2. new = [m EXCEPT ![n] = j]
    BY <1>9 DEF Join, Last
  <2>3. j \in Intervals /\ j[1] = last[1] /\ j[2] = Greater(last[2], i[2])
    <3>1. last[1] \in Int /\ last[2] \in Int /\ last[1] <= last[2]
      BY <1>1, <2>1
    <3>2. PICK end : end = Greater(last[2], i[2])
      OBVIOUS
    <3>3. end \in Int /\ last[1] <= end
      BY <1>2, <3>1, <3>2 DEF Greater
    <3>4. j = <<last[1], end>>
      BY <3>2
    <3>5. QED BY <3>1, <3>2, <3>3, <3>4 DEF Intervals, Pairs
  <2>4. Span(j) = Span(last) \cup Span(i)
    <3>1. last[1] \in Int /\ last[2] \in Int /\ last[1] <= last[2] /\ last[1] <= i[1]
      BY <1>1, <1>6, <2>1
    <3>2. last \in Intervals /\ i \in Intervals /\ i[1] <= last[2]
      BY <1>1, <1>2, <1>9, <2>1
    <3> HIDE DEF last, i, j
    <3>3. QED BY <2>3, <3>1, <3>2, SpansJoin DEF Span
  <2>5. j = <<t[k][1], t[k][2]>> \/ \E x, y \in 1..k : j = <<t[x][1], t[y][2]>>
    <3>1. PICK x \in 1..(k - 1), y \in 1..(k - 1) : last = <<t[x][1], t[y][2]>>
      BY <1>5, <2>1
    <3>2. x \in 1..k /\ y \in 1..k /\ k \in 1..k
      BY <1>3
    <3>3. j = <<t[x][1], t[y][2]>> \/ j = <<t[x][1], t[k][2]>>
      BY <3>1 DEF Greater
    <3>4. QED BY <3>2, <3>3
  <2> HIDE DEF j, last, i
  <2>6. /\ new \in Seq(Intervals) /\ Len(new) = n /\ new[n] = j
        /\ \A a \in 1..n : a # n => new[a] = m[a]
    BY <1>1, <2>1, <2>2, <2>3
  <2> HIDE DEF new
  <2>7. Separate(new)
    <3>1. ASSUME NEW x \in 1..n, NEW y \in 1..n, x < y PROVE new[x][2] < new[y][1]
      <4>1. x # n /\ new[x] = m[x] /\ m[x][2] < m[y][1]
        <5>1. x # n
          <6>1. x \in Int /\ y \in Int /\ n \in Int /\ y <= n
            BY <1>1
          <6>2. QED BY <3>1, <6>1
        <5>2. m[x][2] < m[y][1]
          BY <1>4, <3>1
        <5>3. QED BY <2>6, <5>1, <5>2
      <4>2. new[y][1] = m[y][1]
        BY <2>3, <2>6 DEF last
      <4>3. QED BY <4>1, <4>2
    <3>2. QED BY <2>6, <3>1 DEF Separate
  <2>8. \A a \in 1..n : \E x, y \in 1..k : new[a] = <<t[x][1], t[y][2]>>
    <3>1. ASSUME NEW a \in 1..n PROVE \E x, y \in 1..k : new[a] = <<t[x][1], t[y][2]>>
      <4>1. CASE a = n
        BY <1>3, <2>5, <2>6, <4>1
      <4>2. CASE a # n
        <5>1. PICK x \in 1..(k - 1), y \in 1..(k - 1) : m[a] = <<t[x][1], t[y][2]>>
          BY <1>5
        <5>2. QED BY <1>3, <2>6, <4>2, <5>1
      <4>3. QED BY <4>1, <4>2
    <3>2. QED BY <3>1
  <2>9. Minutes(new) = Minutes(m) \cup Span(i)
    <3>1. new \in Seq(Pairs)
      BY <2>6 DEF Intervals
    <3>2. Minutes(new) = UNION {Span(new[a]) : a \in 1..n}
      BY <2>6, <3>1, MinutesOf
    <3>3. \A a \in 1..n : Span(new[a]) = IF a = n THEN Span(m[n]) \cup Span(i) ELSE Span(m[a])
      BY <2>4, <2>6 DEF last
    <3>4. UNION {Span(new[a]) : a \in 1..n} = (UNION {Span(m[a]) : a \in 1..n}) \cup Span(i)
      BY <2>1, <3>3
    <3>5. QED BY <1>8, <3>2, <3>4
  <2>10. Last(new)[1] <= t[k][1] /\ new # << >>
    <3>1. Last(new) = j /\ new # << >>
      BY <2>1, <2>6 DEF Last
    <3>2. QED BY <1>6, <2>1, <2>3, <3>1 DEF i
  <2>11. Minutes(new) = UNION {Span(t[x]) : x \in 1..k} /\ k # 0
    <3>1. k # 0
      BY <1>3
    <3>2. QED BY <1>7, <1>8, <2>9, <3>1
  <2>12. MergedTo(new, t, k)
    BY <2>6, <2>7, <2>8, <2>10, <2>11 DEF MergedTo
  <2>13. QED BY <2>6, <2>12 DEF new, i
<1>10. CASE ~(m # << >> /\ i[1] <= last[2])
  <2>1. new = Append(m, i)
    BY <1>10 DEF Join, Last
  <2>2. n # 0 => last[2] < i[1]
    <3>1. n # 0 => m # << >> /\ last[2] \in Int
      BY <1>1
    <3>2. QED BY <1>2, <1>10, <3>1
  <2> HIDE DEF i
  <2>3. /\ new \in Seq(Intervals) /\ Len(new) = n + 1 /\ new[n + 1] = i
        /\ \A a \in 1..n : new[a] = m[a]
    BY <1>1, <1>2, <2>1
  <2>4. 1..(n + 1) = (1..n) \cup {n + 1} /\ \A a \in 1..n : a # n + 1 /\ a < n + 1
    BY <1>1
  <2> HIDE DEF new
  <2>5. Separate(new)
    <3>1. ASSUME NEW x \in 1..(n + 1), NEW y \in 1..(n + 1), x < y
          PROVE  new[x][2] < new[y][1]
      <4>1. x \in 1..n
        BY <1>1, <3>1
      <4>2. CASE y = n + 1
        <5>1. n # 0 /\ last[2] < i[1] /\ n \in 1..n
          BY <1>1, <2>2, <4>1
        <5>2. CASE x = n
          BY <2>3, <4>2, <5>1, <5>2
        <5>3. CASE x # n
          <6>1. m[x][2] < last[1] /\ last[1] <= last[2]
            <7>1. x < n
              BY <4>1, <5>3
            <7>2. m[x][2] < m[n][1]
              BY <1>4, <4>1, <5>1, <7>1
            <7>3. QED BY <1>1, <5>1, <7>2
          <6>2. m[x][2] \in Int /\ last[1] \in Int /\ last[2] \in Int
            BY <1>1, <4>1, <5>1
          <6>3. m[x][2] < i[1]
            <7>1. PICK a, b, c, d : a = m[x][2] /\ b = last[1] /\ c = last[2] /\ d = i[1]
              OBVIOUS
            <7>2. a \in Int /\ b \in Int /\ c \in Int /\ d \in Int
              BY <1>2, <6>2, <7>1
            <7>3. a < b /\ b <= c /\ c < d
              BY <5>1, <6>1, <7>1
            <7>4. a < d
              BY <7>2, <7>3
            <7>5. QED BY <7>1, <7>4
          <6>4. QED BY <2>3, <4>1, <4>2, <6>3
        <5>4. QED BY <5>2, <5>3
      <4>3. CASE y # n + 1
        BY <1>4, <2>3, <2>4, <3>1, <4>1, <4>3
      <4>4. QED BY <4>2, <4>3
    <3>2. QED BY <2>3, <3>1 DEF Separate
  <2>6. \A a \in 1..(n + 1) : \E x, y \in 1..k : new[a] = <<t[x][1], t[y][2]>>
    <3>1. ASSUME NEW a \in 1..(n + 1) PROVE \E x, y \in 1..k : new[a] = <<t[x][1], t[y][2]>>
      <4>1. CASE a = n + 1
        <5>1. i = <<t[k][1], t[k][2]>>
          BY <1>2 DEF i, Intervals, Pairs
        <5>2. QED BY <1>3, <2>3, <4>1, <5>1
      <4>2. CASE a # n + 1
        <5>1. a \in 1..n
          BY <2>4, <4>2
        <5>2. PICK x \in 1..(k - 1), y \in 1..(k - 1) : m[a] = <<t[x][1], t[y][2]>>
          BY <1>5, <5>1
        <5>3. QED BY <1>3, <2>3, <5>1, <5>2
      <4>3. QED BY <4>1, <4>2
    <3>2. QED BY <3>1
  <2>7. Minutes(new) = Minutes(m) \cup Span(i)
    <3>1. new \in Seq(Pairs)
      BY <2>3 DEF Intervals
    <3>2. Minutes(new) = UNION {Span(new[a]) : a \in 1..(n + 1)}
      BY <2>3, <3>1, MinutesOf
    <3>3. new[n + 1] = i /\ \A a \in 1..n : new[a] = m[a]
      BY <2>3
    <3>4. UNION {Span(new[a]) : a \in (1..n) \cup {n + 1}}
            = (UNION {Span(m[a]) : a \in 1..n}) \cup Span(i)
      BY <3>3
    <3>5. QED BY <1>8, <2>4, <3>2, <3>4
  <2>8. Last(new)[1] <= t[k][1] /\ new # << >>
    <3>1. Last(new) = i /\ new # << >>
      BY <1>1, <2>3 DEF Last
    <3>2. QED BY <1>2, <3>1 DEF i
  <2>9. Minutes(new) = UNION {Span(t[x]) : x \in 1..k} /\ k # 0
    <3>1. k # 0
      BY <1>3
    <3>2. QED BY <1>7, <1>8, <2>7, <3>1
  <2>10. MergedTo(new, t, k)
    BY <2>3, <2>5, <2>6, <2>8, <2>9 DEF MergedTo
  <2>11. QED BY <2>3, <2>10 DEF new, i
<1>11. QED BY <1>9, <1>10

\* The rounds of mergeIntervals.
LEMMA IntervalsJoined ==
  ASSUME NEW t \in Seq(Intervals)
  PROVE  \E f \in [0..Len(t) -> Seq(Intervals)] :
           /\ f[0] = << >> /\ f[Len(t)] = FoldLeft(Join, << >>, t)
           /\ \A k \in 1..Len(t) : f[k] = Join(f[k - 1], t[k])
<1> DEFINE n == Len(t)
           V == Seq(Intervals)
           G == [p \in V \X (1..n) |-> Join(p[1], t[p[2]])]
           Round(g, S) == IF S = {} THEN << >> ELSE Join(g[S \ {Max(S)}], t[Max(S)])
           Fits(g) == g = [S \in SUBSET (1..n) |-> Round(g, S)]
           c == CHOOSE g : Fits(g)
<1>1. n \in Nat /\ DOMAIN t = 1..n /\ \A k \in 1..n : t[k] \in Intervals
  OBVIOUS
<1>2. FoldLeft(Join, << >>, t) = c[1..n]
  BY <1>1 DEF FoldLeft, MapThenFoldSet
<1> HIDE DEF n
<1>3. \A m \in V, k \in 1..n : Join(m, t[k]) \in V
  <2>1. ASSUME NEW m \in V, NEW i \in Intervals PROVE Join(m, i) \in V
    <3>1. i[1] \in Int /\ i[2] \in Int /\ i[1] <= i[2]
      BY DEF Intervals, Pairs
    <3>2. Append(m, i) \in V
      OBVIOUS
    <3>3. CASE m # << >> /\ i[1] <= Last(m)[2]
      <4>1. Len(m) \in 1..Len(m) /\ Last(m) = m[Len(m)] /\ m[Len(m)] \in Intervals
        BY <3>3 DEF Last
      <4>2. PICK l : l = m[Len(m)]
        OBVIOUS
      <4>3. <<l[1], Greater(l[2], i[2])>> \in Intervals
        BY <3>1, <4>1, <4>2 DEF Intervals, Pairs, Greater
      <4>4. Join(m, i) = [m EXCEPT ![Len(m)] = <<l[1], Greater(l[2], i[2])>>]
        BY <3>3, <4>2 DEF Join
      <4>5. QED BY <4>1, <4>3, <4>4
    <3>4. QED BY <3>2, <3>3 DEF Join
  <2> HIDE DEF V
  <2>2. QED BY <1>1, <2>1
<1>4. << >> \in V
  OBVIOUS
<1> HIDE DEF V
<1>5. G \in [V \X (1..n) -> V]
  BY <1>3
<1>6. \A m \in V, k \in 1..n : <<m, k>> \in V \X (1..n) /\ G[<<m, k>>] = Join(m, t[k])
  OBVIOUS
<1>7. \A S \in SUBSET (1..n) : S # {} => Max(S) \in 1..n /\ S \ {Max(S)} \in SUBSET (1..n)
  BY <1>1, LastPosition
<1>8. PICK g \in [SUBSET (1..n) -> V] : IsFold(G, << >>, n, g)
  <2> HIDE DEF G
  <2>1. QED BY <1>1, <1>4, <1>5, FoldExists
<1>9. Fits(g)
  <2>1. ASSUME NEW S \in SUBSET (1..n) PROVE NextFold(G, << >>, g, S) = Round(g, S)
    BY <1>6, <1>7 DEF NextFold
  <2> HIDE DEF Round, G
  <2>2. QED BY <1>8, <2>1 DEF IsFold, Folded
<1>10. \A S \in SUBSET (1..n) : c[S] = Round(c, S)
  <2>1. Fits(c)
    <3> HIDE DEF Fits
    <3>1. QED BY <1>9
  <2> HIDE DEF Round, c
  <2>2. QED BY <2>1
<1>11. c[{}] = << >> /\ FoldsOn(G, V, n, c)
  BY <1>6, <1>7, <1>10 DEF FoldsOn
<1>12. PICK f \in [0..n -> V] : FromTo(G, << >>, c[1..n], n, f)
  <2> HIDE DEF G, c
  <2>1. QED BY <1>1, <1>4, <1>5, <1>11, Rounds
<1>13. \A k \in 1..n : f[k] = Join(f[k - 1], t[k])
  <2>1. \A k \in 1..n : k - 1 \in 0..n
    BY <1>1
  <2> HIDE DEF G
  <2>2. QED BY <1>6, <1>12, <2>1 DEF FromTo
<1>14. f[0] = << >> /\ f[n] = FoldLeft(Join, << >>, t)
  BY <1>2, <1>12 DEF FromTo
<1>15. QED BY <1>13, <1>14 DEF n, V

LEMMA Merged ==
  ASSUME NEW s \in Seq(Intervals), NEW m, m = mergeIntervals(s)
  PROVE  /\ m \in Seq(Intervals) /\ Minutes(m) = Minutes(s) /\ Separate(m)
         /\ \A a \in 1..Len(m) : \E i, j \in Range(s) : m[a] = <<i[1], j[2]>>
         /\ m = << >> <=> s = << >>
<1>1. PICK t : t = Sorted(s)
  OBVIOUS
<1>2. /\ t \in Seq(Intervals) /\ Len(t) = Len(s) /\ Range(t) = Range(s) /\ InOrder(t)
  <2>1. Intervals \in SUBSET Pairs
    BY DEF Intervals
  <2>2. QED BY <1>1, <2>1, SortedInOrder
<1>3. m = FoldLeft(Join, << >>, t)
  BY <1>1 DEF mergeIntervals
<1> DEFINE n == Len(t)
<1>4. PICK f \in [0..n -> Seq(Intervals)] :
        f[0] = << >> /\ f[n] = m /\ \A k \in 1..n : f[k] = Join(f[k - 1], t[k])
  BY <1>2, <1>3, IntervalsJoined
<1>5. n \in Nat /\ DOMAIN t = 1..n
  BY <1>2
<1> DEFINE Good == {k \in 0..n : MergedTo(f[k], t, k)}
<1>6. 0 \in Good
  <2>1. << >> \in Seq(Pairs) /\ 1..0 = {} /\ Len(<< >>) = 0
    OBVIOUS
  <2>2. Minutes(<< >>) = {} /\ UNION {Span(t[j]) : j \in 1..0} = {}
    BY <2>1, MinutesOf
  <2>3. MergedTo(<< >>, t, 0)
    BY <2>1, <2>2 DEF MergedTo, Separate
  <2>4. QED BY <1>4, <1>5, <2>3
<1>7. ASSUME NEW k \in 1..n, k - 1 \in Good PROVE k \in Good
  <2>1. k \in 0..n /\ k - 1 \in 0..n /\ k \in 1..Len(t)
    BY <1>5
  <2>2. f[k - 1] \in Seq(Intervals) /\ MergedTo(f[k - 1], t, k - 1)
    BY <1>4, <1>7, <2>1
  <2>3. MergedTo(f[k], t, k)
    BY <1>2, <1>4, <2>1, <2>2, JoinStep
  <2>4. QED BY <2>1, <2>3
<1> HIDE DEF n
<1>8. \A k \in 0..n : k \in Good
  <2> HIDE DEF Good
  <2>1. QED BY <1>5, <1>6, <1>7, StepByStep
<1>9. m \in Seq(Intervals) /\ MergedTo(m, t, n)
  <2>1. n \in 0..n
    BY <1>5
  <2>2. QED BY <1>4, <1>8, <2>1
<1>10. Minutes(m) = Minutes(s)
  <2>1. s \in Seq(Pairs) /\ t \in Seq(Pairs)
    BY <1>2 DEF Intervals
  <2>2. Minutes(t) = UNION {Span(t[k]) : k \in 1..n}
    BY <2>1, MinutesOf DEF n
  <2>3. Minutes(t) = Minutes(s)
    BY <1>2 DEF Minutes
  <2>4. QED BY <1>9, <2>2, <2>3 DEF MergedTo
<1>11. m = << >> <=> s = << >>
  <2>1. n = Len(s)
    BY <1>2 DEF n
  <2>2. n = 0 <=> s = << >>
    BY <2>1
  <2>3. QED BY <1>9, <2>2 DEF MergedTo
<1>12. \A a \in 1..Len(m) : \E i, j \in Range(s) : m[a] = <<i[1], j[2]>>
  <2>1. \A k \in 1..n : t[k] \in Range(s)
    BY <1>2, <1>5, RangeOf
  <2>2. QED BY <1>9, <2>1 DEF MergedTo
<1>13. QED BY <1>9, <1>10, <1>11, <1>12 DEF MergedTo

\* The length of stretches that do not touch is the number of their minutes.
LEMMA LengthCounts ==
  ASSUME NEW m \in Seq(Intervals), Separate(m)
  PROVE  IsFiniteSet(Minutes(m)) /\ Length(m) = Cardinality(Minutes(m))
<1> DEFINE n == Len(m)
           s == [k \in 1..n |-> m[k][2] - m[k][1]]
           A == [k \in 1..n |-> Span(m[k])]
<1>1. /\ n \in Nat /\ DOMAIN m = 1..n
      /\ \A k \in 1..n : m[k][1] \in Int /\ m[k][2] \in Int /\ m[k][1] <= m[k][2]
  BY DEF Intervals, Pairs
<1>2. Length(m) = Total(s)
  BY <1>1 DEF Length
<1>3. m \in Seq(Pairs)
  BY DEF Intervals
<1>4. Minutes(m) = UNION {Span(m[k]) : k \in 1..n} /\ \A k, l \in 1..n : k < l => m[k][2] < m[l][1]
  BY <1>3, MinutesOf DEF Separate
<1> HIDE DEF n
<1>5. s \in Seq(Int) /\ Len(s) = n
  BY <1>1
<1>6. ASSUME NEW k \in 1..n PROVE IsFiniteSet(A[k]) /\ s[k] = Cardinality(A[k])
  <2>1. PICK a, b : a = m[k][1] /\ b = m[k][2]
    OBVIOUS
  <2>2. a \in Int /\ b \in Int /\ b - 1 \in Int /\ a <= b
    BY <1>1, <2>1
  <2>3. IsFiniteSet(a..(b - 1)) /\ Cardinality(a..(b - 1)) = b - a
    <3>1. PICK c : c = b - 1
      OBVIOUS
    <3>2. c \in Int
      BY <2>2, <3>1
    <3>3. IsFiniteSet(a..c) /\ Cardinality(a..c) = IF a > c THEN 0 ELSE c - a + 1
      BY <2>2, <3>2, FS_Interval
    <3>4. (IF a > c THEN 0 ELSE c - a + 1) = b - a
      BY <2>2, <3>1
    <3>5. QED BY <3>1, <3>3, <3>4
  <2>4. QED BY <2>1, <2>3 DEF Span
<1>7. ASSUME NEW k \in 1..n, NEW l \in 1..n, k # l PROVE A[k] \cap A[l] = {}
  <2>1. m[k][2] < m[l][1] \/ m[l][2] < m[k][1]
    BY <1>1, <1>7, <1>4
  <2>2. QED BY <1>1, <2>1 DEF Span
<1>8. {A[k] : k \in 1..n} = {Span(m[k]) : k \in 1..n}
  OBVIOUS
<1>9. IsFiniteSet(UNION {A[k] : k \in 1..n}) /\ Total(s) = Cardinality(UNION {A[k] : k \in 1..n})
  <2> HIDE DEF s, A
  <2>1. Counts(s, A)
    BY <1>5, <1>6, <1>7 DEF Counts
  <2>2. QED BY <1>5, <2>1, TotalOfCards
<1>10. QED BY <1>2, <1>4, <1>8, <1>9

\* What sheets are measured by.
LEMMA DurationCounts ==
  ASSUME NEW s \in Seq(Intervals)
  PROVE  /\ IsFiniteSet(Minutes(s)) /\ duration(s) = Cardinality(Minutes(s))
         /\ duration(s) \in Nat
<1>1. PICK m : m = mergeIntervals(s)
  OBVIOUS
<1>2. m \in Seq(Intervals) /\ Minutes(m) = Minutes(s) /\ Separate(m)
  BY <1>1, Merged
<1>3. IsFiniteSet(Minutes(m)) /\ Length(m) = Cardinality(Minutes(m))
  BY <1>2, LengthCounts
<1>4. QED BY <1>1, <1>2, <1>3, FS_CardinalityType DEF duration

-----------------------------------------------------------------------------
(* Cutting, clipping and moving.                                           *)

LEMMA OneOrNone ==
  ASSUME NEW X, NEW x \in X
  PROVE  /\ <<x>> \in Seq(X) /\ Range(<<x>>) = {x}
         /\ << >> \in Seq(X) /\ Range(<< >>) = {}
  BY RangeOf

LEMMA ProperKeeps ==
  ASSUME NEW s \in Seq(Pairs)
  PROVE  /\ Proper(s) \in Seq(Intervals) /\ Minutes(Proper(s)) = Minutes(s)
         /\ Range(Proper(s)) = {i \in Range(s) : i[1] < i[2]}
<1> DEFINE n == Len(s)
           Kept(i) == IF i[2] > i[1] THEN <<i>> ELSE << >>
           ss == [k \in 1..n |-> Kept(s[k])]
<1>1. n \in Nat /\ DOMAIN s = 1..n /\ \A k \in 1..n : s[k] \in Pairs
  OBVIOUS
<1>2. Proper(s) = FlattenSeq(ss)
  BY <1>1 DEF Proper
<1>3. \A i \in Pairs : i[1] \in Int /\ i[2] \in Int
  BY DEF Pairs
<1>4. ASSUME NEW i \in Pairs
      PROVE  Kept(i) \in Seq(Intervals) /\ Range(Kept(i)) = {j \in {i} : j[1] < j[2]}
  <2>1. CASE i[2] > i[1]
    <3>1. Kept(i) = <<i>> /\ i \in Intervals
      BY <1>3, <2>1 DEF Intervals
    <3>2. Range(<<i>>) = {i}
      BY RangeOf
    <3> HIDE DEF Kept
    <3>3. QED BY <1>3, <2>1, <3>1, <3>2
  <2>2. CASE ~(i[2] > i[1])
    <3>1. Kept(i) = << >>
      BY <2>2
    <3>2. {j \in {i} : j[1] < j[2]} = {}
      BY <1>3, <2>2
    <3> HIDE DEF Kept
    <3>3. Range(<< >>) = {}
      BY RangeOf
    <3>4. << >> \in Seq(Intervals)
      OBVIOUS
    <3>5. QED BY <3>1, <3>2, <3>3, <3>4
  <2>3. QED BY <2>1, <2>2
<1> HIDE DEF Kept, n
<1>5. ss \in Seq(Seq(Intervals)) /\ Len(ss) = n /\ \A k \in 1..n : ss[k] = Kept(s[k])
  BY <1>1, <1>4
<1>6. /\ Proper(s) \in Seq(Intervals)
      /\ Range(Proper(s)) = UNION {Range(ss[k]) : k \in 1..n}
  <2> HIDE DEF ss
  <2>1. QED BY <1>2, <1>5, Flattened
<1>7. Range(s) = {s[k] : k \in 1..n}
  BY <1>1, RangeOf
<1>8. Range(Proper(s)) = {i \in Range(s) : i[1] < i[2]}
  <2>1. \A k \in 1..n : Range(ss[k]) = {j \in {s[k]} : j[1] < j[2]}
    BY <1>1, <1>4, <1>5
  <2> HIDE DEF ss
  <2>2. QED BY <1>6, <1>7, <2>1
<1>9. Minutes(Proper(s)) = Minutes(s)
  <2>1. Proper(s) \in Seq(Pairs)
    BY <1>6 DEF Intervals
  <2>2. /\ Minutes(Proper(s)) = UNION {Span(i) : i \in Range(Proper(s))}
        /\ Minutes(s) = UNION {Span(i) : i \in Range(s)}
    BY <2>1, MinutesOf
  <2>3. \A i \in Range(s) : ~(i[1] < i[2]) => Span(i) = {}
    BY <1>1, <1>3, <1>7 DEF Span
  <2>4. QED BY <1>8, <2>2, <2>3
<1>10. QED BY <1>6, <1>8, <1>9

LEMMA PiecesLeave ==
  ASSUME NEW i \in Intervals, NEW x \in Intervals
  PROVE  /\ Pieces(i, x) \in Seq(Intervals)
         /\ UNION {Span(p) : p \in Range(Pieces(i, x))} = Span(i) \ Span(x)
<1>1. /\ i[1] \in Int /\ i[2] \in Int /\ i[1] <= i[2]
      /\ x[1] \in Int /\ x[2] \in Int /\ x[1] <= x[2]
  BY DEF Intervals, Pairs
<1>2. CASE x[2] <= i[1] \/ x[1] >= i[2]
  <2>1. Pieces(i, x) = <<i>>
    BY <1>2 DEF Pieces
  <2>2. Range(<<i>>) = {i}
    BY RangeOf
  <2>3. Span(i) \ Span(x) = Span(i)
    BY <1>1, <1>2 DEF Span
  <2>4. QED BY <2>1, <2>2, <2>3
<1>3. CASE ~(x[2] <= i[1] \/ x[1] >= i[2])
  <2> DEFINE l == <<i[1], x[1]>>
             r == <<x[2], i[2]>>
             left == IF i[1] < x[1] THEN <<l>> ELSE << >>
             right == IF x[2] < i[2] THEN <<r>> ELSE << >>
  <2>1. Pieces(i, x) = left \o right
    BY <1>3 DEF Pieces
  <2>2. left \in Seq(Intervals) /\ Range(left) = IF i[1] < x[1] THEN {l} ELSE {}
    <3>1. i[1] < x[1] => l \in Intervals
      BY <1>1 DEF Intervals, Pairs
    <3> HIDE DEF l
    <3>2. CASE i[1] < x[1]
      BY <3>1, <3>2, OneOrNone
    <3>3. CASE ~(i[1] < x[1])
      BY <3>3, OneOrNone
    <3>4. QED BY <3>2, <3>3
  <2>3. right \in Seq(Intervals) /\ Range(right) = IF x[2] < i[2] THEN {r} ELSE {}
    <3>1. x[2] < i[2] => r \in Intervals
      BY <1>1 DEF Intervals, Pairs
    <3> HIDE DEF r
    <3>2. CASE x[2] < i[2]
      BY <3>1, <3>2, OneOrNone
    <3>3. CASE ~(x[2] < i[2])
      BY <3>3, OneOrNone
    <3>4. QED BY <3>2, <3>3
  <2> HIDE DEF left, right
  <2>4. /\ Pieces(i, x) \in Seq(Intervals)
        /\ Range(Pieces(i, x)) = Range(left) \cup Range(right)
    BY <2>1, <2>2, <2>3, Joined
  <2>5. Span(l) = i[1] .. (x[1] - 1) /\ Span(r) = x[2] .. (i[2] - 1)
    BY DEF Span
  <2> HIDE DEF l, r
  <2>6. (IF i[1] < x[1] THEN Span(l) ELSE {}) \cup (IF x[2] < i[2] THEN Span(r) ELSE {})
          = Span(i) \ Span(x)
    <3>1. PICK a, b, c, d : a = i[1] /\ b = i[2] /\ c = x[1] /\ d = x[2]
      OBVIOUS
    <3>2. a \in Int /\ b \in Int /\ c \in Int /\ d \in Int /\ c <= d /\ a < d /\ c < b
      BY <1>1, <1>3, <3>1
    <3>3. Span(i) = a..(b - 1) /\ Span(x) = c..(d - 1)
      BY <3>1 DEF Span
    <3>4. Span(l) = a..(c - 1) /\ Span(r) = d..(b - 1)
      BY <2>5, <3>1
    <3>5. (IF a < c THEN a..(c - 1) ELSE {}) \cup (IF d < b THEN d..(b - 1) ELSE {})
            = (a..(b - 1)) \ (c..(d - 1))
      BY <3>2
    <3>6. QED BY <3>1, <3>3, <3>4, <3>5
  <2>7. UNION {Span(p) : p \in Range(left)} = IF i[1] < x[1] THEN Span(l) ELSE {}
    BY <2>2
  <2>8. UNION {Span(p) : p \in Range(right)} = IF x[2] < i[2] THEN Span(r) ELSE {}
    BY <2>3
  <2>9. QED BY <2>4, <2>6, <2>7, <2>8
<1>4. QED BY <1>2, <1>3

LEMMA CutLeaves ==
  ASSUME NEW rest \in Seq(Intervals), NEW x \in Intervals
  PROVE  /\ Cut(rest, x) \in Seq(Intervals)
         /\ Minutes(Cut(rest, x)) = Minutes(rest) \ Span(x)
<1> DEFINE n == Len(rest)
           ss == [k \in 1..n |-> Pieces(rest[k], x)]
<1>1. /\ n \in Nat /\ DOMAIN rest = 1..n /\ \A k \in 1..n : rest[k] \in Intervals
      /\ rest \in Seq(Pairs)
  BY DEF Intervals
<1>2. Cut(rest, x) = FlattenSeq(ss)
  BY <1>1 DEF Cut
<1>3. Minutes(rest) = UNION {Span(rest[k]) : k \in 1..n}
  BY <1>1, MinutesOf
<1> HIDE DEF n
<1>4. \A k \in 1..n : /\ Pieces(rest[k], x) \in Seq(Intervals)
                      /\ UNION {Span(p) : p \in Range(Pieces(rest[k], x))}
                           = Span(rest[k]) \ Span(x)
  BY <1>1, PiecesLeave
<1>5. ss \in Seq(Seq(Intervals)) /\ Len(ss) = n /\ \A k \in 1..n : ss[k] = Pieces(rest[k], x)
  BY <1>1, <1>4
<1>6. /\ Cut(rest, x) \in Seq(Intervals)
      /\ Range(Cut(rest, x)) = UNION {Range(ss[k]) : k \in 1..n}
  <2> HIDE DEF ss
  <2>1. QED BY <1>2, <1>5, Flattened
<1>7. Minutes(Cut(rest, x)) = UNION {Span(p) : p \in Range(Cut(rest, x))}
  <2>1. Cut(rest, x) \in Seq(Pairs)
    BY <1>6 DEF Intervals
  <2>2. QED BY <2>1, MinutesOf
<1>8. \A k \in 1..n : UNION {Span(p) : p \in Range(ss[k])} = Span(rest[k]) \ Span(x)
  BY <1>4, <1>5
<1>9. UNION {Span(p) : p \in Range(Cut(rest, x))} = Minutes(rest) \ Span(x)
  <2> HIDE DEF ss
  <2>1. UNION {Span(p) : p \in Range(Cut(rest, x))}
          = UNION {UNION {Span(p) : p \in Range(ss[k])} : k \in 1..n}
    BY <1>6
  <2>2. QED BY <1>3, <1>8, <2>1
<1>10. QED BY <1>6, <1>7, <1>9

\* The rounds of subtractIntervals.
LEMMA IntervalsCut ==
  ASSUME NEW m \in Seq(Intervals), NEW t \in Seq(Intervals)
  PROVE  \E f \in [0..Len(t) -> Seq(Intervals)] :
           /\ f[0] = m /\ f[Len(t)] = FoldLeft(Cut, m, t)
           /\ \A k \in 1..Len(t) : f[k] = Cut(f[k - 1], t[k])
<1> DEFINE n == Len(t)
           V == Seq(Intervals)
           G == [p \in V \X (1..n) |-> Cut(p[1], t[p[2]])]
           Round(g, S) == IF S = {} THEN m ELSE Cut(g[S \ {Max(S)}], t[Max(S)])
           Fits(g) == g = [S \in SUBSET (1..n) |-> Round(g, S)]
           c == CHOOSE g : Fits(g)
<1>1. n \in Nat /\ DOMAIN t = 1..n /\ \A k \in 1..n : t[k] \in Intervals
  OBVIOUS
<1>2. FoldLeft(Cut, m, t) = c[1..n]
  BY <1>1 DEF FoldLeft, MapThenFoldSet
<1> HIDE DEF n
<1>3. \A r \in V, k \in 1..n : Cut(r, t[k]) \in V
  BY <1>1, CutLeaves
<1>4. m \in V
  OBVIOUS
<1> HIDE DEF V
<1>5. G \in [V \X (1..n) -> V]
  BY <1>3
<1>6. \A r \in V, k \in 1..n : <<r, k>> \in V \X (1..n) /\ G[<<r, k>>] = Cut(r, t[k])
  OBVIOUS
<1>7. \A S \in SUBSET (1..n) : S # {} => Max(S) \in 1..n /\ S \ {Max(S)} \in SUBSET (1..n)
  BY <1>1, LastPosition
<1>8. PICK g \in [SUBSET (1..n) -> V] : IsFold(G, m, n, g)
  <2> HIDE DEF G
  <2>1. QED BY <1>1, <1>4, <1>5, FoldExists
<1>9. Fits(g)
  <2>1. ASSUME NEW S \in SUBSET (1..n) PROVE NextFold(G, m, g, S) = Round(g, S)
    BY <1>6, <1>7 DEF NextFold
  <2> HIDE DEF Round, G
  <2>2. QED BY <1>8, <2>1 DEF IsFold, Folded
<1>10. \A S \in SUBSET (1..n) : c[S] = Round(c, S)
  <2>1. Fits(c)
    <3> HIDE DEF Fits
    <3>1. QED BY <1>9
  <2> HIDE DEF Round, c
  <2>2. QED BY <2>1
<1>11. c[{}] = m /\ FoldsOn(G, V, n, c)
  BY <1>6, <1>7, <1>10 DEF FoldsOn
<1>12. PICK f \in [0..n -> V] : FromTo(G, m, c[1..n], n, f)
  <2> HIDE DEF G, c
  <2>1. QED BY <1>1, <1>4, <1>5, <1>11, Rounds
<1>13. \A k \in 1..n : f[k] = Cut(f[k - 1], t[k])
  <2>1. \A k \in 1..n : k - 1 \in 0..n
    BY <1>1
  <2> HIDE DEF G
  <2>2. QED BY <1>6, <1>12, <2>1 DEF FromTo
<1>14. f[0] = m /\ f[n] = FoldLeft(Cut, m, t)
  BY <1>2, <1>12 DEF FromTo
<1>15. QED BY <1>13, <1>14 DEF n, V

LEMMA Subtracted ==
  ASSUME NEW s \in Seq(Intervals), NEW e \in Seq(Intervals)
  PROVE  /\ subtractIntervals(s, e) \in Seq(Intervals)
         /\ Minutes(subtractIntervals(s, e)) = Minutes(s) \ Minutes(e)
<1>1. PICK m, t : m = mergeIntervals(s) /\ t = mergeIntervals(e)
  OBVIOUS
<1>2. /\ m \in Seq(Intervals) /\ Minutes(m) = Minutes(s)
      /\ t \in Seq(Intervals) /\ Minutes(t) = Minutes(e)
  BY <1>1, Merged
<1> DEFINE n == Len(t)
<1>3. PICK f \in [0..n -> Seq(Intervals)] :
        /\ f[0] = m /\ f[n] = FoldLeft(Cut, m, t)
        /\ \A k \in 1..n : f[k] = Cut(f[k - 1], t[k])
  BY <1>2, IntervalsCut
<1>4. n \in Nat /\ \A k \in 1..n : t[k] \in Intervals
  BY <1>2
<1>5. Minutes(t) = UNION {Span(t[k]) : k \in 1..n}
  <2>1. t \in Seq(Pairs)
    BY <1>2 DEF Intervals
  <2>2. QED BY <2>1, MinutesOf
<1> HIDE DEF n
<1> DEFINE U(k) == UNION {Span(t[j]) : j \in 1..k}
           Good == {k \in 0..n : Minutes(f[k]) = Minutes(s) \ U(k)}
<1>6. 0 \in Good
  <2>1. 1..0 = {} /\ U(0) = {} /\ 0 \in 0..n
    BY <1>4
  <2>2. QED BY <1>2, <1>3, <2>1
<1>7. ASSUME NEW k \in 1..n, k - 1 \in Good PROVE k \in Good
  <2>1. 1..k = (1..(k - 1)) \cup {k} /\ k \in 0..n /\ k - 1 \in 0..n
    BY <1>4
  <2>2. U(k) = U(k - 1) \cup Span(t[k])
    BY <2>1
  <2>3. f[k - 1] \in Seq(Intervals) /\ Minutes(f[k - 1]) = Minutes(s) \ U(k - 1)
    BY <1>7, <2>1
  <2> HIDE DEF U
  <2>4. Minutes(f[k]) = Minutes(f[k - 1]) \ Span(t[k])
    BY <1>3, <1>4, <2>3, CutLeaves
  <2>5. QED BY <2>1, <2>2, <2>3, <2>4
<1>8. \A k \in 0..n : k \in Good
  <2> HIDE DEF Good
  <2>1. QED BY <1>4, <1>6, <1>7, StepByStep
<1>9. f[n] \in Seq(Intervals) /\ Minutes(f[n]) = Minutes(s) \ Minutes(e)
  <2>1. n \in 0..n
    BY <1>4
  <2>2. QED BY <1>2, <1>5, <1>8, <2>1
<1>10. subtractIntervals(s, e) = Proper(f[n])
  BY <1>1, <1>3 DEF subtractIntervals
<1>11. f[n] \in Seq(Pairs)
  BY <1>9 DEF Intervals
<1>12. QED BY <1>9, <1>10, <1>11, ProperKeeps

LEMMA Intersected ==
  ASSUME NEW s \in Seq(Intervals), NEW x \in Intervals
  PROVE  /\ intersectIntervals(s, x) \in Seq(Intervals)
         /\ Minutes(intersectIntervals(s, x)) = Minutes(s) \cap Span(x)
<1> DEFINE n == Len(s)
           Both(i) == <<Greater(i[1], x[1]), Smaller(i[2], x[2])>>
           t == [k \in 1..n |-> Both(s[k])]
<1>1. /\ n \in Nat /\ DOMAIN s = 1..n /\ \A k \in 1..n : s[k] \in Intervals
      /\ s \in Seq(Pairs)
  BY DEF Intervals
<1>2. intersectIntervals(s, x) = mergeIntervals(Proper(t))
  BY <1>1 DEF intersectIntervals
<1>3. ASSUME NEW i \in Intervals
      PROVE  Both(i) \in Pairs /\ Span(Both(i)) = Span(i) \cap Span(x)
  <2>1. PICK a, b, c, d : a = i[1] /\ b = i[2] /\ c = x[1] /\ d = x[2]
    OBVIOUS
  <2>2. a \in Int /\ b \in Int /\ c \in Int /\ d \in Int
    BY <2>1 DEF Intervals, Pairs
  <2>3. Both(i) = <<Greater(a, c), Smaller(b, d)>>
    BY <2>1
  <2>4. Span(Both(i)) = Greater(a, c) .. (Smaller(b, d) - 1)
    BY <2>3 DEF Span
  <2>5. Span(i) = a..(b - 1) /\ Span(x) = c..(d - 1)
    BY <2>1 DEF Span
  <2>6. Both(i) \in Pairs
    BY <2>2, <2>3 DEF Pairs, Greater, Smaller
  <2>7. Greater(a, c) .. (Smaller(b, d) - 1) = (a..(b - 1)) \cap (c..(d - 1))
    BY <2>2 DEF Greater, Smaller
  <2>8. QED BY <2>4, <2>5, <2>6, <2>7
<1>4. Minutes(s) = UNION {Span(s[k]) : k \in 1..n}
  BY <1>1, MinutesOf
<1> HIDE DEF n, Both
<1>5. t \in Seq(Pairs) /\ Len(t) = n /\ \A k \in 1..n : t[k] = Both(s[k])
  BY <1>1, <1>3
<1> HIDE DEF t
<1>6. Minutes(t) = UNION {Span(t[k]) : k \in 1..n}
  BY <1>5, MinutesOf
<1>7. \A k \in 1..n : Span(t[k]) = Span(s[k]) \cap Span(x)
  BY <1>1, <1>3, <1>5
<1>8. Minutes(t) = Minutes(s) \cap Span(x)
  BY <1>4, <1>6, <1>7
<1>9. Proper(t) \in Seq(Intervals) /\ Minutes(Proper(t)) = Minutes(t)
  BY <1>5, ProperKeeps
<1>10. QED BY <1>2, <1>8, <1>9, Merged

\* A record on the time line of all days.
LEMMA Moved ==
  ASSUME Day \in Int, NEW s \in Seq(Intervals), NEW d \in Int
  PROVE  /\ Absolute(s, d) \in Seq(Intervals)
         /\ Minutes(Absolute(s, d)) = {d * Day + m : m \in Minutes(s)}
<1>1. PICK o : o = d * Day
  OBVIOUS
<1>2. o \in Int
  BY <1>1
<1> DEFINE n == Len(s)
           Put(i) == <<o + i[1], o + i[2]>>
           t == [k \in 1..n |-> Put(s[k])]
<1>3. /\ n \in Nat /\ DOMAIN s = 1..n /\ \A k \in 1..n : s[k] \in Intervals
      /\ s \in Seq(Pairs)
  BY DEF Intervals
<1>4. Absolute(s, d) = t
  BY <1>1, <1>3 DEF Absolute
<1>5. ASSUME NEW i \in Intervals
      PROVE  Put(i) \in Intervals /\ Span(Put(i)) = {o + m : m \in Span(i)}
  <2>1. PICK a, b : a = i[1] /\ b = i[2]
    OBVIOUS
  <2>2. a \in Int /\ b \in Int /\ a <= b
    BY <2>1 DEF Intervals, Pairs
  <2>3. Put(i) = <<o + a, o + b>>
    BY <2>1
  <2>4. Put(i) \in Intervals
    BY <1>2, <2>2, <2>3 DEF Intervals, Pairs
  <2>5. Span(Put(i)) = (o + a)..((o + b) - 1) /\ Span(i) = a..(b - 1)
    BY <2>1, <2>3 DEF Span
  <2>6. (o + a)..((o + b) - 1) = {o + m : m \in a..(b - 1)}
    <3>1. ASSUME NEW m \in (o + a)..((o + b) - 1) PROVE m \in {o + l : l \in a..(b - 1)}
      <4>1. m - o \in a..(b - 1) /\ m = o + (m - o)
        BY <1>2, <2>2
      <4>2. QED BY <4>1
    <3>2. \A l \in a..(b - 1) : o + l \in (o + a)..((o + b) - 1)
      BY <1>2, <2>2
    <3>3. QED BY <3>1, <3>2
  <2>7. QED BY <2>4, <2>5, <2>6
<1>6. Minutes(s) = UNION {Span(s[k]) : k \in 1..n}
  BY <1>3, MinutesOf
<1> HIDE DEF n, Put
<1>7. t \in Seq(Intervals) /\ Len(t) = n /\ \A k \in 1..n : t[k] = Put(s[k])
  BY <1>3, <1>5
<1> HIDE DEF t
<1>8. Minutes(t) = UNION {Span(t[k]) : k \in 1..n}
  <2>1. t \in Seq(Pairs)
    BY <1>7 DEF Intervals
  <2>2. QED BY <1>7, <2>1, MinutesOf
<1>9. \A k \in 1..n : Span(t[k]) = {o + m : m \in Span(s[k])}
  BY <1>3, <1>5, <1>7
<1>10. Minutes(t) = {o + m : m \in Minutes(s)}
  <2>1. ASSUME NEW x \in Minutes(t) PROVE x \in {o + m : m \in Minutes(s)}
    <3>1. PICK k \in 1..n : x \in Span(t[k])
      BY <1>8
    <3>2. PICK m \in Span(s[k]) : x = o + m
      BY <1>9, <3>1
    <3>3. QED BY <1>6, <3>2
  <2>2. ASSUME NEW m \in Minutes(s) PROVE o + m \in Minutes(t)
    <3>1. PICK k \in 1..n : m \in Span(s[k])
      BY <1>6
    <3>2. o + m \in Span(t[k])
      BY <1>9, <3>1
    <3>3. QED BY <1>8, <3>2
  <2>3. QED BY <2>1, <2>2
<1>11. QED BY <1>1, <1>4, <1>7, <1>10

-----------------------------------------------------------------------------
(* The rows of a sheet.                                                    *)

\* Twice the middle of a shift, and the intervals within a day of it.
Middle(shift) == Windows[shift][1] + Windows[shift][2]
Around(shift) == {i \in Intervals : /\ 2 * i[1] >= Middle(shift) - 2 * Day
                                    /\ 2 * i[2] <= Middle(shift) + 2 * Day}

LEMMA WindowOf ==
  ASSUME NEW shift \in Shifts
  PROVE  /\ Windows[shift][1] \in Nat /\ Windows[shift][2] \in Nat
         /\ Windows[shift][1] <= Windows[shift][2] /\ Middle(shift) \in Nat
         /\ Day \in Nat /\ Day > 0
  BY SheetConstants DEF Middle

LEMMA Divided ==
  ASSUME NEW a \in Int, NEW b \in Nat, b > 0
  PROVE  a \div b \in Int /\ (a \div b) * b <= a /\ a < (a \div b) * b + b
  OBVIOUS

\* The middle of a row's times comes within half a day of that of the shift.
LEMMA Placed ==
  ASSUME NEW shift \in Shifts, NEW t \in (0..Day) \X (0..Day)
  PROVE  LET i == Place(t, shift)
             length == IF t[2] >= t[1] THEN t[2] - t[1] ELSE Day - t[1] + t[2]
         IN  /\ i \in Around(shift) /\ i[2] = i[1] + length /\ length \in 0..Day
             /\ \E q \in Int : i[1] = t[1] + q * Day
             /\ i[1] + i[2] > Middle(shift) - Day /\ i[1] + i[2] <= Middle(shift) + Day
<1> DEFINE length == IF t[2] >= t[1] THEN t[2] - t[1] ELSE Day - t[1] + t[2]
           late == Windows[shift][1] + Windows[shift][2] - 2 * t[1] - length
           q == (late + Day) \div (2 * Day)
           i == Place(t, shift)
<1>1. /\ Windows[shift][1] \in Nat /\ Windows[shift][2] \in Nat
      /\ Middle(shift) \in Nat /\ Middle(shift) = Windows[shift][1] + Windows[shift][2]
      /\ Day \in Nat /\ Day > 0
  BY WindowOf DEF Middle
<1>2. t[1] \in 0..Day /\ t[2] \in 0..Day
  OBVIOUS
<1>3. length \in 0..Day
  BY <1>1, <1>2
<1>4. i = <<t[1] + q * Day, t[1] + q * Day + length>>
  BY DEF Place
<1> HIDE DEF length, i
<1>5. late \in Int /\ late = Middle(shift) - 2 * t[1] - length
  BY <1>1, <1>2, <1>3
<1> HIDE DEF late
<1>6. PICK a, b : a = late + Day /\ b = 2 * Day
  OBVIOUS
<1>7. a \in Int /\ b \in Nat /\ b > 0
  BY <1>1, <1>5, <1>6
<1>8. q \in Int /\ q * (2 * Day) <= late + Day /\ late + Day < q * (2 * Day) + 2 * Day
  <2>1. q = a \div b
    BY <1>6
  <2> HIDE DEF q
  <2>2. q \in Int /\ q * b <= a /\ a < q * b + b
    BY <1>7, <2>1, Divided
  <2>3. QED BY <1>6, <2>2
<1> HIDE DEF q
<1>9. PICK o : o = q * Day
  OBVIOUS
<1>10. o \in Int /\ q * (2 * Day) = 2 * o
  BY <1>1, <1>8, <1>9
<1>11. i[1] = t[1] + o /\ i[2] = t[1] + o + length /\ i \in Intervals
  BY <1>2, <1>3, <1>4, <1>9, <1>10 DEF Intervals, Pairs
<1>12. i[1] + i[2] > Middle(shift) - Day /\ i[1] + i[2] <= Middle(shift) + Day
  BY <1>1, <1>2, <1>3, <1>5, <1>8, <1>10, <1>11
<1>13. 2 * i[1] >= Middle(shift) - 2 * Day /\ 2 * i[2] <= Middle(shift) + 2 * Day
  BY <1>1, <1>2, <1>3, <1>10, <1>11, <1>12
<1>14. i \in Around(shift)
  BY <1>11, <1>13 DEF Around
<1>15. \E p \in Int : i[1] = t[1] + p * Day
  BY <1>8, <1>9, <1>11
<1>16. i[2] = i[1] + length
  BY <1>2, <1>3, <1>10, <1>11
<1>17. QED BY <1>3, <1>12, <1>14, <1>15, <1>16 DEF length, i

LEMMA RowOf ==
  ASSUME NEW shift \in Shifts, NEW row \in Row
  PROVE  /\ rowIntervals(row, shift) \in Seq(Around(shift))
         /\ Minutes(rowIntervals(row, shift))
              = UNION {Span(Place(t, shift)) : t \in Range(row.times)}
         /\ rowIntervals(row, shift) = << >> <=> row.times = << >>
<1> DEFINE times == row.times
           n == Len(times)
           s == [k \in 1..n |-> Place(times[k], shift)]
<1>1. times \in Seq((0..Day) \X (0..Day))
  BY DEF Row
<1> HIDE DEF times
<1>2. n \in Nat /\ DOMAIN times = 1..n /\ \A k \in 1..n : times[k] \in (0..Day) \X (0..Day)
  BY <1>1
<1>3. rowIntervals(row, shift) = mergeIntervals(s)
  BY <1>2 DEF rowIntervals, times
<1>4. n = 0 <=> times = << >>
  BY <1>1
<1>5. Range(times) = {times[k] : k \in 1..n}
  BY <1>2, RangeOf
<1> HIDE DEF n
<1>6. \A k \in 1..n : Place(times[k], shift) \in Around(shift)
  BY <1>2, Placed
<1>7. s \in Seq(Around(shift)) /\ Len(s) = n
      /\ \A k \in 1..n : s[k] = Place(times[k], shift)
  BY <1>2, <1>6
<1> HIDE DEF s
<1>8. DOMAIN s = 1..n /\ (s = << >> <=> n = 0)
  BY <1>7
<1>9. s \in Seq(Intervals) /\ s \in Seq(Pairs)
  BY <1>7 DEF Around, Intervals
<1>10. PICK m : m = mergeIntervals(s)
  OBVIOUS
<1>11. /\ m \in Seq(Intervals) /\ Minutes(m) = Minutes(s)
       /\ \A a \in 1..Len(m) : \E i, j \in Range(s) : m[a] = <<i[1], j[2]>>
       /\ m = << >> <=> s = << >>
  BY <1>9, <1>10, Merged
<1>12. m \in Seq(Around(shift))
  <2>1. \A i \in Range(s) : i \in Around(shift)
    BY <1>7, <1>8, RangeOf
  <2>2. ASSUME NEW a \in 1..Len(m) PROVE m[a] \in Around(shift)
    <3>1. PICK i \in Around(shift), j \in Around(shift) : m[a] = <<i[1], j[2]>>
      BY <1>11, <2>1
    <3>2. m[a] \in Intervals
      BY <1>11
    <3>3. QED BY <3>1, <3>2 DEF Around
  <2>3. QED BY <1>11, <2>2
<1>13. Minutes(s) = UNION {Span(Place(t, shift)) : t \in Range(times)}
  <2>1. Minutes(s) = UNION {Span(s[k]) : k \in 1..n}
    BY <1>7, <1>9, MinutesOf
  <2>2. QED BY <1>5, <1>7, <2>1
<1>14. QED BY <1>3, <1>4, <1>8, <1>10, <1>11, <1>12, <1>13 DEF times

LEMMA AroundIntervals ==
  ASSUME NEW shift, NEW s \in Seq(Around(shift))
  PROVE  s \in Seq(Intervals)
<1>1. Around(shift) \subseteq Intervals
  BY DEF Around
<1> HIDE DEF Around
<1>2. \A k \in 1..Len(s) : s[k] \in Intervals
  BY <1>1
<1>3. QED BY <1>2

\* The intervals of the rows of some kinds.
LEMMA RowsOf ==
  ASSUME NEW shift \in Shifts, NEW sheet \in Seq(Row), NEW keys
  PROVE  /\ IntervalsOf(sheet, shift, keys) \in Seq(Around(shift))
         /\ IntervalsOf(sheet, shift, keys) \in Seq(Intervals)
         /\ Range(IntervalsOf(sheet, shift, keys))
              = UNION {Range(rowIntervals(sheet[k], shift)) :
                         k \in {k \in 1..Len(sheet) : sheet[k].key \in keys}}
<1> DEFINE n == Len(sheet)
           R(k) == IF sheet[k].key \in keys THEN rowIntervals(sheet[k], shift) ELSE << >>
           ss == [k \in 1..n |-> R(k)]
<1>1. n \in Nat /\ DOMAIN sheet = 1..n /\ \A k \in 1..n : sheet[k] \in Row
  OBVIOUS
<1>2. IntervalsOf(sheet, shift, keys) = FlattenSeq(ss)
  BY <1>1 DEF IntervalsOf
<1> HIDE DEF n
<1>3. \A k \in 1..n : R(k) \in Seq(Around(shift))
  <2>1. \A k \in 1..n : rowIntervals(sheet[k], shift) \in Seq(Around(shift))
    BY <1>1, RowOf
  <2>2. << >> \in Seq(Around(shift))
    OBVIOUS
  <2>3. QED BY <2>1, <2>2
<1>4. Range(<< >>) = {}
  BY RangeOf
<1>5. \A k \in 1..n : Range(R(k)) = IF sheet[k].key \in keys
                                    THEN Range(rowIntervals(sheet[k], shift)) ELSE {}
  BY <1>4
<1> HIDE DEF R
<1>6. ss \in Seq(Seq(Around(shift))) /\ Len(ss) = n /\ \A k \in 1..n : ss[k] = R(k)
  BY <1>1, <1>3
<1> HIDE DEF ss
<1>7. /\ FlattenSeq(ss) \in Seq(Around(shift))
      /\ Range(FlattenSeq(ss)) = UNION {Range(ss[k]) : k \in 1..n}
  BY <1>6, Flattened
<1>8. UNION {Range(ss[k]) : k \in 1..n}
        = UNION {Range(rowIntervals(sheet[k], shift)) :
                   k \in {k \in 1..n : sheet[k].key \in keys}}
  <2>1. \A k \in 1..n : Range(ss[k]) = IF sheet[k].key \in keys
                                       THEN Range(rowIntervals(sheet[k], shift)) ELSE {}
    BY <1>5, <1>6
  <2> HIDE DEF n
  <2>2. QED BY <2>1
<1>9. FlattenSeq(ss) \in Seq(Intervals)
  BY <1>7, AroundIntervals
<1>10. QED BY <1>2, <1>7, <1>8, <1>9 DEF n

LEMMA ManualType ==
  ASSUME NEW sheet \in Seq(Row), NEW keys
  PROVE  ManualOf(sheet, keys) \in Nat
<1> DEFINE n == Len(sheet)
           s == [k \in 1..n |-> IF sheet[k].key \in keys THEN Manual(sheet[k]) ELSE 0]
<1>1. n \in Nat /\ DOMAIN sheet = 1..n /\ \A k \in 1..n : sheet[k] \in Row
  OBVIOUS
<1>2. ManualOf(sheet, keys) = Total(s)
  BY <1>1 DEF ManualOf
<1> HIDE DEF n
<1>3. \A row \in Row : Manual(row) \in Nat
  BY DEF Row, Manual
<1>4. \A k \in 1..n : s[k] \in Nat
  BY <1>1, <1>3
<1>5. s \in Seq(Int) /\ Len(s) = n /\ \A k \in 1..Len(s) : s[k] >= 0
  BY <1>1, <1>4
<1> HIDE DEF s
<1>6. Total(s) \in Nat
  BY <1>5, TotalNat
<1>7. QED BY <1>2, <1>6

\* The first and the last of stretches that do not touch.
LEMMA Ends ==
  ASSUME NEW X \in SUBSET Intervals, NEW m \in Seq(X), Separate(m), m # << >>
  PROVE  /\ m[1] \in X /\ Last(m) \in X /\ m[1][1] <= Last(m)[2]
         /\ m[1][1] \in Int /\ Last(m)[2] \in Int
<1> DEFINE n == Len(m)
<1>1. n \in Nat /\ n # 0 /\ 1 \in 1..n /\ n \in 1..n /\ \A k \in 1..n : m[k] \in X
  OBVIOUS
<1>2. Last(m) = m[n]
  BY DEF Last
<1>3. n # 1 => m[1][2] < m[n][1]
  <2>1. \A k, l \in 1..n : k < l => m[k][2] < m[l][1]
    BY DEF Separate
  <2> HIDE DEF n
  <2>2. n # 1 => 1 < n
    BY <1>1
  <2>3. QED BY <1>1, <2>1, <2>2
<1> HIDE DEF n
<1>4. m[1] \in X /\ m[n] \in X
  BY <1>1
<1>5. PICK i, j : i = m[1] /\ j = m[n]
  OBVIOUS
<1>6. /\ i[1] \in Int /\ i[2] \in Int /\ i[1] <= i[2]
      /\ j[1] \in Int /\ j[2] \in Int /\ j[1] <= j[2]
  BY <1>4, <1>5 DEF Intervals, Pairs
<1>7. (n = 1 => i = j) /\ (n # 1 => i[2] < j[1])
  BY <1>3, <1>5
<1>8. i[1] <= j[2]
  BY <1>6, <1>7
<1>9. QED BY <1>2, <1>4, <1>5, <1>6, <1>8

LEMMA SharedType ==
  ASSUME NEW i \in Intervals, NEW j \in Intervals
  PROVE  Shared(i, j) \in Nat
  BY DEF Shared, Greater, Smaller, Intervals, Pairs

LEMMA OverlapType ==
  ASSUME NEW shift \in Shifts, NEW sheet \in Seq(Row)
  PROVE  BreakOverlap(sheet, shift) \in Nat
<1>1. PICK runs, breaks :
        /\ runs = mergeIntervals(IntervalsOf(sheet, shift, {"running"}))
        /\ breaks = mergeIntervals(IntervalsOf(sheet, shift, {"breakShift"}))
  OBVIOUS
<1>2. runs \in Seq(Intervals) /\ breaks \in Seq(Intervals)
  <2>1. /\ IntervalsOf(sheet, shift, {"running"}) \in Seq(Intervals)
        /\ IntervalsOf(sheet, shift, {"breakShift"}) \in Seq(Intervals)
    BY RowsOf
  <2>2. QED BY <1>1, <2>1, Merged
<1> DEFINE n == Len(runs)
           l == Len(breaks)
           T(k) == Total([j \in 1..l |-> Shared(runs[k], breaks[j])])
           t == [k \in 1..n |-> T(k)]
<1>3. /\ n \in Nat /\ DOMAIN runs = 1..n /\ \A k \in 1..n : runs[k] \in Intervals
      /\ l \in Nat /\ DOMAIN breaks = 1..l /\ \A j \in 1..l : breaks[j] \in Intervals
  BY <1>2
<1>4. BreakOverlap(sheet, shift) = Total(t)
  BY <1>1, <1>3 DEF BreakOverlap
<1> HIDE DEF n, l
<1>5. ASSUME NEW k \in 1..n PROVE T(k) \in Nat
  <2> DEFINE s == [j \in 1..l |-> Shared(runs[k], breaks[j])]
  <2>1. \A j \in 1..l : s[j] \in Nat
    BY <1>3, SharedType
  <2>2. s \in Seq(Int) /\ Len(s) = l /\ \A j \in 1..Len(s) : s[j] >= 0
    BY <1>3, <2>1
  <2> HIDE DEF s
  <2>3. Total(s) \in Nat
    BY <2>2, TotalNat
  <2>4. QED BY <2>3 DEF s
<1> HIDE DEF T
<1>6. t \in Seq(Int) /\ Len(t) = n /\ \A k \in 1..Len(t) : t[k] >= 0
  BY <1>3, <1>5
<1> HIDE DEF t
<1>7. Total(t) \in Nat
  BY <1>6, TotalNat
<1>8. QED BY <1>4, <1>7

-----------------------------------------------------------------------------
(* The figures of a sheet.                                                 *)

FigureSet == [duration : Nat, planned : Nat, unplanned : Nat, production : Nat,
              run : Nat, pa2 : Nat]

LEMMA CalculatedFigures ==
  ASSUME NEW shift \in Shifts, NEW sheet \in Seq(Row)
  PROVE  calculateOeeTimeMetrics(sheet, shift) \in FigureSet
<1>1. PICK all : all = mergeIntervals(IntervalsOf(sheet, shift, RowKeys))
  OBVIOUS
<1>2. \A keys : IntervalsOf(sheet, shift, keys) \in Seq(Intervals)
  BY RowsOf
<1>3. all \in Seq(Intervals) /\ Separate(all)
  BY <1>1, <1>2, Merged
<1>4. all # << >> => /\ all[1][1] \in Int /\ Last(all)[2] \in Int
                     /\ all[1][1] <= Last(all)[2]
  <2>1. PICK X : X = Intervals
    OBVIOUS
  <2>2. QED BY <1>3, <2>1, Ends
<1>5. PICK span, manual, length, planned, losses, production, w :
        /\ span = IF all = << >> THEN 0 ELSE Last(all)[2] - all[1][1]
        /\ manual = ManualOf(sheet, RowKeys)
        /\ length = Greater(1, IF span + manual > 0 THEN span + manual ELSE Planned)
        /\ planned = duration(IntervalsOf(sheet, shift, PlannedKeys))
                       + ManualOf(sheet, PlannedKeys)
        /\ losses = duration(IntervalsOf(sheet, shift, LossKeys))
                      + ManualOf(sheet, LossKeys)
        /\ production = Greater(0, length - planned)
        /\ w = Windows[shift]
  OBVIOUS
<1>6. \A keys : duration(IntervalsOf(sheet, shift, keys)) \in Nat
                /\ ManualOf(sheet, keys) \in Nat
  <2>1. ASSUME NEW s \in Seq(Intervals) PROVE duration(s) \in Nat
    BY DurationCounts
  <2>2. \A keys : ManualOf(sheet, keys) \in Nat
    BY ManualType
  <2>3. QED BY <1>2, <2>1, <2>2
<1>7. w[1] \in Nat /\ w[2] \in Nat /\ w[1] <= w[2] /\ Planned \in Nat
  BY <1>5, WindowOf, SheetConstants
<1>8. span \in Nat /\ manual \in Nat
  <2>1. manual \in Nat
    BY <1>5, <1>6
  <2>2. CASE all # << >>
    <3>1. PICK from, to : from = all[1][1] /\ to = Last(all)[2]
      OBVIOUS
    <3>2. from \in Int /\ to \in Int /\ from <= to /\ span = to - from
      BY <1>4, <1>5, <2>2, <3>1
    <3>3. QED BY <2>1, <3>2
  <2>3. CASE all = << >>
    BY <1>5, <2>1, <2>3
  <2>4. QED BY <2>2, <2>3
<1>9. length \in Nat /\ planned \in Nat /\ losses \in Nat
  <2>1. planned \in Nat /\ losses \in Nat
    <3>1. ASSUME NEW a \in Nat, NEW b \in Nat PROVE a + b \in Nat
      OBVIOUS
    <3>2. QED BY <1>5, <1>6, <3>1
  <2>2. length \in Nat
    <3>1. PICK sum : sum = span + manual
      OBVIOUS
    <3>2. sum \in Nat /\ length = Greater(1, IF sum > 0 THEN sum ELSE Planned)
      BY <1>5, <1>8, <3>1
    <3>3. QED BY <1>7, <3>2 DEF Greater
  <2>3. QED BY <2>1, <2>2
<1>10. production \in Nat
  BY <1>5, <1>9 DEF Greater
<1>11. RunTime(sheet, shift) \in Nat /\ Greater(0, production - losses) \in Nat
  <2>1. BreakOverlap(sheet, shift) \in Nat
    BY OverlapType
  <2>2. QED BY <1>6, <1>9, <1>10, <2>1 DEF RunTime, Greater
<1>12. (IF all # << >>
        THEN Greater(w[2], Last(all)[2]) - Smaller(w[1], all[1][1]) + manual
        ELSE Greater(w[2] - w[1], length)) \in Nat
  <2>1. Greater(w[2] - w[1], length) \in Nat
    BY <1>7, <1>9 DEF Greater
  <2>2. CASE all # << >>
    <3>1. PICK from, to : from = all[1][1] /\ to = Last(all)[2]
      OBVIOUS
    <3>2. from \in Int /\ to \in Int /\ from <= to
      BY <1>4, <2>2, <3>1
    <3>3. Greater(w[2], to) - Smaller(w[1], from) + manual \in Nat
      BY <1>7, <1>8, <3>2 DEF Greater, Smaller
    <3>4. QED BY <2>2, <3>1, <3>3
  <2>3. QED BY <2>1, <2>2
<1>13. PICK run, pa2 :
         /\ run \in Nat /\ pa2 \in Nat
         /\ calculateOeeTimeMetrics(sheet, shift)
              = [duration |-> length, planned |-> planned, unplanned |-> losses,
                 production |-> production, run |-> run, pa2 |-> pa2]
  <2>1. PICK run : run = calculateOeeTimeMetrics(sheet, shift).run
    OBVIOUS
  <2>2. PICK pa2 : pa2 = IF all # << >>
                         THEN Greater(w[2], Last(all)[2]) - Smaller(w[1], all[1][1]) + manual
                         ELSE Greater(w[2] - w[1], length)
    OBVIOUS
  <2>3. PICK has : has = \E k \in DOMAIN sheet :
                           /\ sheet[k].key = "running"
                           /\ sheet[k].times # << >> \/ sheet[k].minutes # Absent
    OBVIOUS
  <2>4. PICK r : r = IF has THEN RunTime(sheet, shift) ELSE Greater(0, production - losses)
    OBVIOUS
  <2>5. calculateOeeTimeMetrics(sheet, shift)
          = [duration |-> length, planned |-> planned, unplanned |-> losses,
             production |-> production, run |-> r, pa2 |-> pa2]
    BY <1>1, <1>5, <2>2, <2>3, <2>4 DEF calculateOeeTimeMetrics
  <2>6. r \in Nat /\ pa2 \in Nat
    BY <1>11, <1>12, <2>2, <2>4
  <2>7. QED BY <2>5, <2>6
<1>14. QED BY <1>9, <1>10, <1>13 DEF FigureSet

LEMMA FiguresSent ==
  ASSUME NEW shift \in Shifts, NEW f \in Figures,
         NEW timed, Acceptable(SentFigures(f, shift), timed)
  PROVE  SentFigures(f, shift) \in FigureSet
<1>1. PICK m, w : m = SentFigures(f, shift) /\ w = Windows[shift]
  OBVIOUS
<1>2. /\ f.duration \in Int /\ f.planned \in Nat /\ f.unplanned \in Nat
      /\ f.override \in Int \cup {Absent}
      /\ w[1] \in Nat /\ w[2] \in Nat
  BY <1>1, WindowOf, SheetConstants
<1>3. m = [duration |-> f.duration, planned |-> f.planned, unplanned |-> f.unplanned,
           production |-> f.duration - f.planned,
           run |-> IF f.override # Absent THEN f.override
                   ELSE Greater(0, f.duration - f.planned - f.unplanned),
           pa2 |-> Greater(w[2] - w[1], f.duration)]
  BY <1>1 DEF SentFigures
<1>4. f.planned <= f.duration /\ m.run >= 0
  BY <1>1, <1>3 DEF Acceptable
<1>5. f.duration \in Nat /\ f.duration - f.planned \in Nat
  BY <1>2, <1>4
<1>6. m.run \in Nat
  BY <1>2, <1>3, <1>4 DEF Greater
<1>7. Greater(w[2] - w[1], f.duration) \in Nat
  BY <1>2, <1>5 DEF Greater
<1>8. QED BY <1>1, <1>2, <1>3, <1>5, <1>6, <1>7 DEF FigureSet

\* What is stored are the figures of a sheet: those of its times, or those sent.
Stored == [date : Dates, shift : Shifts, sheet : Sheets, duration : Nat,
           planned : Nat, unplanned : Nat, production : Nat, run : Nat, pa2 : Nat,
           voided : BOOLEAN]

LEMMA RecordsAreRows ==
  ASSUME NEW r \in SheetRecords
  PROVE  /\ r \in Stored /\ ~r.voided
         /\ HasTimeEntries(r.sheet)
              => r.run = calculateOeeTimeMetrics(r.sheet, r.shift).run
<1>1. PICK s \in Sheets \X Shifts \X Dates :
        r \in {SheetRecord(s[1], s[2], s[3], m) : m \in Metrics(s[1], s[2])}
  BY DEF SheetRecords
<1>2. PICK sheet \in Sheets, shift \in Shifts, date \in Dates :
        \E m \in Metrics(sheet, shift) : r = SheetRecord(sheet, shift, date, m)
  BY <1>1
<1>3. PICK m \in Metrics(sheet, shift) : r = SheetRecord(sheet, shift, date, m)
  BY <1>2
<1>4. /\ Acceptable(m, HasTimeEntries(sheet))
      /\ HasTimeEntries(sheet) => m = calculateOeeTimeMetrics(sheet, shift)
      /\ ~HasTimeEntries(sheet) => \E f \in Figures : m = SentFigures(f, shift)
  BY DEF Metrics
<1>5. sheet \in Seq(Row)
  BY SheetConstants
<1>6. m \in FigureSet
  <2>1. CASE HasTimeEntries(sheet)
    BY <1>4, <1>5, <2>1, CalculatedFigures
  <2>2. CASE ~HasTimeEntries(sheet)
    BY <1>4, <2>2, FiguresSent
  <2>3. QED BY <2>1, <2>2
<1>7. r = [date |-> date, shift |-> shift, sheet |-> sheet, duration |-> m.duration,
           planned |-> m.planned, unplanned |-> m.unplanned, production |-> m.production,
           run |-> m.run, pa2 |-> m.pa2, voided |-> FALSE]
  BY <1>3 DEF SheetRecord
<1>8. /\ m.duration \in Nat /\ m.planned \in Nat /\ m.unplanned \in Nat
      /\ m.production \in Nat /\ m.run \in Nat /\ m.pa2 \in Nat
  BY <1>6 DEF FigureSet
<1>9. QED BY <1>4, <1>7, <1>8 DEF Stored


-----------------------------------------------------------------------------
(* The time line: where a machine ran.                                     *)

LEMMA RunOf ==
  ASSUME NEW r \in Stored, TimedRun(r)
  PROVE  LET ran == Minutes(IntervalsOf(r.sheet, r.shift, {"running"}))
                      \ Minutes(IntervalsOf(r.sheet, r.shift, {"breakShift"}))
         IN  /\ buildRun(r) \in Seq(Intervals)
             /\ Minutes(buildRun(r)) = {r.date * Day + m : m \in ran}
             /\ \A m \in ran : /\ m \in Int /\ 2 * m >= Middle(r.shift) - 2 * Day
                               /\ 2 * m < Middle(r.shift) + 2 * Day
<1>1. PICK running, breaks :
        /\ running = IntervalsOf(r.sheet, r.shift, {"running"})
        /\ breaks = IntervalsOf(r.sheet, r.shift, {"breakShift"})
  OBVIOUS
<1>2. r.shift \in Shifts /\ r.sheet \in Seq(Row) /\ r.date \in Int
      /\ Day \in Nat /\ Day \in Int
  <2>1. r.shift \in Shifts /\ r.sheet \in Sheets /\ r.date \in Dates
    BY DEF Stored
  <2>2. Sheets \subseteq Seq(Row) /\ Dates \subseteq Int /\ Day \in Nat
    BY SheetConstants
  <2>3. Day \in Int
    BY <2>2
  <2>4. QED BY <2>1, <2>2, <2>3
<1>3. /\ running \in Seq(Intervals) /\ breaks \in Seq(Intervals)
      /\ running \in Seq(Around(r.shift))
  BY <1>1, <1>2, RowsOf
<1>4. PICK rest : rest = subtractIntervals(running, breaks)
  OBVIOUS
<1>5. rest \in Seq(Intervals) /\ Minutes(rest) = Minutes(running) \ Minutes(breaks)
  BY <1>3, <1>4, Subtracted
<1> DEFINE moved == Absolute(rest, r.date)
<1>6. buildRun(r) = moved
  BY <1>1, <1>4 DEF buildRun, TimedRun
<1>7. /\ moved \in Seq(Intervals)
      /\ Minutes(moved) = {r.date * Day + m : m \in Minutes(rest)}
  <2>1. PICK d \in Int : d = r.date
    BY <1>2
  <2>2. /\ Absolute(rest, d) \in Seq(Intervals)
        /\ Minutes(Absolute(rest, d)) = {d * Day + m : m \in Minutes(rest)}
    BY <1>2, <1>5, Moved
  <2>3. QED BY <2>1, <2>2
<1>8. ASSUME NEW m \in Minutes(running)
      PROVE  /\ m \in Int /\ 2 * m >= Middle(r.shift) - 2 * Day
             /\ 2 * m < Middle(r.shift) + 2 * Day
  <2>1. running \in Seq(Pairs)
    BY <1>3 DEF Intervals
  <2>2. PICK k \in 1..Len(running) : m \in Span(running[k])
    BY <2>1, MinutesOf
  <2>3. PICK i : i = running[k]
    OBVIOUS
  <2>4. i \in Around(r.shift)
    BY <1>3, <2>3
  <2>5. i[1] \in Int /\ i[2] \in Int /\ 2 * i[1] >= Middle(r.shift) - 2 * Day
        /\ 2 * i[2] <= Middle(r.shift) + 2 * Day
    BY <2>4 DEF Around, Intervals, Pairs
  <2>6. m \in i[1] .. (i[2] - 1)
    BY <2>2, <2>3 DEF Span
  <2>7. Middle(r.shift) \in Nat
    BY <1>2, WindowOf
  <2>8. PICK a, b, c, D : a = i[1] /\ b = i[2] /\ c = Middle(r.shift) /\ D = Day
    OBVIOUS
  <2>9. /\ a \in Int /\ b \in Int /\ c \in Nat /\ D \in Nat /\ m \in a .. (b - 1)
        /\ 2 * a >= c - 2 * D /\ 2 * b <= c + 2 * D
    BY <1>2, <2>5, <2>6, <2>7, <2>8
  <2>10. m \in Int /\ 2 * m >= c - 2 * D /\ 2 * m < c + 2 * D
    BY <2>9
  <2>11. QED BY <2>8, <2>10
<1> HIDE DEF moved
<1>9. QED BY <1>1, <1>5, <1>6, <1>7, <1>8

\* The days of two records that share a minute are no more than two apart.
LEMMA FewDays ==
  ASSUME NEW D \in Nat, D > 0, NEW j \in Int, NEW k \in Int, NEW m \in Int, NEW n \in Int,
         NEW a \in Nat, NEW b \in Nat, j * D + m = k * D + n, a - b <= 2 * D,
         2 * n < a + 2 * D, 2 * m >= b - 2 * D
  PROVE  j - k <= 2
<1>1. PICK x, y : x = j * D /\ y = k * D
  OBVIOUS
<1>2. x \in Int /\ y \in Int
  BY <1>1
<1>3. x - y < 3 * D
  BY <1>1, <1>2
<1>4. ASSUME j - k > 2 PROVE FALSE
  <2>1. PICK e \in Nat : j = k + 3 + e
    <3>1. j - k - 3 \in Nat
      BY <1>4
    <3>2. QED BY <3>1
  <2>2. x = y + 3 * D + e * D
    BY <1>1, <2>1
  <2>3. e * D \in Nat
    OBVIOUS
  <2>4. QED BY <1>2, <1>3, <2>2, <2>3
<1>5. QED BY <1>4

\* What the check of a sheet is for: that none that is left out of the
\* comparison, or compared and let pass, has the machine running at the time.
LEMMA SharedMinutes ==
  ASSUME NEW r \in Stored, NEW other \in Stored, TimedRun(r),
         TimedRun(other), ~other.voided,
         NEW x \in Minutes(buildRun(r)), x \in Minutes(buildRun(other))
  PROVE  Overlaps(r, other)
<1>1. PICK run, old : run = buildRun(r) /\ old = buildRun(other)
  OBVIOUS
<1>2. run \in Seq(Intervals) /\ old \in Seq(Intervals)
  BY <1>1, RunOf
<1>3. r.date \in Int /\ other.date \in Int /\ r.shift \in Shifts /\ other.shift \in Shifts
  BY SheetConstants DEF Stored
<1>4. other.date \in (r.date - 2) .. (r.date + 2)
  <2>1. PICK m \in Int : /\ x = r.date * Day + m /\ 2 * m >= Middle(r.shift) - 2 * Day
                         /\ 2 * m < Middle(r.shift) + 2 * Day
    BY RunOf
  <2>2. PICK n \in Int : /\ x = other.date * Day + n
                         /\ 2 * n >= Middle(other.shift) - 2 * Day
                         /\ 2 * n < Middle(other.shift) + 2 * Day
    BY RunOf
  <2>3. /\ Middle(r.shift) \in Nat /\ Middle(other.shift) \in Nat
        /\ Day \in Nat /\ Day > 0
    BY <1>3, WindowOf
  <2>4. /\ Middle(r.shift) - Middle(other.shift) <= 2 * Day
        /\ Middle(other.shift) - Middle(r.shift) <= 2 * Day
    BY <1>3, SheetConstants DEF Middle
  <2>5. r.date * Day + m = other.date * Day + n
    BY <2>1, <2>2
  <2>6. r.date - other.date <= 2
    BY <1>3, <2>1, <2>2, <2>3, <2>4, <2>5, FewDays
  <2>7. other.date - r.date <= 2
    BY <1>3, <2>1, <2>2, <2>3, <2>4, <2>5, FewDays
  <2>8. QED BY <1>3, <2>6, <2>7
<1>5. PICK k \in 1..Len(run) : x \in Span(run[k])
  <2>1. run \in Seq(Pairs)
    BY <1>2 DEF Intervals
  <2>2. QED BY <1>1, <2>1, MinutesOf
<1>6. PICK both : both = intersectIntervals(old, run[k])
  OBVIOUS
<1>7. run[k] \in Intervals
  BY <1>2
<1>8. both \in Seq(Intervals) /\ x \in Minutes(both)
  BY <1>1, <1>2, <1>5, <1>6, <1>7, Intersected
<1>9. duration(both) \in Nat /\ duration(both) # 0
  <2>1. IsFiniteSet(Minutes(both)) /\ duration(both) = Cardinality(Minutes(both))
        /\ duration(both) \in Nat
    BY <1>8, DurationCounts
  <2>2. QED BY <1>8, <2>1, FS_EmptySet
<1>10. k \in DOMAIN run
  BY <1>2
<1>11. \E j \in DOMAIN buildRun(r) :
         duration(intersectIntervals(buildRun(other), buildRun(r)[j])) > 0
  <2>1. duration(intersectIntervals(buildRun(other), buildRun(r)[k])) > 0
    BY <1>1, <1>6, <1>9
  <2>2. QED BY <1>1, <1>10, <2>1
<1>12. QED BY <1>4, <1>11 DEF Overlaps

-----------------------------------------------------------------------------
(* Sums over finite sets.                                                  *)

SumOf(f, S) == MapThenSumSet(LAMBDA x : f[x], S)

\* The element that is summed last, and the equation of the sum.
Pick(s) == CHOOSE x \in s : TRUE
NextSum(f, g, s) == IF s = {} THEN 0 ELSE f[Pick(s)] + g[s \ {Pick(s)}]
Defines(f, g, S) == g = [s \in SUBSET S |-> NextSum(f, g, s)]

LEMMA PickOne == \A s : s # {} => Pick(s) \in s
  BY DEF Pick

\* Functions that obey the equation of the sum agree wherever both do.
LEMMA SumUnique ==
  ASSUME NEW f, NEW S, IsFiniteSet(S), NEW T, NEW g, NEW h,
         Defines(f, g, S), Defines(f, h, T), S \subseteq T
  PROVE  \A s \in SUBSET S : g[s] = h[s]
<1> DEFINE Bad == {s \in SUBSET S : g[s] # h[s]}
<1> SUFFICES ASSUME Bad # {} PROVE FALSE
  OBVIOUS
<1>1. PICK s \in Bad : \A u \in Bad : u \subseteq s => u = s
  <2> HIDE DEF Bad
  <2>1. Bad \in SUBSET SUBSET S
    BY DEF Bad
  <2>2. QED BY <2>1, LeastSubset
<1>2. g[s] = NextSum(f, g, s) /\ h[s] = NextSum(f, h, s)
  BY DEF Defines
<1>3. s # {}
  BY <1>2 DEF NextSum
<1>4. Pick(s) \in s
  BY <1>3, PickOne
<1>5. s \ {Pick(s)} \notin Bad /\ s \ {Pick(s)} \in SUBSET S
  BY <1>1, <1>4
<1>6. QED BY <1>2, <1>5 DEF NextSum

\* There is a function that obeys the equation.
LEMMA SumExists ==
  ASSUME NEW f, NEW S, IsFiniteSet(S)
  PROVE  \E g : Defines(f, g, S)
<1> DEFINE Bad == {T \in SUBSET S : ~ \E g : Defines(f, g, T)}
<1> SUFFICES ASSUME Bad # {} PROVE FALSE
  OBVIOUS
<1>1. PICK T \in Bad : \A U \in Bad : U \subseteq T => U = T
  <2> HIDE DEF Bad
  <2>1. Bad \in SUBSET SUBSET S
    BY DEF Bad
  <2>2. QED BY <2>1, LeastSubset
<1> DEFINE G(U) == CHOOSE g : Defines(f, g, U)
<1>2. ASSUME NEW U \in SUBSET T, U # T PROVE Defines(f, G(U), U)
  <2>1. U \notin Bad /\ U \in SUBSET S
    BY <1>1, <1>2
  <2>2. QED BY <2>1
<1>3. ASSUME NEW U \in SUBSET T, U # T, NEW V \in SUBSET U
      PROVE  G(V)[V] = G(U)[V]
  <2>1. V \in SUBSET T /\ V # T /\ IsFiniteSet(V)
    BY <1>1, <1>3, FS_Subset
  <2>2. Defines(f, G(U), U) /\ Defines(f, G(V), V)
    BY <1>2, <1>3, <2>1
  <2> HIDE DEF G
  <2>3. QED BY <2>1, <2>2, SumUnique
<1>4. ASSUME NEW U \in SUBSET T, U # T
      PROVE  G(U)[U] = NextSum(f, G(U), U)
  <2>1. Defines(f, G(U), U)
    BY <1>2, <1>4
  <2> HIDE DEF G
  <2>2. QED BY <2>1 DEF Defines
<1> HIDE DEF G
<1> DEFINE h == [U \in SUBSET T |->
                   IF U = T THEN IF T = {} THEN 0
                                 ELSE f[Pick(T)] + G(T \ {Pick(T)})[T \ {Pick(T)}]
                   ELSE G(U)[U]]
<1>5. ASSUME NEW U \in SUBSET T PROVE h[U] = NextSum(f, h, U)
  <2>1. CASE U = {}
    BY <1>4, <2>1 DEF NextSum
  <2>2. CASE U # {} /\ U = T
    <3>1. T \ {Pick(T)} \in SUBSET T /\ T \ {Pick(T)} # T
      BY <2>2, PickOne
    <3>2. QED BY <2>2, <3>1 DEF NextSum
  <2>3. CASE U # {} /\ U # T
    <3> DEFINE V == U \ {Pick(U)}
    <3>1. V \in SUBSET U /\ V # U /\ V \in SUBSET T /\ V # T
      BY <2>3, PickOne
    <3>2. h[U] = f[Pick(U)] + G(U)[V]
      BY <1>4, <2>3 DEF NextSum
    <3>3. G(U)[V] = h[V]
      BY <1>3, <2>3, <3>1
    <3>4. QED BY <2>3, <3>2, <3>3 DEF NextSum
  <2>4. QED BY <2>1, <2>2, <2>3
<1>6. Defines(f, h, T)
  <2>1. h = [U \in SUBSET T |-> h[U]]
    OBVIOUS
  <2> HIDE DEF h
  <2>2. QED BY <1>5, <2>1 DEF Defines
<1>7. QED BY <1>1, <1>6

\* The sum is its value.
LEMMA SumDefined ==
  ASSUME NEW f, NEW S, IsFiniteSet(S)
  PROVE  \E g : Defines(f, g, S) /\ SumOf(f, S) = g[S]
<1> DEFINE g == CHOOSE g : Defines(f, g, S)
<1>1. Defines(f, g, S)
  BY SumExists
<1>2. SumOf(f, S) = g[S]
  BY DEF SumOf, MapThenSumSet, MapThenFoldSet, Defines, NextSum, Pick
<1>3. QED BY <1>1, <1>2

LEMMA SumEmpty == \A f : SumOf(f, {}) = 0
  BY DEF SumOf, MapThenSumSet, MapThenFoldSet

LEMMA SumPick ==
  ASSUME NEW f, NEW S, IsFiniteSet(S), S # {}
  PROVE  SumOf(f, S) = f[Pick(S)] + SumOf(f, S \ {Pick(S)})
<1> DEFINE R == S \ {Pick(S)}
<1>1. IsFiniteSet(R) /\ R \subseteq S
  BY FS_Subset
<1>2. PICK g : Defines(f, g, S) /\ SumOf(f, S) = g[S]
  BY SumDefined
<1>3. PICK h : Defines(f, h, R) /\ SumOf(f, R) = h[R]
  BY <1>1, SumDefined
<1>4. h[R] = g[R]
  <2> HIDE DEF R
  <2>1. \A s \in SUBSET R : h[s] = g[s]
    BY <1>1, <1>2, <1>3, SumUnique
  <2>2. QED BY <2>1
<1>5. g[S] = NextSum(f, g, S)
  BY <1>2 DEF Defines
<1>6. QED BY <1>2, <1>3, <1>4, <1>5 DEF NextSum

LEMMA SumType ==
  ASSUME NEW f, NEW S, IsFiniteSet(S), \A x \in S : f[x] \in Nat
  PROVE  SumOf(f, S) \in Nat
<1> DEFINE Bad == {T \in SUBSET S : SumOf(f, T) \notin Nat}
<1> SUFFICES ASSUME Bad # {} PROVE FALSE
  OBVIOUS
<1>1. PICK T \in Bad : \A U \in Bad : U \subseteq T => U = T
  <2> HIDE DEF Bad
  <2>1. Bad \in SUBSET SUBSET S
    BY DEF Bad
  <2>2. QED BY <2>1, LeastSubset
<1>2. T # {}
  BY SumEmpty
<1>3. Pick(T) \in T
  BY <1>2, PickOne
<1>4. SumOf(f, T \ {Pick(T)}) \in Nat
  BY <1>1, <1>3
<1>5. IsFiniteSet(T)
  BY FS_Subset
<1>6. QED BY <1>2, <1>3, <1>4, <1>5, SumPick

\* Any element may be summed last.
LEMMA SumRemove ==
  ASSUME NEW f, NEW S, IsFiniteSet(S), \A x \in S : f[x] \in Nat, NEW y \in S
  PROVE  SumOf(f, S) = f[y] + SumOf(f, S \ {y})
<1> DEFINE Bad == {T \in SUBSET S :
                     \E x \in T : SumOf(f, T) # f[x] + SumOf(f, T \ {x})}
<1> SUFFICES ASSUME Bad # {} PROVE FALSE
  OBVIOUS
<1>1. PICK T \in Bad : \A U \in Bad : U \subseteq T => U = T
  <2> HIDE DEF Bad
  <2>1. Bad \in SUBSET SUBSET S
    BY DEF Bad
  <2>2. QED BY <2>1, LeastSubset
<1>2. PICK x \in T : SumOf(f, T) # f[x] + SumOf(f, T \ {x})
  OBVIOUS
<1> DEFINE p == Pick(T)
<1>3. p \in T /\ IsFiniteSet(T)
  BY PickOne, FS_Subset
<1>4. SumOf(f, T) = f[p] + SumOf(f, T \ {p})
  BY <1>3, SumPick
<1>5. x # p
  BY <1>2, <1>4
<1> HIDE DEF p
<1>6. T \ {x} \in SUBSET S /\ T \ {p} \in SUBSET S /\ T \ {x, p} \in SUBSET S
  OBVIOUS
<1>7. SumOf(f, T \ {x}) = f[p] + SumOf(f, T \ {x, p})
  <2>1. T \ {x} \notin Bad
    BY <1>1, <1>6
  <2>2. p \in T \ {x} /\ (T \ {x}) \ {p} = T \ {x, p}
    BY <1>3, <1>5
  <2>3. QED BY <1>6, <2>1, <2>2
<1>8. SumOf(f, T \ {p}) = f[x] + SumOf(f, T \ {x, p})
  <2>1. T \ {p} \notin Bad
    BY <1>1, <1>3, <1>6
  <2>2. x \in T \ {p} /\ (T \ {p}) \ {x} = T \ {x, p}
    BY <1>3, <1>5
  <2>3. QED BY <1>6, <2>1, <2>2
<1>9. SumOf(f, T \ {x, p}) \in Nat /\ f[x] \in Nat /\ f[p] \in Nat
  <2>1. IsFiniteSet(T \ {x, p})
    BY <1>6, FS_Subset
  <2>2. QED BY <1>3, <2>1, SumType
<1>10. QED BY <1>2, <1>4, <1>7, <1>8, <1>9

\* More summands, and greater ones, make no smaller sum.
LEMMA SumMonotone ==
  ASSUME NEW f, NEW g, NEW S, NEW T, IsFiniteSet(T), S \subseteq T,
         \A x \in T : f[x] \in Nat /\ g[x] \in Nat,
         \A x \in S : f[x] <= g[x]
  PROVE  SumOf(f, S) <= SumOf(g, T)
<1> DEFINE Bad == {V \in SUBSET T : ~(SumOf(f, V \cap S) <= SumOf(g, V))}
<1>1. T \cap S = S
  OBVIOUS
<1> SUFFICES ASSUME Bad # {} PROVE FALSE
  BY <1>1
<1>2. PICK V \in Bad : \A U \in Bad : U \subseteq V => U = V
  <2> HIDE DEF Bad
  <2>1. Bad \in SUBSET SUBSET T
    BY DEF Bad
  <2>2. QED BY <2>1, LeastSubset
<1>3. V # {}
  <2>1. CASE V = {}
    <3>1. V \cap S = {}
      BY <2>1
    <3>2. QED BY <2>1, <3>1, SumEmpty
  <2>2. QED BY <2>1
<1>4. PICK x \in V : TRUE
  BY <1>3
<1> DEFINE W == V \ {x}
<1>5. SumOf(f, W \cap S) <= SumOf(g, W)
  <2>1. W \notin Bad /\ W \in SUBSET T
    BY <1>2, <1>4
  <2>2. QED BY <2>1
<1>6. IsFiniteSet(V) /\ IsFiniteSet(V \cap S) /\ IsFiniteSet(W) /\ IsFiniteSet(W \cap S)
  BY FS_Subset
<1>7. SumOf(g, V) = g[x] + SumOf(g, W) /\ SumOf(g, W) \in Nat
      /\ SumOf(f, W \cap S) \in Nat
  BY <1>6, SumRemove, SumType
<1>8. CASE x \in S
  <2>1. (V \cap S) \ {x} = W \cap S
    OBVIOUS
  <2>2. SumOf(f, V \cap S) = f[x] + SumOf(f, W \cap S)
    BY <1>6, <1>8, <2>1, SumRemove
  <2>3. QED BY <1>5, <1>7, <1>8, <2>2
<1>9. CASE x \notin S
  <2>1. V \cap S = W \cap S
    BY <1>9
  <2>2. QED BY <1>5, <1>7, <2>1
<1>10. QED BY <1>8, <1>9

LEMMA SumSame ==
  ASSUME NEW f, NEW g, NEW S, IsFiniteSet(S),
         \A x \in S : f[x] \in Nat /\ f[x] = g[x]
  PROVE  SumOf(f, S) = SumOf(g, S)
<1>1. SumOf(f, S) <= SumOf(g, S) /\ SumOf(g, S) <= SumOf(f, S)
  BY SumMonotone
<1>2. SumOf(f, S) \in Nat /\ SumOf(g, S) \in Nat
  BY SumType
<1>3. QED BY <1>1, <1>2

LEMMA SumAdd ==
  ASSUME NEW f, NEW S, IsFiniteSet(S), NEW y, y \notin S,
         \A x \in S \cup {y} : f[x] \in Nat
  PROVE  SumOf(f, S \cup {y}) = f[y] + SumOf(f, S)
<1>1. IsFiniteSet(S \cup {y}) /\ (S \cup {y}) \ {y} = S
  BY FS_AddElement
<1>2. QED BY <1>1, SumRemove

LEMMA SumZero ==
  ASSUME NEW f, NEW S, IsFiniteSet(S), \A x \in S : f[x] = 0
  PROVE  SumOf(f, S) = 0
<1> DEFINE Bad == {T \in SUBSET S : SumOf(f, T) # 0}
<1> SUFFICES ASSUME Bad # {} PROVE FALSE
  OBVIOUS
<1>1. PICK T \in Bad : \A U \in Bad : U \subseteq T => U = T
  <2> HIDE DEF Bad
  <2>1. Bad \in SUBSET SUBSET S
    BY DEF Bad
  <2>2. QED BY <2>1, LeastSubset
<1>2. T # {} /\ IsFiniteSet(T)
  BY SumEmpty, FS_Subset
<1>3. Pick(T) \in T
  BY <1>2, PickOne
<1>4. SumOf(f, T \ {Pick(T)}) = 0
  BY <1>1, <1>3
<1>5. QED BY <1>2, <1>3, <1>4, SumPick

\* What the records add to the operating hours.
Gains(rows) == [i \in DOMAIN rows |-> AddedHours(rows[i].run)]

LEMMA HoursAreASum ==
  ASSUME NEW rows, IsFiniteSet(DOMAIN rows)
  PROVE  HoursOf(rows) = SumOf(Gains(rows), DOMAIN rows)
<1> DEFINE S == DOMAIN rows
           f == Gains(rows)
           Hours(g) == g = [s \in SUBSET S |->
                              IF s = {} THEN 0
                              ELSE AddedHours(rows[Pick(s)].run) + g[s \ {Pick(s)}]]
           total == CHOOSE g : Hours(g)
<1>1. HoursOf(rows) = total[S]
  BY DEF HoursOf, MapThenSumSet, MapThenFoldSet, Pick
<1>2. \A s \in SUBSET S : s # {} => f[Pick(s)] = AddedHours(rows[Pick(s)].run)
  BY PickOne DEF Gains
<1>3. \A g : Hours(g) <=> Defines(f, g, S)
  <2> HIDE DEF f
  <2>1. ASSUME NEW g
        PROVE  [s \in SUBSET S |-> IF s = {} THEN 0
                                   ELSE AddedHours(rows[Pick(s)].run) + g[s \ {Pick(s)}]]
                 = [s \in SUBSET S |-> NextSum(f, g, s)]
    BY <1>2 DEF NextSum
  <2>2. QED BY <2>1 DEF Defines
<1>4. PICK h : Defines(f, h, S) /\ SumOf(f, S) = h[S]
  BY SumDefined
<1> HIDE DEF f, S, Hours
<1>5. Hours(total)
  BY <1>3, <1>4
<1>6. Defines(f, total, S)
  BY <1>3, <1>5
<1>7. total[S] = h[S]
  BY <1>4, <1>6, SumUnique DEF S
<1>8. QED BY <1>1, <1>4, <1>7 DEF S, f

LEMMA GainType ==
  ASSUME HourMinutes \in Nat \ {0}, NEW run \in Nat
  PROVE  AddedHours(run) \in Nat
<1>1. PICK a, b : a = 200 * run + HourMinutes /\ b = 2 * HourMinutes
  OBVIOUS
<1>2. a \in Nat /\ b \in Nat /\ b > 0
  BY <1>1
<1>3. a \div b \in Nat
  BY <1>2
<1>4. QED BY <1>1, <1>3 DEF AddedHours

-----------------------------------------------------------------------------
(* The invariant of the transactions: who has locked the machine is the    *)
(* only one between check and commit, so what the sheet was compared with  *)
(* is what there is.                                                       *)

Voided(row) == [row EXCEPT !.voided = TRUE]

\* Records that are stored: one that was made of a sheet, voided or not.
Kept(row) == \E r \in SheetRecords : row = r \/ row = Voided(r)

LEMMA KeptRows ==
  ASSUME NEW row, Kept(row)
  PROVE  /\ row \in Stored /\ (~row.voided => row \in SheetRecords)
         /\ Kept(Voided(row)) /\ Voided(row).voided /\ Voided(row).run = row.run
<1>1. PICK r \in SheetRecords : row = r \/ row = Voided(r)
  BY DEF Kept
<1>2. r \in Stored
  BY RecordsAreRows
<1>3. PICK v : v = Voided(r)
  OBVIOUS
<1>4. v \in Stored /\ v.voided /\ Voided(v) = v /\ v.run = r.run
  BY <1>2, <1>3 DEF Stored, Voided
<1>5. Kept(v)
  BY <1>3 DEF Kept
<1>6. CASE row = r
  BY <1>2, <1>3, <1>4, <1>5, <1>6
<1>7. CASE row = v
  BY <1>2, <1>3, <1>4, <1>5, <1>7
<1>8. QED BY <1>1, <1>3, <1>6, <1>7

\* What a client sends, and how far it got.
Sending(c) == c = [step |-> "idle"]
              \/ c \in [step : {"lock", "check", "commit"}, record : SheetRecords]

SendsOne(c) == c.step \in {"check", "commit"}

Checked(c) ==
  c.step = "commit" /\ TimedRun(c.record)
    => \A i \in DOMAIN records : ~Overlaps(c.record, records[i])

RecordsKept ==
  /\ DOMAIN records \subseteq Ids /\ hours \in Nat
  /\ records = [i \in DOMAIN records |-> records[i]]
  /\ \A i \in DOMAIN records : Kept(records[i])

OneWrites ==
  /\ call = [c \in Operators |-> call[c]] /\ holder \in Operators \cup {Absent}
  /\ \A c \in Operators : /\ Sending(call[c])
                          /\ SendsOne(call[c]) <=> holder = c
                          /\ Checked(call[c])

SheetInv == RecordsKept /\ OneWrites /\ RunsNeverOverlap /\ HoursAddUp

\* The records as they are, with their hours.
LEMMA RecordsStay ==
  ASSUME UNCHANGED <<records, hours>>
  PROVE  (RecordsKept => RecordsKept') /\ (RunsNeverOverlap => RunsNeverOverlap')
         /\ (HoursAddUp => HoursAddUp')
<1>1. RecordsKept => RecordsKept'
  BY DEF RecordsKept
<1>2. RunsNeverOverlap => RunsNeverOverlap'
  BY DEF RunsNeverOverlap, Timed, Live, Run
<1>3. HoursAddUp => HoursAddUp'
  BY DEF HoursAddUp
<1>4. QED BY <1>1, <1>2, <1>3

LEMMA SendingStep ==
  ASSUME NEW c, Sending(c)
  PROVE  /\ c.step # "idle" => c \in [step : {"lock", "check", "commit"},
                                      record : SheetRecords]
         /\ c.step # "idle" => c.record \in SheetRecords
         /\ c.step = "idle" \/ c.step \in {"lock", "check", "commit"}
<1>1. CASE c = [step |-> "idle"]
  BY <1>1
<1>2. CASE c \in [step : {"lock", "check", "commit"}, record : SheetRecords]
  BY <1>2
<1>3. QED BY <1>1, <1>2 DEF Sending

\* A step that stores nothing: the client is at work afterwards if and only if
\* it has the lock, which nobody else has.
LEMMA SheetGoesOn ==
  ASSUME SheetInv, NEW c \in Operators, NEW new, Sending(new),
         call' = [call EXCEPT ![c] = new], UNCHANGED <<records, hours>>,
         holder \in {c, Absent}, holder' = IF SendsOne(new) THEN c ELSE Absent,
         Checked(new)
  PROVE  SheetInv'
<1>1. Absent \notin Operators
  BY SheetConstants
<1>2. \A d \in Operators : call'[d] = IF d = c THEN new ELSE call[d]
  BY DEF SheetInv, OneWrites
<1>3. ASSUME NEW d \in Operators
      PROVE  Sending(call'[d]) /\ (SendsOne(call'[d]) <=> holder' = d) /\ Checked(call'[d])
  <2>1. CASE d = c
    BY <1>1, <1>2, <2>1
  <2>2. CASE d # c
    <3>1. call'[d] = call[d] /\ holder' # d /\ holder # d
      BY <1>1, <1>2, <2>2
    <3>2. QED BY <3>1 DEF SheetInv, OneWrites
  <2>3. QED BY <2>1, <2>2
<1>4. \A d \in Operators : Checked(call[d])'
  BY <1>3 DEF Checked
<1>5. call' = [d \in Operators |-> call'[d]] /\ holder' \in Operators \cup {Absent}
  BY DEF SheetInv, OneWrites
<1>6. \A d \in Operators : Sending(call[d])' /\ (SendsOne(call[d]) <=> holder = d)'
  BY <1>3 DEF Sending, SendsOne
<1>7. OneWrites'
  BY <1>4, <1>5, <1>6 DEF OneWrites
<1>8. QED BY <1>7, RecordsStay DEF SheetInv

\* A call gets to its next step.
LEMMA StepSet ==
  ASSUME SheetInv, NEW c \in Operators, call[c].step # "idle",
         NEW s \in {"lock", "check", "commit"}
  PROVE  LET new == [call[c] EXCEPT !.step = s] IN
         /\ [call EXCEPT ![c].step = s] = [call EXCEPT ![c] = new]
         /\ Sending(new) /\ new.step = s /\ new.record = call[c].record
<1>1. call[c] \in [step : {"lock", "check", "commit"}, record : SheetRecords]
  BY SendingStep DEF SheetInv, OneWrites
<1>2. PICK k : k = call[c]
  OBVIOUS
<1>3. PICK new : new = [k EXCEPT !.step = s]
  OBVIOUS
<1>4. /\ new \in [step : {"lock", "check", "commit"}, record : SheetRecords]
      /\ new.step = s /\ new.record = k.record
  BY <1>1, <1>2, <1>3
<1>5. [call EXCEPT ![c].step = s] = [call EXCEPT ![c] = new]
  BY <1>2, <1>3 DEF SheetInv, OneWrites
<1>6. QED BY <1>2, <1>3, <1>4, <1>5 DEF Sending

LEMMA SubmitKeeps ==
  ASSUME SheetInv, NEW c \in Operators, submitOeeRecord(c)
  PROVE  SheetInv'
<1>1. PICK r \in SheetRecords :
        call' = [call EXCEPT ![c] = [step |-> "lock", record |-> r]]
  BY DEF submitOeeRecord
<1>2. call[c] = [step |-> "idle"] /\ UNCHANGED <<records, hours, holder>>
  BY DEF submitOeeRecord, Idle
<1>3. PICK new : new = [step |-> "lock", record |-> r]
  OBVIOUS
<1>4. Sending(new) /\ ~SendsOne(new) /\ Checked(new)
  BY <1>3 DEF Sending, SendsOne, Checked
<1>5. holder # c
  BY <1>2 DEF SheetInv, OneWrites, SendsOne
<1>6. ASSUME NEW d \in Operators
      PROVE  /\ Sending(call'[d]) /\ (SendsOne(call'[d]) <=> holder' = d)
             /\ Checked(call'[d])
  <2>1. call'[d] = IF d = c THEN new ELSE call[d]
    BY <1>1, <1>3 DEF SheetInv, OneWrites
  <2>2. QED BY <1>2, <1>4, <1>5, <2>1 DEF SheetInv, OneWrites
<1>7. \A d \in Operators : Checked(call[d])' /\ Sending(call[d])'
                           /\ (SendsOne(call[d]) <=> holder = d)'
  BY <1>2, <1>6 DEF Checked, Sending, SendsOne
<1>8. call' = [d \in Operators |-> call'[d]] /\ holder' \in Operators \cup {Absent}
  BY <1>1, <1>2 DEF SheetInv, OneWrites
<1>9. OneWrites'
  BY <1>7, <1>8 DEF OneWrites
<1>10. QED BY <1>2, <1>9, RecordsStay DEF SheetInv

LEMMA LockKeeps ==
  ASSUME SheetInv, NEW c \in Operators, Lock(c)
  PROVE  SheetInv'
<1>1. /\ call[c].step = "lock" /\ holder = Absent /\ holder' = c
      /\ call' = [call EXCEPT ![c].step = "check"] /\ UNCHANGED <<records, hours>>
  BY DEF Lock
<1>2. PICK new : new = [call[c] EXCEPT !.step = "check"]
  OBVIOUS
<1>3. call' = [call EXCEPT ![c] = new] /\ Sending(new) /\ new.step = "check"
  BY <1>1, <1>2, StepSet
<1>4. SendsOne(new) /\ Checked(new)
  BY <1>3 DEF SendsOne, Checked
<1>5. QED BY <1>1, <1>3, <1>4, SheetGoesOn

LEMMA CheckKeeps ==
  ASSUME SheetInv, NEW c \in Operators, Check(c)
  PROVE  SheetInv'
<1>1. PICK r, refused :
        /\ r = call[c].record
        /\ refused = (TimedRun(r) /\ \E i \in DOMAIN records : Overlaps(r, records[i]))
  OBVIOUS
<1>2. PICK new : new = [call[c] EXCEPT !.step = "commit"]
  OBVIOUS
<1>3. /\ call[c].step = "check" /\ UNCHANGED <<records, hours>>
      /\ call' = [call EXCEPT ![c] = IF refused THEN [step |-> "idle"] ELSE new]
      /\ holder' = IF refused THEN Absent ELSE holder
  BY <1>1, <1>2 DEF Check, Idle
<1>4. holder = c
  BY <1>3 DEF SheetInv, OneWrites, SendsOne
<1>5. CASE refused
  <2>1. PICK idle : idle = [step |-> "idle"]
    OBVIOUS
  <2>2. Sending(idle) /\ ~SendsOne(idle) /\ Checked(idle)
    BY <2>1 DEF Sending, SendsOne, Checked
  <2>3. call' = [call EXCEPT ![c] = idle] /\ holder' = Absent
    BY <1>3, <1>5, <2>1
  <2>4. QED BY <1>3, <1>4, <2>2, <2>3, SheetGoesOn
<1>6. CASE ~refused
  <2>1. Sending(new) /\ new.step = "commit" /\ new.record = r
    BY <1>1, <1>2, <1>3, StepSet
  <2>2. SendsOne(new) /\ Checked(new)
    BY <1>1, <1>6, <2>1 DEF SendsOne, Checked
  <2>3. call' = [call EXCEPT ![c] = new] /\ holder' = c
    BY <1>3, <1>4, <1>6
  <2>4. QED BY <1>3, <1>4, <2>1, <2>2, <2>3, SheetGoesOn
<1>7. QED BY <1>5, <1>6

LEMMA Apart ==
  ASSUME NEW r \in SheetRecords, NEW other \in SheetRecords,
         TimedRun(r), TimedRun(other), ~Overlaps(r, other)
  PROVE  /\ Minutes(buildRun(r)) \cap Minutes(buildRun(other)) = {}
         /\ Minutes(buildRun(other)) \cap Minutes(buildRun(r)) = {}
<1>1. r \in Stored /\ other \in Stored /\ ~other.voided
  BY RecordsAreRows
<1>2. \A x \in Minutes(buildRun(r)) : x \notin Minutes(buildRun(other))
  BY <1>1, SharedMinutes
<1>3. QED BY <1>2

\* The hours of one record more.
LEMMA HoursOfOneMore ==
  ASSUME RecordsKept, HoursAddUp, NEW id, id \notin DOMAIN records,
         NEW run \in Nat, DOMAIN records' = DOMAIN records \cup {id},
         records'[id].run = run,
         \A i \in DOMAIN records : records'[i] = records[i],
         hours' = hours + AddedHours(run)
  PROVE  HoursAddUp'
<1>1. PICK S, f, g : S = DOMAIN records /\ f = Gains(records) /\ g = Gains(records')
  OBVIOUS
<1>2. IsFiniteSet(S) /\ IsFiniteSet(S \cup {id})
  <2>1. IsFiniteSet(DOMAIN records)
    BY FS_Subset, SheetConstants DEF RecordsKept
  <2>2. QED BY <1>1, <2>1, FS_AddElement
<1>3. HourMinutes \in Nat \ {0}
  BY SheetConstants
<1>4. \A i \in S : records[i].run \in Nat
  <2>1. ASSUME NEW i \in DOMAIN records PROVE records[i].run \in Nat
    <3>1. records[i] \in Stored
      BY KeptRows DEF RecordsKept
    <3>2. QED BY <3>1 DEF Stored
  <2>2. QED BY <1>1, <2>1
<1>5. \A i \in S : f[i] = g[i] /\ f[i] \in Nat
  BY <1>1, <1>3, <1>4, GainType DEF Gains
<1>6. g[id] = AddedHours(run) /\ g[id] \in Nat
  BY <1>1, <1>3, GainType DEF Gains
<1>7. hours = SumOf(f, S)
  BY <1>1, <1>2, HoursAreASum DEF HoursAddUp
<1>8. SumOf(f, S) = SumOf(g, S) /\ SumOf(g, S) \in Nat
  BY <1>2, <1>5, SumSame, SumType
<1>9. SumOf(g, S \cup {id}) = g[id] + SumOf(g, S)
  <2>1. id \notin S /\ \A x \in S \cup {id} : g[x] \in Nat
    BY <1>1, <1>5, <1>6
  <2>2. QED BY <1>2, <2>1, SumAdd
<1>10. hours' = SumOf(g, S \cup {id})
  BY <1>6, <1>7, <1>8, <1>9
<1>11. HoursOf(records') = SumOf(g, S \cup {id})
  BY <1>1, <1>2, HoursAreASum
<1>12. QED BY <1>10, <1>11 DEF HoursAddUp

\* Records whose run time stays.
LEMMA HoursOfTheSame ==
  ASSUME RecordsKept, HoursAddUp, DOMAIN records' = DOMAIN records,
         \A i \in DOMAIN records : records'[i].run = records[i].run, hours' = hours
  PROVE  HoursAddUp'
<1>1. Gains(records') = Gains(records)
  BY DEF Gains
<1>2. IsFiniteSet(DOMAIN records)
  BY FS_Subset, SheetConstants DEF RecordsKept
<1>3. hours = SumOf(Gains(records), DOMAIN records)
  BY <1>2, HoursAreASum DEF HoursAddUp
<1>4. HoursOf(records') = SumOf(Gains(records), DOMAIN records)
  BY <1>1, <1>2, HoursAreASum
<1>5. QED BY <1>3, <1>4 DEF HoursAddUp

LEMMA CommitKeeps ==
  ASSUME SheetInv, NEW c \in Operators, Commit(c)
  PROVE  SheetInv'
<1>1. PICK r, id : r = call[c].record /\ id = Min(Ids \ DOMAIN records)
  OBVIOUS
<1>2. /\ call[c].step = "commit" /\ Ids # DOMAIN records /\ holder' = Absent
      /\ records' = [i \in DOMAIN records \cup {id} |-> IF i = id THEN r ELSE records[i]]
      /\ hours' = hours + AddedHours(r.run)
      /\ call' = [call EXCEPT ![c] = [step |-> "idle"]]
  BY <1>1 DEF Commit, Idle
<1>3. id \in Ids \ DOMAIN records
  <2>1. PICK free : free = Ids \ DOMAIN records
    OBVIOUS
  <2>2. free \in SUBSET Nat /\ free # {}
    BY <1>2, <2>1, SheetConstants DEF SheetInv, RecordsKept
  <2>3. \E x \in free : \A y \in free : x <= y
    BY <2>2, LeastNumber
  <2>4. id = CHOOSE x \in free : \A y \in free : x <= y
    BY <1>1, <2>1 DEF Min
  <2>5. QED BY <2>1, <2>3, <2>4
<1>4. r \in SheetRecords /\ r \in Stored /\ ~r.voided /\ r.run \in Nat
  <2>1. r \in SheetRecords
    BY <1>1, <1>2, SendingStep DEF SheetInv, OneWrites
  <2>2. r \in Stored /\ ~r.voided
    BY <2>1, RecordsAreRows
  <2>3. QED BY <2>1, <2>2 DEF Stored
<1>5. /\ DOMAIN records' = DOMAIN records \cup {id} /\ records'[id] = r
      /\ \A i \in DOMAIN records : records'[i] = records[i]
      /\ records' = [i \in DOMAIN records' |-> records'[i]]
  BY <1>2, <1>3
<1>6. RecordsKept'
  <2>1. DOMAIN records' \subseteq Ids /\ \A i \in DOMAIN records' : Kept(records'[i])
    BY <1>3, <1>4, <1>5 DEF SheetInv, RecordsKept, Kept
  <2>2. AddedHours(r.run) \in Nat
    BY <1>4, GainType, SheetConstants
  <2>3. hours' \in Nat
    BY <1>2, <2>2 DEF SheetInv, RecordsKept
  <2>4. QED BY <1>5, <2>1, <2>3 DEF RecordsKept, Kept
<1>7. holder = c /\ Absent \notin Operators
  BY <1>2, SheetConstants DEF SheetInv, OneWrites, SendsOne
<1>8. ASSUME NEW d \in Operators
      PROVE  Sending(call'[d]) /\ ~SendsOne(call'[d]) /\ holder' # d
             /\ call'[d].step # "commit"
  <2>1. CASE d = c
    <3>1. call'[d] = [step |-> "idle"]
      BY <1>2, <2>1 DEF SheetInv, OneWrites
    <3>2. QED BY <1>2, <1>7, <3>1 DEF Sending, SendsOne
  <2>2. CASE d # c
    <3>1. call'[d] = call[d] /\ holder # d
      BY <1>2, <1>7, <2>2 DEF SheetInv, OneWrites
    <3>2. Sending(call[d]) /\ ~SendsOne(call[d])
      BY <3>1 DEF SheetInv, OneWrites
    <3>3. call[d].step # "commit"
      BY <3>2 DEF SendsOne
    <3>4. QED BY <1>2, <1>7, <3>1, <3>2, <3>3
  <2>3. QED BY <2>1, <2>2
<1>9. \A d \in Operators : Checked(call[d])' /\ Sending(call[d])'
                           /\ (SendsOne(call[d]) <=> holder = d)'
  BY <1>8 DEF Checked, Sending, SendsOne
<1>10. call' = [d \in Operators |-> call'[d]] /\ holder' \in Operators \cup {Absent}
  BY <1>2 DEF SheetInv, OneWrites
<1>11. OneWrites'
  BY <1>9, <1>10 DEF OneWrites
<1>12. RunsNeverOverlap'
  <2>1. \A i \in Timed' : i = id \/ i \in Timed
    BY <1>5 DEF Timed, Live
  <2>2. \A i \in Timed : /\ i \in DOMAIN records /\ TimedRun(records[i])
                         /\ records[i] \in SheetRecords
    <3>1. \A i \in DOMAIN records : ~records[i].voided => records[i] \in SheetRecords
      BY KeptRows DEF SheetInv, RecordsKept
    <3>2. QED BY <3>1 DEF Timed, Live
  <2>3. ASSUME id \in Timed', NEW i \in Timed
        PROVE  /\ Minutes(buildRun(r)) \cap Run(i) = {}
               /\ Run(i) \cap Minutes(buildRun(r)) = {}
    <3>1. PICK other : other = records[i]
      OBVIOUS
    <3>2. other \in SheetRecords /\ TimedRun(other) /\ i \in DOMAIN records
      BY <2>2, <3>1
    <3>3. TimedRun(r)
      BY <1>5, <2>3 DEF Timed
    <3>4. ~Overlaps(r, other)
      BY <1>1, <1>2, <3>1, <3>2, <3>3 DEF SheetInv, OneWrites, Checked
    <3>5. QED BY <1>4, <3>1, <3>2, <3>3, <3>4, Apart DEF Run
  <2>4. Run(id)' = Minutes(buildRun(r)) /\ \A i \in Timed : Run(i)' = Run(i)
    BY <1>5, <2>2 DEF Run
  <2>5. \A i, j \in Timed : i # j => Run(i) \cap Run(j) = {}
    BY DEF SheetInv, RunsNeverOverlap
  <2>6. \A i, j \in Timed' : i # j => Run(i)' \cap Run(j)' = {}
    BY <2>1, <2>3, <2>4, <2>5
  <2>7. QED BY <2>6 DEF RunsNeverOverlap
<1>13. HoursAddUp'
  <2>1. records'[id].run = r.run /\ id \notin DOMAIN records
    BY <1>3, <1>5
  <2>2. QED BY <1>2, <1>4, <1>5, <2>1, HoursOfOneMore DEF SheetInv
<1>14. QED BY <1>6, <1>11, <1>12, <1>13 DEF SheetInv

LEMMA VoidKeeps ==
  ASSUME SheetInv, NEW i \in DOMAIN records, voidRecord(i)
  PROVE  SheetInv'
<1>1. records' = [records EXCEPT ![i] = Voided(records[i])]
      /\ UNCHANGED <<hours, holder, call>>
  BY DEF voidRecord, Voided, SheetInv, RecordsKept
<1>2. PICK row : row = Voided(records[i])
  OBVIOUS
<1>3. Kept(row) /\ row.voided /\ row.run = records[i].run
  BY <1>2, KeptRows DEF SheetInv, RecordsKept
<1>4. /\ DOMAIN records' = DOMAIN records /\ records'[i] = row
      /\ \A j \in DOMAIN records \ {i} : records'[j] = records[j]
      /\ records' = [j \in DOMAIN records' |-> records'[j]]
  BY <1>1, <1>2 DEF SheetInv, RecordsKept
<1>5. \A j \in DOMAIN records' : Kept(records'[j])
  BY <1>3, <1>4 DEF SheetInv, RecordsKept
<1>6. RecordsKept'
  BY <1>1, <1>4, <1>5 DEF SheetInv, RecordsKept, Kept
<1>7. ASSUME NEW d \in Operators PROVE Checked(call[d])'
  <2> SUFFICES ASSUME call[d].step = "commit", TimedRun(call[d].record),
                      NEW j \in DOMAIN records
               PROVE  ~Overlaps(call[d].record, records'[j])
    BY <1>1, <1>4 DEF Checked
  <2>1. CASE j = i
    BY <1>3, <1>4, <2>1 DEF Overlaps
  <2>2. CASE j # i
    BY <1>4, <2>2 DEF SheetInv, OneWrites, Checked
  <2>3. QED BY <2>1, <2>2
<1>8. \A d \in Operators : Sending(call[d])' /\ (SendsOne(call[d]) <=> holder = d)'
  BY <1>1 DEF SheetInv, OneWrites, Sending, SendsOne
<1>9. OneWrites'
  BY <1>1, <1>7, <1>8 DEF SheetInv, OneWrites
<1>10. RunsNeverOverlap'
  <2>1. \A j \in Timed' : j \in Timed /\ records'[j] = records[j]
    BY <1>3, <1>4 DEF Timed, Live
  <2>2. \A j, k \in Timed : j # k => Run(j) \cap Run(k) = {}
    BY DEF SheetInv, RunsNeverOverlap
  <2>3. \A j \in Timed' : Run(j)' = Run(j)
    BY <2>1 DEF Run
  <2>4. QED BY <2>1, <2>2, <2>3 DEF RunsNeverOverlap
<1>11. HoursAddUp'
  <2>1. \A j \in DOMAIN records : records'[j].run = records[j].run
    BY <1>3, <1>4
  <2>2. QED BY <1>1, <1>4, <2>1, HoursOfTheSame DEF SheetInv
<1>12. QED BY <1>6, <1>9, <1>10, <1>11 DEF SheetInv

LEMMA SheetStutter ==
  ASSUME SheetInv, UNCHANGED oeeVars
  PROVE  SheetInv'
<1>1. UNCHANGED <<records, hours, holder, call>>
  BY DEF oeeVars
<1>2. \A d \in Operators : Checked(call[d])' /\ Sending(call[d])'
                           /\ (SendsOne(call[d]) <=> holder = d)'
  BY <1>1 DEF SheetInv, OneWrites, Checked, Sending, SendsOne
<1>3. OneWrites'
  BY <1>1, <1>2 DEF SheetInv, OneWrites
<1>4. QED BY <1>1, <1>3, RecordsStay DEF SheetInv

LEMMA SheetNext ==
  ASSUME SheetInv, OeeNext
  PROVE  SheetInv'
<1>1. \/ \E c \in Operators : submitOeeRecord(c) \/ Lock(c) \/ Check(c) \/ Commit(c)
      \/ \E i \in DOMAIN records : voidRecord(i)
  BY DEF OeeNext
<1>2. QED
  BY <1>1, SubmitKeeps, LockKeeps, CheckKeeps, CommitKeeps, VoidKeeps

LEMMA SheetStarts ==
  ASSUME OeeInit
  PROVE  SheetInv
<1>1. /\ records = << >> /\ hours = 0 /\ holder = Absent
      /\ call = [c \in Operators |-> [step |-> "idle"]]
  BY DEF OeeInit, Idle
<1>2. DOMAIN records = {} /\ records = [i \in DOMAIN records |-> records[i]]
  BY <1>1
<1>3. RecordsKept
  BY <1>1, <1>2 DEF RecordsKept
<1>4. Absent \notin Operators
  BY SheetConstants
<1>5. ASSUME NEW c \in Operators
      PROVE  /\ Sending(call[c]) /\ Checked(call[c])
             /\ SendsOne(call[c]) <=> holder = c
  BY <1>1, <1>4 DEF Sending, Checked, SendsOne
<1>6. OneWrites
  BY <1>1, <1>5 DEF OneWrites
<1>7. RunsNeverOverlap
  BY <1>2 DEF RunsNeverOverlap, Timed, Live
<1>8. HoursAddUp
  <2>1. SumOf(Gains(records), {}) = 0
    BY SumEmpty
  <2>2. IsFiniteSet(DOMAIN records)
    BY <1>2, FS_EmptySet
  <2>3. QED BY <1>1, <1>2, <2>1, <2>2, HoursAreASum DEF HoursAddUp
<1>9. QED BY <1>3, <1>6, <1>7, <1>8 DEF SheetInv

LEMMA SheetTypes ==
  ASSUME SheetInv
  PROVE  OeeTypeOK
<1>1. ASSUME NEW i \in DOMAIN records
      PROVE  /\ records[i].sheet \in Sheets /\ records[i].shift \in Shifts
             /\ records[i].date \in Dates
             /\ {records[i].duration, records[i].planned, records[i].unplanned,
                 records[i].production, records[i].run, records[i].pa2} \subseteq Nat
  <2>1. records[i] \in Stored
    BY KeptRows DEF SheetInv, RecordsKept
  <2>2. QED BY <2>1 DEF Stored
<1>2. QED BY <1>1 DEF SheetInv, RecordsKept, OneWrites, OeeTypeOK

-----------------------------------------------------------------------------
(* The minutes of a sheet on the clock.                                    *)

\* What a function that tells all elements apart maps a finite set to.
LEMMA Counted ==
  ASSUME NEW S, IsFiniteSet(S), NEW f, S = DOMAIN f, f = [x \in S |-> f[x]],
         \A x, y \in S : f[x] = f[y] => x = y
  PROVE  /\ IsFiniteSet({f[x] : x \in S})
         /\ Cardinality({f[x] : x \in S}) = Cardinality(S)
<1>1. PICK T : T = {f[x] : x \in S}
  OBVIOUS
<1>2. f \in [S -> T]
  BY <1>1
<1>3. f \in Surjection(S, T)
  BY <1>1, <1>2 DEF Surjection
<1>4. f \in Injection(S, T)
  BY <1>2 DEF Injection, IsInjective
<1>5. QED BY <1>1, <1>3, <1>4, FS_Surjection

LEMMA NoWholeDay ==
  ASSUME NEW D \in Nat, D > 0, NEW g \in Int, g * D < D, -(g * D) < D
  PROVE  g = 0
<1>1. ASSUME g > 0 PROVE FALSE
  <2>1. PICK h \in Nat : g = h + 1
    <3>1. g - 1 \in Nat
      BY <1>1
    <3>2. QED BY <3>1
  <2>2. g * D = h * D + D /\ h * D \in Nat
    BY <2>1
  <2>3. QED BY <2>2
<1>2. ASSUME g < 0 PROVE FALSE
  <2>1. PICK h \in Nat : g = (-h) - 1
    <3>1. (-g) - 1 \in Nat /\ g = (-((-g) - 1)) - 1
      BY <1>2
    <3>2. QED BY <3>1
  <2>2. g * D = (-(h * D)) - D /\ h * D \in Nat
    BY <2>1
  <2>3. QED BY <2>2
<1>3. QED BY <1>1, <1>2

\* The remainder of a day.
LEMMA Remainder ==
  ASSUME NEW D \in Nat, D > 0, NEW q \in Int, NEW r \in 0..(D - 1)
  PROVE  (q * D + r) % D = r
<1>1. PICK a : a = q * D + r
  OBVIOUS
<1>2. a \in Int
  BY <1>1
<1>3. PICK e, s : e = a \div D /\ s = a % D
  OBVIOUS
<1>4. e \in Int /\ s \in 0..(D - 1) /\ a = D * e + s
  BY <1>2, <1>3
<1>5. PICK g \in Int : g = q - e
  <2>1. q - e \in Int
    BY <1>4
  <2>2. QED BY <2>1
<1>6. s - r = g * D
  <2>1. q = g + e
    BY <1>4, <1>5
  <2>2. q * D = g * D + e * D
    BY <1>4, <2>1
  <2>3. e * D = D * e /\ g * D \in Int /\ e * D \in Int
    BY <1>4
  <2>4. QED BY <1>1, <1>4, <2>2, <2>3
<1>7. g = 0
  <2>1. g * D < D /\ -(g * D) < D
    BY <1>4, <1>6
  <2>2. QED BY <2>1, NoWholeDay
<1>8. s = r
  <2>1. g * D = 0
    BY <1>7
  <2>2. QED BY <1>4, <1>6, <2>1
<1>9. QED BY <1>1, <1>3, <1>8

\* A number moved by whole days.
LEMMA SameTime ==
  ASSUME NEW D \in Nat, D > 0, NEW q \in Int, NEW m \in Int
  PROVE  (q * D + m) % D = m % D /\ m % D \in 0..(D - 1)
<1>1. PICK e, s : e = m \div D /\ s = m % D
  OBVIOUS
<1>2. e \in Int /\ s \in 0..(D - 1) /\ m = D * e + s
  BY <1>1
<1>3. PICK g \in Int : g = q + e
  <2>1. q + e \in Int
    BY <1>2
  <2>2. QED BY <2>1
<1>4. q * D + m = g * D + s
  <2>1. g * D = q * D + e * D
    BY <1>2, <1>3
  <2>2. e * D = D * e /\ q * D \in Int /\ e * D \in Int
    BY <1>2
  <2>3. QED BY <1>2, <2>1, <2>2
<1>5. (g * D + s) % D = s
  BY <1>2, Remainder
<1>6. QED BY <1>1, <1>2, <1>4, <1>5

\* Minutes that are less than a day apart are told apart by the clock.
LEMMA LessThanADay ==
  ASSUME NEW D \in Nat, D > 0, NEW m \in Int, NEW n \in Int, m % D = n % D,
         m - n < D, n - m < D
  PROVE  m = n
<1>1. PICK d, e, s : d = m \div D /\ e = n \div D /\ s = m % D
  OBVIOUS
<1>2. d \in Int /\ e \in Int /\ s \in Int /\ m = D * d + s /\ n = D * e + s
  BY <1>1
<1>3. PICK g \in Int : g = d - e
  <2>1. d - e \in Int
    BY <1>2
  <2>2. QED BY <2>1
<1>4. m - n = g * D
  <2>1. d = g + e
    BY <1>2, <1>3
  <2>2. D * d = g * D + D * e
    BY <1>2, <2>1
  <2>3. g * D \in Int /\ D * e \in Int
    BY <1>2
  <2>4. QED BY <1>2, <2>2, <2>3
<1>5. g = 0
  <2>1. g * D < D /\ -(g * D) < D
    BY <1>4
  <2>2. QED BY <2>1, NoWholeDay
<1>6. g * D = 0
  BY <1>5
<1>7. QED BY <1>4, <1>6

\* The minutes of some times are those on the clock, wherever they are placed.
LEMMA OnTheDay ==
  ASSUME NEW shift \in Shifts, NEW t \in (0..Day) \X (0..Day)
  PROVE  {m % Day : m \in Span(Place(t, shift))} = OnTheClock(t)
<1>1. PICK i, a, b, D : i = Place(t, shift) /\ a = t[1] /\ b = t[2] /\ D = Day
  OBVIOUS
<1>2. a \in 0..D /\ b \in 0..D /\ D \in Nat /\ D > 0
  BY <1>1, WindowOf
<1>3. PICK len : len = IF b >= a THEN b - a ELSE D - a + b
  OBVIOUS
<1>4. i[2] = i[1] + len /\ \E q \in Int : i[1] = a + q * D
  BY <1>1, <1>3, Placed
<1>5. PICK q \in Int : i[1] = a + q * D
  BY <1>4
<1>6. len \in Nat /\ q * D \in Int
  BY <1>2, <1>3
<1>7. PICK On : On = IF a <= b THEN a .. (b - 1) ELSE (a .. (D - 1)) \cup (0 .. (b - 1))
  OBVIOUS
<1>8. OnTheClock(t) = On
  BY <1>1, <1>7 DEF OnTheClock
<1>9. \A r \in 0..(D - 1) : r % D = r /\ (r + D) % D = r
  <2>1. ASSUME NEW r \in 0..(D - 1) PROVE r % D = r /\ (r + D) % D = r
    <3>1. (0 * D + r) % D = r /\ (1 * D + r) % D = r
      BY <1>2, Remainder
    <3>2. 0 * D + r = r /\ 1 * D + r = r + D
      BY <1>2
    <3>3. QED BY <3>1, <3>2
  <2>2. QED BY <2>1
<1>10. ASSUME NEW j \in a .. (a + len - 1) PROVE j % D \in On
  <2>1. CASE j < D
    <3>1. j \in 0..(D - 1) /\ j \in On
      BY <1>2, <1>3, <1>7, <2>1
    <3>2. QED BY <1>9, <3>1
  <2>2. CASE j >= D
    <3>1. PICK r : r = j - D
      OBVIOUS
    <3>2. r \in 0..(D - 1) /\ r \in On /\ j = r + D
      BY <1>2, <1>3, <1>7, <2>2, <3>1
    <3>3. QED BY <1>9, <3>2
  <2>3. j \in Int
    BY <1>2, <1>6
  <2>4. QED BY <1>2, <2>1, <2>2, <2>3
<1>11. ASSUME NEW x \in On PROVE \E j \in a .. (a + len - 1) : j % D = x
  <2>1. x \in 0..(D - 1)
    BY <1>2, <1>7
  <2>2. x \in a .. (a + len - 1) \/ x + D \in a .. (a + len - 1)
    BY <1>2, <1>3, <1>7
  <2>3. QED BY <1>9, <2>1, <2>2
<1>12. Span(i) = (a + q * D) .. (a + q * D + len - 1)
  <2>1. PICK c : c = a + q * D
    OBVIOUS
  <2>2. i[1] = c /\ i[2] = c + len
    BY <1>4, <1>5, <2>1
  <2>3. Span(i) = c .. (c + len - 1)
    <3>1. c \in Int /\ len \in Int
      BY <1>2, <1>6, <2>1
    <3>2. i[2] - 1 = c + len - 1
      BY <2>2, <3>1
    <3>3. QED BY <2>2, <3>2 DEF Span
  <2>4. QED BY <2>1, <2>3
<1>13. ASSUME NEW m \in Span(i) PROVE m % D \in On
  <2>1. PICK p : p = q * D
    OBVIOUS
  <2>2. PICK j : j = m - p
    OBVIOUS
  <2>3. j \in a .. (a + len - 1) /\ j \in Int /\ m = p + j
    BY <1>2, <1>6, <1>12, <2>1, <2>2
  <2>4. m % D = j % D
    BY <1>2, <2>1, <2>3, SameTime
  <2>5. QED BY <1>10, <2>3, <2>4
<1>14. ASSUME NEW x \in On PROVE \E m \in Span(i) : m % D = x
  <2>1. PICK j \in a .. (a + len - 1) : j % D = x
    BY <1>11
  <2>2. PICK p : p = q * D
    OBVIOUS
  <2>3. j \in Int /\ p + j \in (a + p) .. (a + p + len - 1)
    BY <1>2, <1>6, <2>1, <2>2
  <2>4. (p + j) % D = x
    BY <1>2, <2>1, <2>2, <2>3, SameTime
  <2>5. QED BY <1>12, <2>2, <2>3, <2>4
<1>15. QED BY <1>1, <1>8, <1>13, <1>14

LEMMA OfOneKey ==
  ASSUME NEW shift \in Shifts, NEW sheet \in Seq(Row), NEW key
  PROVE  {m % Day : m \in Minutes(IntervalsOf(sheet, shift, {key}))}
           = RowMinutes(sheet, key)
<1>1. PICK s : s = IntervalsOf(sheet, shift, {key})
  OBVIOUS
<1>2. PICK K : K = {k \in 1..Len(sheet) : sheet[k].key = key}
  OBVIOUS
<1>3. /\ s \in Seq(Pairs)
      /\ Range(s) = UNION {Range(rowIntervals(sheet[k], shift)) : k \in K}
  <2>1. s \in Seq(Intervals)
    BY <1>1, RowsOf
  <2>2. Range(s) = UNION {Range(rowIntervals(sheet[k], shift)) :
                            k \in {k \in 1..Len(sheet) : sheet[k].key \in {key}}}
    BY <1>1, RowsOf
  <2>3. {k \in 1..Len(sheet) : sheet[k].key \in {key}} = K
    BY <1>2
  <2>4. QED BY <2>1, <2>2, <2>3 DEF Intervals
<1>4. \A k \in K : sheet[k] \in Row
  BY <1>2
<1>5. ASSUME NEW k \in K
      PROVE  UNION {Span(i) : i \in Range(rowIntervals(sheet[k], shift))}
               = UNION {Span(Place(t, shift)) : t \in Range(sheet[k].times)}
  <2>1. PICK u : u = rowIntervals(sheet[k], shift)
    OBVIOUS
  <2>2. /\ u \in Seq(Around(shift))
        /\ Minutes(u) = UNION {Span(Place(t, shift)) : t \in Range(sheet[k].times)}
    BY <1>4, <2>1, RowOf
  <2>3. u \in Seq(Pairs)
    <3>1. u \in Seq(Intervals)
      BY <2>2, AroundIntervals
    <3>2. QED BY <3>1 DEF Intervals
  <2>4. Minutes(u) = UNION {Span(i) : i \in Range(u)}
    BY <2>3, MinutesOf
  <2>5. QED BY <2>1, <2>2, <2>4
<1>6. \A m : m \in Minutes(s)
        <=> \E k \in K : \E t \in Range(sheet[k].times) : m \in Span(Place(t, shift))
  <2>1. Minutes(s) = UNION {Span(i) : i \in Range(s)}
    BY <1>3, MinutesOf
  <2>2. \A m : m \in Minutes(s)
          <=> \E k \in K : m \in UNION {Span(i) : i \in Range(rowIntervals(sheet[k], shift))}
    BY <1>3, <2>1
  <2>3. QED BY <1>5, <2>2
<1>7. ASSUME NEW k \in K, NEW t \in Range(sheet[k].times)
      PROVE  {m % Day : m \in Span(Place(t, shift))} = OnTheClock(t)
  <2>1. sheet[k].times \in Seq((0..Day) \X (0..Day))
    BY <1>4 DEF Row
  <2>2. t \in (0..Day) \X (0..Day)
    BY <2>1, RangeOf
  <2>3. QED BY <2>2, OnTheDay
<1>8. \A x : x \in RowMinutes(sheet, key)
        <=> \E k \in K : \E t \in Range(sheet[k].times) : x \in OnTheClock(t)
  <2>1. {n \in DOMAIN sheet : sheet[n].key = key} = K
    BY <1>2
  <2>2. QED BY <2>1 DEF RowMinutes
<1>9. \A x : x \in {m % Day : m \in Minutes(s)}
        <=> \E k \in K : \E t \in Range(sheet[k].times) :
              x \in {m % Day : m \in Span(Place(t, shift))}
  BY <1>6
<1>10. \A x : x \in {m % Day : m \in Minutes(s)} <=> x \in RowMinutes(sheet, key)
  <2>1. ASSUME NEW x
        PROVE  (\E k \in K : \E t \in Range(sheet[k].times) :
                  x \in {m % Day : m \in Span(Place(t, shift))})
               <=> \E k \in K : \E t \in Range(sheet[k].times) : x \in OnTheClock(t)
    BY <1>7
  <2>2. PICK Mod : Mod = {m % Day : m \in Minutes(s)}
    OBVIOUS
  <2>3. \A x : x \in Mod <=> \E k \in K : \E t \in Range(sheet[k].times) : x \in OnTheClock(t)
    BY <1>9, <2>1, <2>2
  <2>4. QED BY <1>8, <2>2, <2>3
<1>11. {m % Day : m \in Minutes(s)} = RowMinutes(sheet, key)
  BY <1>10
<1>12. QED BY <1>1, <1>11

\* What runs and breaks have in common is counted pair by pair.
LEMMA OverlapCounts ==
  ASSUME NEW shift \in Shifts, NEW sheet \in Seq(Row)
  PROVE  LET ran == Minutes(IntervalsOf(sheet, shift, {"running"}))
             broke == Minutes(IntervalsOf(sheet, shift, {"breakShift"}))
         IN  BreakOverlap(sheet, shift) = Cardinality(ran \cap broke)
<1>1. PICK r, b : /\ r = IntervalsOf(sheet, shift, {"running"})
                  /\ b = IntervalsOf(sheet, shift, {"breakShift"})
  OBVIOUS
<1>2. PICK runs, breaks : runs = mergeIntervals(r) /\ breaks = mergeIntervals(b)
  OBVIOUS
<1>3. r \in Seq(Intervals) /\ b \in Seq(Intervals)
  BY <1>1, RowsOf
<1>4. /\ runs \in Seq(Intervals) /\ Minutes(runs) = Minutes(r) /\ Separate(runs)
      /\ breaks \in Seq(Intervals) /\ Minutes(breaks) = Minutes(b) /\ Separate(breaks)
  BY <1>2, <1>3, Merged
<1> DEFINE n == Len(runs)
           l == Len(breaks)
           T(k) == Total([j \in 1..l |-> Shared(runs[k], breaks[j])])
           t == [k \in 1..n |-> T(k)]
           A == [k \in 1..n |-> Span(runs[k]) \cap Minutes(breaks)]
<1>5. /\ n \in Nat /\ DOMAIN runs = 1..n /\ \A k \in 1..n : runs[k] \in Intervals
      /\ l \in Nat /\ DOMAIN breaks = 1..l /\ \A j \in 1..l : breaks[j] \in Intervals
  BY <1>4
<1>6. BreakOverlap(sheet, shift) = Total(t)
  BY <1>1, <1>2, <1>5 DEF BreakOverlap
<1>7. /\ Minutes(runs) = UNION {Span(runs[k]) : k \in 1..n}
      /\ Minutes(breaks) = UNION {Span(breaks[j]) : j \in 1..l}
  <2>1. runs \in Seq(Pairs) /\ breaks \in Seq(Pairs)
    BY <1>4 DEF Intervals
  <2>2. QED BY <2>1, MinutesOf
<1>8. /\ \A k, m \in 1..n : k < m => runs[k][2] < runs[m][1]
      /\ \A k, m \in 1..l : k < m => breaks[k][2] < breaks[m][1]
  BY <1>4 DEF Separate
<1> HIDE DEF n, l
<1>9. ASSUME NEW i \in Intervals, NEW j \in Intervals
      PROVE  /\ IsFiniteSet(Span(i) \cap Span(j))
             /\ Shared(i, j) = Cardinality(Span(i) \cap Span(j))
  <2>1. PICK a, b1, c, d : a = i[1] /\ b1 = i[2] /\ c = j[1] /\ d = j[2]
    OBVIOUS
  <2>2. a \in Int /\ b1 \in Int /\ c \in Int /\ d \in Int
    BY <2>1 DEF Intervals, Pairs
  <2>3. PICK from, to : from = Greater(a, c) /\ to = Smaller(b1, d) - 1
    OBVIOUS
  <2>4. from \in Int /\ to \in Int
    BY <2>2, <2>3 DEF Greater, Smaller
  <2>5. (a .. (b1 - 1)) \cap (c .. (d - 1)) = from .. to
    BY <2>2, <2>3 DEF Greater, Smaller
  <2>6. Greater(0, Smaller(b1, d) - from) = IF from > to THEN 0 ELSE to - from + 1
    BY <2>2, <2>3 DEF Greater, Smaller
  <2>7. IsFiniteSet(from .. to) /\ Cardinality(from .. to)
          = IF from > to THEN 0 ELSE to - from + 1
    BY <2>4, FS_Interval
  <2>8. Span(i) \cap Span(j) = from .. to
    BY <2>1, <2>5 DEF Span
  <2>9. Shared(i, j) = Greater(0, Smaller(b1, d) - from)
    BY <2>1, <2>3 DEF Shared
  <2>10. QED BY <2>6, <2>7, <2>8, <2>9
<1>10. ASSUME NEW k \in 1..n PROVE IsFiniteSet(A[k]) /\ T(k) = Cardinality(A[k])
  <2> DEFINE s == [j \in 1..l |-> Shared(runs[k], breaks[j])]
             B == [j \in 1..l |-> Span(runs[k]) \cap Span(breaks[j])]
  <2>1. \A j \in 1..l : IsFiniteSet(B[j]) /\ s[j] = Cardinality(B[j])
    <3>1. \A j \in 1..l : /\ IsFiniteSet(Span(runs[k]) \cap Span(breaks[j]))
                          /\ Shared(runs[k], breaks[j])
                               = Cardinality(Span(runs[k]) \cap Span(breaks[j]))
      BY <1>5, <1>9
    <3>2. QED BY <3>1
  <2>2. s \in Seq(Int) /\ Len(s) = l
    <3>1. \A j \in 1..l : s[j] \in Nat
      BY <1>5, SharedType
    <3>2. QED BY <1>5, <3>1
  <2>3. \A i, j \in 1..l : i # j => B[i] \cap B[j] = {}
    <3>1. ASSUME NEW i \in 1..l, NEW j \in 1..l, i # j
          PROVE  Span(breaks[i]) \cap Span(breaks[j]) = {}
      <4>1. breaks[i][2] < breaks[j][1] \/ breaks[j][2] < breaks[i][1]
        <5>1. i < j \/ j < i
          BY <1>5, <3>1
        <5>2. QED BY <1>8, <5>1
      <4>2. QED BY <1>5, <4>1, SpansApart
    <3>2. QED BY <3>1
  <2>4. UNION {B[j] : j \in 1..l} = A[k]
    BY <1>7
  <2> HIDE DEF s, B, A
  <2>5. /\ IsFiniteSet(UNION {B[j] : j \in 1..l})
        /\ Total(s) = Cardinality(UNION {B[j] : j \in 1..l})
    <3>1. Counts(s, B)
      BY <2>1, <2>2, <2>3 DEF Counts
    <3>2. QED BY <2>2, <3>1, TotalOfCards
  <2>6. QED BY <2>4, <2>5 DEF s
<1>11. \A k, m \in 1..n : k # m => A[k] \cap A[m] = {}
  <2>1. ASSUME NEW k \in 1..n, NEW m \in 1..n, k # m
        PROVE  Span(runs[k]) \cap Span(runs[m]) = {}
    <3>1. runs[k][2] < runs[m][1] \/ runs[m][2] < runs[k][1]
      <4>1. k < m \/ m < k
        BY <1>5, <2>1
      <4>2. QED BY <1>8, <4>1
    <3>2. QED BY <1>5, <3>1, SpansApart
  <2>2. QED BY <2>1
<1>12. UNION {A[k] : k \in 1..n} = Minutes(runs) \cap Minutes(breaks)
  BY <1>7
<1> HIDE DEF A, T
<1>13. \A k \in 1..n : IsFiniteSet(A[k]) /\ t[k] = Cardinality(A[k])
  BY <1>10
<1>14. t \in Seq(Int) /\ Len(t) = n
  <2>1. \A k \in 1..n : t[k] \in Nat
    BY <1>13, FS_CardinalityType
  <2>2. QED BY <1>5, <2>1
<1> HIDE DEF t
<1>15. Total(t) = Cardinality(UNION {A[k] : k \in 1..n})
  <2>1. Counts(t, A)
    BY <1>11, <1>13, <1>14 DEF Counts
  <2>2. QED BY <1>14, <2>1, TotalOfCards
<1>16. QED BY <1>1, <1>4, <1>6, <1>12, <1>15

\* The intervals of one kind of row are among those of all kinds.
LEMMA KeysIncluded ==
  ASSUME NEW shift \in Shifts, NEW sheet \in Seq(Row), NEW key \in RowKeys
  PROVE  Range(IntervalsOf(sheet, shift, {key})) \subseteq Range(IntervalsOf(sheet, shift, RowKeys))
<1>1. /\ Range(IntervalsOf(sheet, shift, {key}))
           = UNION {Range(rowIntervals(sheet[k], shift)) :
                      k \in {k \in 1..Len(sheet) : sheet[k].key \in {key}}}
      /\ Range(IntervalsOf(sheet, shift, RowKeys))
           = UNION {Range(rowIntervals(sheet[k], shift)) :
                      k \in {k \in 1..Len(sheet) : sheet[k].key \in RowKeys}}
  BY RowsOf
<1>2. {k \in 1..Len(sheet) : sheet[k].key \in {key}}
        \subseteq {k \in 1..Len(sheet) : sheet[k].key \in RowKeys}
  OBVIOUS
<1>3. QED BY <1>1, <1>2

\* Minutes near the shift are less than a day apart.
LEMMA NearMinutes ==
  ASSUME NEW r \in Stored, NearShift(r), NEW key \in RowKeys,
         NEW m \in Minutes(IntervalsOf(r.sheet, r.shift, {key}))
  PROVE  /\ m \in Int /\ 2 * m >= Middle(r.shift) - Day
         /\ 2 * m < Middle(r.shift) + Day
<1>1. r.shift \in Shifts /\ r.sheet \in Sheets
  BY DEF Stored
<1>2. r.sheet \in Seq(Row)
  BY <1>1, SheetConstants
<1>3. PICK s, all : /\ s = IntervalsOf(r.sheet, r.shift, {key})
                    /\ all = IntervalsOf(r.sheet, r.shift, RowKeys)
  OBVIOUS
<1>4. s \in Seq(Pairs) /\ Range(s) \subseteq Range(all)
  <2>1. s \in Seq(Intervals)
    BY <1>1, <1>2, <1>3, RowsOf
  <2>2. QED BY <1>1, <1>2, <1>3, <2>1, KeysIncluded DEF Intervals
<1>5. PICK i \in Range(s) : m \in Span(i)
  <2>1. Minutes(s) = UNION {Span(i) : i \in Range(s)}
    BY <1>4, MinutesOf
  <2>2. QED BY <1>3, <2>1
<1>6. i \in Pairs
  BY <1>4, RangeOf
<1>7. 2 * i[1] >= Middle(r.shift) - Day /\ 2 * i[2] <= Middle(r.shift) + Day
  BY <1>3, <1>4 DEF NearShift, Middle
<1>8. Middle(r.shift) \in Nat /\ Day \in Nat
  BY <1>1, WindowOf
<1>9. PICK a, b, c, D : a = i[1] /\ b = i[2] /\ c = Middle(r.shift) /\ D = Day
  OBVIOUS
<1>10. /\ a \in Int /\ b \in Int /\ c \in Nat /\ D \in Nat /\ m \in a .. (b - 1)
       /\ 2 * a >= c - D /\ 2 * b <= c + D
  <2>1. a \in Int /\ b \in Int
    BY <1>6, <1>9 DEF Pairs
  <2>2. m \in a .. (b - 1)
    BY <1>5, <1>9 DEF Span
  <2>3. QED BY <1>7, <1>8, <1>9, <2>1, <2>2
<1>11. m \in Int /\ 2 * m >= c - D /\ 2 * m < c + D
  BY <1>10
<1>12. QED BY <1>9, <1>11

\* A row with times has no minutes of its own, and there is one of each kind.
LEMMA RunHasTimes ==
  ASSUME NEW shift \in Shifts, NEW sheet \in Sheets,
         IntervalsOf(sheet, shift, {"running"}) # << >>
  PROVE  /\ \E k \in DOMAIN sheet : sheet[k].key = "running" /\ sheet[k].times # << >>
         /\ ManualOf(sheet, {"running"}) = 0
<1>1. /\ sheet \in Seq(Row)
      /\ \A k, l \in DOMAIN sheet : sheet[k].key = sheet[l].key => k = l
  BY SheetConstants
<1>2. /\ DOMAIN sheet = 1..Len(sheet) /\ Len(sheet) \in Nat
      /\ \A k \in 1..Len(sheet) : sheet[k] \in Row
  BY <1>1
<1>3. PICK k \in DOMAIN sheet : sheet[k].key = "running" /\ sheet[k].times # << >>
  <2>1. PICK s : s = IntervalsOf(sheet, shift, {"running"})
    OBVIOUS
  <2>2. /\ s \in Seq(Intervals)
        /\ Range(s) = UNION {Range(rowIntervals(sheet[k], shift)) :
                               k \in {k \in 1..Len(sheet) : sheet[k].key \in {"running"}}}
    BY <1>1, <2>1, RowsOf
  <2>3. Range(s) # {}
    <3>1. Len(s) # 0 /\ DOMAIN s = 1..Len(s) /\ Len(s) \in Nat
      BY <2>1, <2>2
    <3>2. s[1] \in Range(s)
      BY <3>1, RangeOf
    <3>3. QED BY <3>2
  <2>4. PICK k \in 1..Len(sheet) : /\ sheet[k].key = "running"
                                   /\ Range(rowIntervals(sheet[k], shift)) # {}
    BY <2>2, <2>3
  <2>5. rowIntervals(sheet[k], shift) # << >>
    <3>1. Range(<< >>) = {}
      BY RangeOf
    <3>2. QED BY <2>4, <3>1
  <2>6. sheet[k].times # << >>
    BY <1>2, <2>5, RowOf
  <2>7. QED BY <1>2, <2>4, <2>6
<1> DEFINE n == Len(sheet)
           s == [j \in 1..n |-> IF sheet[j].key \in {"running"} THEN Manual(sheet[j]) ELSE 0]
           A == [j \in 1..n |-> {}]
<1>4. ManualOf(sheet, {"running"}) = Total(s)
  BY <1>2 DEF ManualOf
<1>5. \A j \in 1..n : s[j] = 0
  <2>1. \A j \in 1..n : sheet[j].key = "running" => sheet[j].times # << >>
    BY <1>1, <1>2, <1>3
  <2>2. QED BY <2>1 DEF Manual
<1>6. n \in Nat
  BY <1>2
<1> HIDE DEF n
<1>7. s \in Seq(Int) /\ Len(s) = n
  BY <1>5, <1>6
<1>8. \A j \in 1..n : A[j] = {}
  OBVIOUS
<1> HIDE DEF s, A
<1>9. Counts(s, A)
  <2>1. IsFiniteSet({}) /\ Cardinality({}) = 0
    BY FS_EmptySet
  <2>2. QED BY <1>5, <1>7, <1>8, <2>1 DEF Counts
<1>10. Total(s) = Cardinality(UNION {A[j] : j \in 1..n})
  BY <1>7, <1>9, TotalOfCards
<1>11. UNION {A[j] : j \in 1..n} = {}
  BY <1>8
<1>12. Total(s) = 0
  BY <1>10, <1>11, FS_EmptySet
<1>13. QED BY <1>3, <1>4, <1>12

\* The figure that is worked out from the times is the number of minutes of
\* the run without the breaks.
LEMMA RunTimeCounts ==
  ASSUME NEW shift \in Shifts, NEW sheet \in Sheets,
         IntervalsOf(sheet, shift, {"running"}) # << >>
  PROVE  LET ran == Minutes(IntervalsOf(sheet, shift, {"running"}))
             broke == Minutes(IntervalsOf(sheet, shift, {"breakShift"}))
         IN  /\ HasTimeEntries(sheet) /\ IsFiniteSet(ran)
             /\ calculateOeeTimeMetrics(sheet, shift).run = Cardinality(ran \ broke)
<1>1. sheet \in Seq(Row)
  BY SheetConstants
<1>2. /\ \E k \in DOMAIN sheet : sheet[k].key = "running" /\ sheet[k].times # << >>
      /\ ManualOf(sheet, {"running"}) = 0
  BY RunHasTimes
<1>3. calculateOeeTimeMetrics(sheet, shift).run = RunTime(sheet, shift)
  <2>1. PICK has : has = \E k \in DOMAIN sheet :
                           /\ sheet[k].key = "running"
                           /\ sheet[k].times # << >> \/ sheet[k].minutes # Absent
    OBVIOUS
  <2>2. has
    BY <1>2, <2>1
  <2>3. QED BY <2>1, <2>2 DEF calculateOeeTimeMetrics
<1>4. PICK A, B : /\ A = Minutes(IntervalsOf(sheet, shift, {"running"}))
                  /\ B = Minutes(IntervalsOf(sheet, shift, {"breakShift"}))
  OBVIOUS
<1>5. /\ IsFiniteSet(A)
      /\ duration(IntervalsOf(sheet, shift, {"running"})) = Cardinality(A)
  <2>1. IntervalsOf(sheet, shift, {"running"}) \in Seq(Intervals)
    BY <1>1, RowsOf
  <2>2. QED BY <1>4, <2>1, DurationCounts
<1>6. BreakOverlap(sheet, shift) = Cardinality(A \cap B)
  BY <1>1, <1>4, OverlapCounts
<1>7. /\ Cardinality(A) \in Nat /\ Cardinality(A \ B) \in Nat /\ Cardinality(A \cap B) \in Nat
      /\ Cardinality(A \ B) = Cardinality(A) - Cardinality(A \cap B)
  <2>1. IsFiniteSet(A \ B) /\ IsFiniteSet(A \cap B)
        /\ Cardinality(A \ B) = Cardinality(A) - Cardinality(A \cap B)
    BY <1>5, FS_Difference, FS_Intersection
  <2>2. QED BY <1>5, <2>1, FS_CardinalityType
<1>8. RunTime(sheet, shift) = Cardinality(A \ B)
  BY <1>2, <1>5, <1>6, <1>7 DEF RunTime, Greater
<1>9. HasTimeEntries(sheet)
  BY <1>2 DEF HasTimeEntries
<1>10. QED BY <1>3, <1>4, <1>5, <1>8, <1>9

\* Three counts of the minutes a machine ran: what is stored, what the time
\* line shows and what the clock beside the machine showed.
LEMMA RunIsRight ==
  ASSUME NEW row, Kept(row), TimedRun(row), NearShift(row)
  PROVE  LET ran == RowMinutes(row.sheet, "running") \ RowMinutes(row.sheet, "breakShift")
         IN  /\ row.run = Cardinality(ran)
             /\ row.run = Cardinality(Minutes(buildRun(row)))
             /\ {m % Day : m \in Minutes(buildRun(row))} = ran
<1>1. row \in Stored
  BY KeptRows
<1>2. PICK sheet, shift, date : sheet = row.sheet /\ shift = row.shift /\ date = row.date
  OBVIOUS
<1>3. sheet \in Sheets /\ shift \in Shifts /\ date \in Dates
  BY <1>1, <1>2 DEF Stored
<1>4. date \in Int /\ sheet \in Seq(Row)
  BY <1>3, SheetConstants
<1>5. Day \in Nat /\ Day > 0 /\ Middle(shift) \in Nat
  BY <1>3, WindowOf
<1>6. IntervalsOf(sheet, shift, {"running"}) # << >>
  BY <1>2 DEF TimedRun
<1>7. PICK A, B, D, c : /\ A = Minutes(IntervalsOf(sheet, shift, {"running"}))
                        /\ B = Minutes(IntervalsOf(sheet, shift, {"breakShift"}))
                        /\ D = Day /\ c = Middle(shift)
  OBVIOUS
<1>8. row.run = Cardinality(A \ B) /\ IsFiniteSet(A)
  <2>1. /\ HasTimeEntries(sheet) /\ IsFiniteSet(A)
        /\ calculateOeeTimeMetrics(sheet, shift).run = Cardinality(A \ B)
    BY <1>3, <1>6, <1>7, RunTimeCounts
  <2>2. PICK r \in SheetRecords : row = r \/ row = Voided(r)
    BY DEF Kept
  <2>3. /\ r \in Stored /\ HasTimeEntries(r.sheet)
             => r.run = calculateOeeTimeMetrics(r.sheet, r.shift).run
    BY RecordsAreRows
  <2>4. row.run = r.run /\ sheet = r.sheet /\ shift = r.shift
    <3>1. r \in Stored
      BY RecordsAreRows
    <3>2. QED BY <1>2, <2>2, <3>1 DEF Voided, Stored
  <2>5. r.run = calculateOeeTimeMetrics(r.sheet, r.shift).run
    BY <2>1, <2>4, RecordsAreRows
  <2>6. QED BY <2>1, <2>4, <2>5
<1>9. Minutes(buildRun(row)) = {date * Day + m : m \in A \ B}
  BY <1>1, <1>2, <1>7, RunOf
<1>10. \A m \in A \cup B : m \in Int /\ 2 * m >= c - D /\ 2 * m < c + D
  <2>1. "running" \in RowKeys /\ "breakShift" \in RowKeys
    BY DEF RowKeys, PlannedKeys
  <2>2. \A m \in A : m \in Int /\ 2 * m >= Middle(shift) - Day /\ 2 * m < Middle(shift) + Day
    BY <1>1, <1>2, <1>7, <2>1, NearMinutes
  <2>3. \A m \in B : m \in Int /\ 2 * m >= Middle(shift) - Day /\ 2 * m < Middle(shift) + Day
    BY <1>1, <1>2, <1>7, <2>1, NearMinutes
  <2>4. QED BY <1>7, <2>2, <2>3
<1>11. ASSUME NEW m \in A \cup B, NEW n \in A \cup B, m % D = n % D PROVE m = n
  <2>1. m \in Int /\ n \in Int /\ D \in Nat /\ c \in Nat /\ D > 0
    BY <1>5, <1>7, <1>10
  <2>2. 2 * m >= c - D /\ 2 * m < c + D /\ 2 * n >= c - D /\ 2 * n < c + D
    BY <1>10
  <2>3. m - n < D /\ n - m < D
    BY <2>1, <2>2
  <2>4. QED BY <1>11, <2>1, <2>3, LessThanADay
<1>12. /\ {m % D : m \in A} = RowMinutes(sheet, "running")
       /\ {m % D : m \in B} = RowMinutes(sheet, "breakShift")
  BY <1>3, <1>4, <1>7, OfOneKey
<1> DEFINE ran == RowMinutes(sheet, "running") \ RowMinutes(sheet, "breakShift")
<1>13. {m % D : m \in A \ B} = ran
  BY <1>11, <1>12
<1>14. Cardinality(ran) = Cardinality(A \ B)
  <2> DEFINE f == [m \in A \ B |-> m % D]
  <2>1. IsFiniteSet(A \ B)
    BY <1>8, FS_Difference
  <2>2. /\ DOMAIN f = A \ B /\ f = [m \in A \ B |-> f[m]]
        /\ \A m, n \in A \ B : f[m] = f[n] => m = n
    BY <1>11
  <2>3. {f[m] : m \in A \ B} = ran
    BY <1>13
  <2> HIDE DEF f, ran
  <2>4. QED BY <2>1, <2>2, <2>3, Counted
<1>15. Cardinality(Minutes(buildRun(row))) = Cardinality(A \ B)
  <2> DEFINE f == [m \in A \ B |-> date * Day + m]
  <2>1. IsFiniteSet(A \ B)
    BY <1>8, FS_Difference
  <2>2. PICK p \in Int : p = date * Day
    BY <1>4, <1>5
  <2>3. \A m \in A \ B : f[m] = p + m /\ m \in Int
    BY <1>10, <2>2
  <2>4. /\ DOMAIN f = A \ B /\ f = [m \in A \ B |-> f[m]]
        /\ \A m, n \in A \ B : f[m] = f[n] => m = n
    <3>1. ASSUME NEW m \in A \ B, NEW n \in A \ B, f[m] = f[n] PROVE m = n
      <4>1. p + m = p + n /\ m \in Int /\ n \in Int
        BY <2>3, <3>1
      <4>2. QED BY <2>2, <4>1
    <3>2. DOMAIN f = A \ B /\ f = [m \in A \ B |-> f[m]]
      OBVIOUS
    <3> HIDE DEF f
    <3>3. QED BY <3>1, <3>2
  <2>5. {f[m] : m \in A \ B} = Minutes(buildRun(row))
    BY <1>9
  <2> HIDE DEF f
  <2>6. QED BY <2>1, <2>4, <2>5, Counted
<1>16. {m % Day : m \in Minutes(buildRun(row))} = ran
  <2>1. \A m \in A \ B : (date * Day + m) % Day = m % D
    BY <1>4, <1>5, <1>7, <1>10, SameTime
  <2>2. {m % Day : m \in Minutes(buildRun(row))} = {(date * Day + m) % Day : m \in A \ B}
    BY <1>9
  <2>3. {(date * Day + m) % Day : m \in A \ B} = {m % D : m \in A \ B}
    BY <2>1
  <2>4. QED BY <1>13, <2>2, <2>3
<1>17. QED BY <1>2, <1>8, <1>14, <1>15, <1>16

LEMMA RunsAreRight ==
  ASSUME SheetInv
  PROVE  RunMinutesAreRight
<1> SUFFICES ASSUME NEW i \in DOMAIN records, TimedRun(records[i]), NearShift(records[i])
             PROVE  LET r == records[i]
                        ran == RowMinutes(r.sheet, "running")
                                 \ RowMinutes(r.sheet, "breakShift")
                    IN  /\ r.run = Cardinality(ran)
                        /\ r.run = Cardinality(Run(i))
                        /\ {m % Day : m \in Run(i)} = ran
  BY DEF RunMinutesAreRight
<1>1. PICK row : row = records[i]
  OBVIOUS
<1>2. Kept(row) /\ TimedRun(row) /\ NearShift(row)
  BY <1>1 DEF SheetInv, RecordsKept
<1>3. Run(i) = Minutes(buildRun(row))
  BY <1>1 DEF Run
<1>4. QED BY <1>1, <1>2, <1>3, RunIsRight

-----------------------------------------------------------------------------
(* Time that records share.                                                *)

\* The rounds of a product.
LEMMA NumbersMultiplied ==
  ASSUME NEW n \in Nat
  PROVE  \E f \in [0..n -> Nat] :
           /\ f[0] = 1 /\ f[n] = FoldLeft(LAMBDA product, k : product * k, 1,
                                          [k \in 1..n |-> k])
           /\ \A k \in 1..n : f[k] = f[k - 1] * k
<1> DEFINE s == [k \in 1..n |-> k]
           G == [p \in Nat \X (1..n) |-> p[1] * p[2]]
           Round(g, S) == IF S = {} THEN 1 ELSE g[S \ {Max(S)}] * s[Max(S)]
           Fits(g) == g = [S \in SUBSET (1..n) |-> Round(g, S)]
           c == CHOOSE g : Fits(g)
           product == FoldLeft(LAMBDA p, k : p * k, 1, s)
<1>1. DOMAIN s = 1..n /\ \A k \in 1..n : s[k] = k
  OBVIOUS
<1>2. product = c[1..n]
  BY <1>1 DEF FoldLeft, MapThenFoldSet
<1> HIDE DEF product
<1>3. G \in [Nat \X (1..n) -> Nat] /\ 1 \in Nat
  OBVIOUS
<1>4. \A x \in Nat, k \in 1..n : <<x, k>> \in Nat \X (1..n) /\ G[<<x, k>>] = x * k
  OBVIOUS
<1>5. \A S \in SUBSET (1..n) : S # {} => Max(S) \in 1..n
  BY LastPosition
<1>6. PICK g \in [SUBSET (1..n) -> Nat] : IsFold(G, 1, n, g)
  <2> HIDE DEF G
  <2>1. QED BY <1>3, FoldExists
<1>7. Fits(g)
  <2>1. ASSUME NEW S \in SUBSET (1..n) PROVE NextFold(G, 1, g, S) = Round(g, S)
    BY <1>1, <1>4, <1>5 DEF NextFold
  <2> HIDE DEF Round, G
  <2>2. QED BY <1>6, <2>1 DEF IsFold, Folded
<1>8. \A S \in SUBSET (1..n) : c[S] = Round(c, S)
  <2>1. Fits(c)
    <3> HIDE DEF Fits
    <3>1. QED BY <1>7
  <2> HIDE DEF Round, c
  <2>2. QED BY <2>1
<1>9. c[{}] = 1 /\ FoldsOn(G, Nat, n, c)
  <2>1. c[{}] = 1
    BY <1>8
  <2>2. ASSUME NEW S \in SUBSET (1..n), S # {}, c[S \ {Max(S)}] \in Nat
        PROVE  c[S] = G[<<c[S \ {Max(S)}], Max(S)>>]
    <3>1. PICK k, x : k = Max(S) /\ x = c[S \ {Max(S)}]
      OBVIOUS
    <3>2. k \in 1..n /\ s[k] = k
      BY <1>1, <1>5, <2>2, <3>1
    <3>3. c[S] = x * s[k]
      BY <1>8, <2>2, <3>1
    <3>4. G[<<x, k>>] = x * k
      BY <1>4, <2>2, <3>1, <3>2
    <3>5. QED BY <3>1, <3>2, <3>3, <3>4
  <2> HIDE DEF G, c
  <2>3. QED BY <2>1, <2>2 DEF FoldsOn
<1>10. PICK f \in [0..n -> Nat] : FromTo(G, 1, c[1..n], n, f)
  <2> HIDE DEF G, c
  <2>1. QED BY <1>3, <1>9, Rounds
<1>11. f[0] = 1 /\ f[n] = c[1..n] /\ \A k \in 1..n : f[k] = G[<<f[k - 1], k>>]
  <2> HIDE DEF G, c
  <2>1. QED BY <1>10 DEF FromTo
<1>12. \A k \in 1..n : f[k] = f[k - 1] * k
  <2>1. \A k \in 1..n : f[k - 1] \in Nat
    OBVIOUS
  <2> HIDE DEF c
  <2>2. QED BY <1>4, <1>11, <2>1
<1>13. f[n] = product
  BY <1>2, <1>11
<1>14. QED BY <1>11, <1>12, <1>13 DEF product

\* Any number of records divides a minute without a rest.
LEMMA PartsDivide ==
  ASSUME NEW m \in 1..Cardinality(Ids)
  PROVE  Parts \in Nat /\ Parts \div m \in Nat /\ m * (Parts \div m) = Parts
<1>1. PICK n : n = Cardinality(Ids)
  OBVIOUS
<1>2. n \in Nat
  BY <1>1, FS_CardinalityType, SheetConstants
<1>3. PICK f \in [0..n -> Nat] :
        /\ f[0] = 1 /\ f[n] = FoldLeft(LAMBDA product, k : product * k, 1, [k \in 1..n |-> k])
        /\ \A k \in 1..n : f[k] = f[k - 1] * k
  BY <1>2, NumbersMultiplied
<1>4. f[n] = Parts
  BY <1>1, <1>3 DEF Parts
<1> DEFINE Good == {k \in 0..n : \A j \in 1..k : \E q \in Nat : f[k] = j * q}
<1>5. 0 \in Good
  BY <1>2
<1>6. ASSUME NEW k \in 1..n, k - 1 \in Good PROVE k \in Good
  <2>1. ASSUME NEW j \in 1..k PROVE \E q \in Nat : f[k] = j * q
    <3>1. f[k] = f[k - 1] * k /\ f[k - 1] \in Nat /\ k \in Nat /\ j \in Nat
      <4>1. k - 1 \in 0..n /\ k \in Nat /\ j \in Nat
        BY <1>2
      <4>2. f[k - 1] \in Nat
        BY <4>1
      <4>3. f[k] = f[k - 1] * k
        BY <1>3
      <4>4. QED BY <4>1, <4>2, <4>3
    <3>2. CASE j = k
      <4>1. PICK q \in Nat : q = f[k - 1]
        BY <3>1
      <4>2. f[k] = q * k /\ q * k = k * q
        BY <3>1, <4>1
      <4>3. QED BY <3>2, <4>2
    <3>3. CASE j # k
      <4>1. j \in 1..(k - 1)
        BY <3>1, <3>3
      <4>2. PICK q \in Nat : f[k - 1] = j * q
        BY <1>6, <4>1
      <4>3. (j * q) * k = j * (q * k) /\ q * k \in Nat
        BY <3>1
      <4>4. f[k] = j * (q * k)
        BY <3>1, <4>2, <4>3
      <4>5. QED BY <4>3, <4>4
    <3>4. QED BY <3>2, <3>3
  <2>2. QED BY <1>2, <2>1
<1>7. n \in Good
  <2>1. \A k \in 1..n : k - 1 \in Good => k \in Good
    BY <1>6
  <2> HIDE DEF Good
  <2>2. \A k \in 0..n : k \in Good
    BY <1>2, <1>5, <2>1, StepByStep
  <2>3. QED BY <1>2, <2>2
<1>8. PICK q \in Nat : Parts = m * q
  BY <1>1, <1>4, <1>7
<1>9. PICK e, P : e = Parts \div m /\ P = Parts
  OBVIOUS
<1>10. m \in Nat /\ m > 0 /\ P \in Int /\ P \in Nat
  <2>1. n \in 0..n
    BY <1>2
  <2>2. P \in Nat
    BY <1>4, <1>9, <2>1
  <2>3. m \in Nat /\ m > 0
    BY <1>1, <1>2
  <2>4. QED BY <2>2, <2>3
<1>11. e \in Int /\ e * m <= P /\ P < e * m + m
  BY <1>9, <1>10, Divided
<1>12. q = e
  <2>1. PICK g \in Int : g = q - e
    <3>1. q - e \in Int
      BY <1>11
    <3>2. QED BY <3>1
  <2>2. P = g * m + e * m
    <3>1. q = g + e
      BY <1>11, <2>1
    <3>2. m * q = g * m + e * m
      BY <1>10, <1>11, <3>1
    <3>3. QED BY <1>8, <1>9, <3>2
  <2>3. g * m \in Int /\ e * m \in Int
    BY <1>10, <1>11
  <2>4. g * m < m /\ -(g * m) < m
    BY <1>10, <1>11, <2>2, <2>3
  <2>5. g = 0
    BY <1>10, <2>4, NoWholeDay
  <2>6. QED BY <1>11, <2>1, <2>5
<1>13. QED BY <1>8, <1>9, <1>10, <1>12

\* Some summands grow by the same.
LEMMA SumRaised ==
  ASSUME NEW S, IsFiniteSet(S), NEW A \in SUBSET S, NEW c \in Nat, NEW f, NEW g,
         \A x \in S : f[x] \in Nat /\ g[x] = IF x \in A THEN f[x] + c ELSE f[x]
  PROVE  SumOf(g, S) = SumOf(f, S) + Cardinality(A) * c
<1> DEFINE Bad == {T \in SUBSET S : SumOf(g, T) # SumOf(f, T) + Cardinality(A \cap T) * c}
<1>1. A \cap S = A
  OBVIOUS
<1> SUFFICES ASSUME Bad # {} PROVE FALSE
  BY <1>1
<1>2. PICK T \in Bad : \A U \in Bad : U \subseteq T => U = T
  <2> HIDE DEF Bad
  <2>1. Bad \in SUBSET SUBSET S
    BY DEF Bad
  <2>2. QED BY <2>1, LeastSubset
<1>3. \A x \in S : f[x] \in Nat /\ g[x] \in Nat
  OBVIOUS
<1>4. T # {}
  <2>1. CASE T = {}
    <3>1. A \cap T = {} /\ Cardinality(A \cap T) = 0
      BY <2>1, FS_EmptySet
    <3>2. Cardinality(A \cap T) * c = 0
      <4>1. 0 * c = 0
        OBVIOUS
      <4>2. QED BY <3>1, <4>1
    <3>3. QED BY <1>2, <2>1, <3>2, SumEmpty
  <2>2. QED BY <2>1
<1>5. PICK x \in T : TRUE
  BY <1>4
<1> DEFINE U == T \ {x}
<1>6. IsFiniteSet(T) /\ IsFiniteSet(U) /\ IsFiniteSet(A \cap T) /\ IsFiniteSet(A \cap U)
  BY FS_Subset
<1>7. SumOf(g, U) = SumOf(f, U) + Cardinality(A \cap U) * c
  <2>1. U \notin Bad /\ U \in SUBSET S
    BY <1>2, <1>5
  <2>2. QED BY <2>1
<1>8. /\ SumOf(g, T) = g[x] + SumOf(g, U) /\ SumOf(f, T) = f[x] + SumOf(f, U)
      /\ SumOf(f, U) \in Nat /\ SumOf(g, U) \in Nat
  BY <1>3, <1>6, SumRemove, SumType
<1>9. Cardinality(A \cap U) \in Nat /\ f[x] \in Nat
      /\ g[x] = IF x \in A THEN f[x] + c ELSE f[x]
  BY <1>6, FS_CardinalityType
<1>10. SumOf(g, T) # SumOf(f, T) + Cardinality(A \cap T) * c
  BY <1>2
<1> HIDE DEF U
<1>11. CASE x \in A
  <2>1. Cardinality(A \cap T) = Cardinality(A \cap U) + 1
    <3>1. A \cap T = (A \cap U) \cup {x} /\ x \notin A \cap U
      BY <1>11 DEF U
    <3>2. QED BY <1>6, <3>1, FS_AddElement
  <2>2. (Cardinality(A \cap U) + 1) * c = Cardinality(A \cap U) * c + c
        /\ Cardinality(A \cap U) * c \in Nat
    BY <1>9
  <2>3. QED BY <1>7, <1>8, <1>9, <1>10, <1>11, <2>1, <2>2
<1>12. CASE x \notin A
  <2>1. A \cap T = A \cap U
    BY <1>12 DEF U
  <2>2. PICK p \in Nat : p = Cardinality(A \cap U) * c
    BY <1>9
  <2>3. SumOf(g, T) = f[x] + (SumOf(f, U) + p)
    BY <1>7, <1>8, <1>9, <1>12, <2>2
  <2>4. SumOf(f, T) + p = f[x] + (SumOf(f, U) + p)
    BY <1>8, <1>9, <2>2
  <2>5. QED BY <1>10, <2>1, <2>2, <2>3, <2>4
<1>13. QED BY <1>11, <1>12

\* What a function makes of a finite set.
LEMMA FiniteImage ==
  ASSUME NEW S, IsFiniteSet(S), NEW f, f = [x \in S |-> f[x]]
  PROVE  IsFiniteSet({f[x] : x \in S})
<1>1. PICK T : T = {f[x] : x \in S}
  OBVIOUS
<1>2. f \in Surjection(S, T)
  BY <1>1 DEF Surjection
<1>3. QED BY <1>1, <1>2, FS_Surjection

\* Finitely many numbers have a least and a greatest.
Bounded(T) == T # {} => /\ \E x \in T : \A y \in T : x <= y
                        /\ \E x \in T : \A y \in T : y <= x

LEMMA Extremes ==
  ASSUME NEW S, IsFiniteSet(S), S # {}, \A x \in S : x \in Int
  PROVE  /\ \E x \in S : \A y \in S : x <= y
         /\ \E x \in S : \A y \in S : y <= x
<1> DEFINE Bad == {T \in SUBSET S : ~Bounded(T)}
<1> SUFFICES ASSUME Bad # {} PROVE FALSE
  BY DEF Bounded
<1>1. PICK T \in Bad : \A U \in Bad : U \subseteq T => U = T
  <2> HIDE DEF Bad
  <2>1. Bad \in SUBSET SUBSET S
    BY DEF Bad
  <2>2. QED BY <2>1, LeastSubset
<1>2. PICK z \in T : TRUE
  BY <1>1 DEF Bounded
<1>3. Bounded(T \ {z}) /\ ~Bounded(T)
  <2>1. T \ {z} \in SUBSET S /\ T \ {z} # T
    BY <1>1, <1>2
  <2>2. T \ {z} \notin Bad
    BY <1>1, <2>1
  <2>3. QED BY <1>1, <2>1, <2>2
<1>4. \A x \in T : x \in Int
  BY <1>1
<1>5. CASE T \ {z} = {}
  <2>1. \A y \in T : y = z
    BY <1>5
  <2>2. Bounded(T)
    BY <1>2, <1>4, <2>1 DEF Bounded
  <2>3. QED BY <1>3, <2>2
<1>6. CASE T \ {z} # {}
  <2>1. PICK a \in T \ {z} : \A y \in T \ {z} : a <= y
    BY <1>3, <1>6 DEF Bounded
  <2>2. PICK b \in T \ {z} : \A y \in T \ {z} : y <= b
    BY <1>3, <1>6 DEF Bounded
  <2>3. \E x \in T : \A y \in T : x <= y
    <3>1. CASE a <= z
      BY <1>4, <2>1, <3>1
    <3>2. CASE z <= a
      BY <1>4, <2>1, <3>2
    <3>3. QED BY <1>4, <3>1, <3>2
  <2>4. \E x \in T : \A y \in T : y <= x
    <3>1. CASE z <= b
      BY <1>4, <2>2, <3>1
    <3>2. CASE b <= z
      BY <1>4, <2>2, <3>2
    <3>3. QED BY <1>4, <3>1, <3>2
  <2>5. QED BY <1>3, <2>3, <2>4 DEF Bounded
<1>7. QED BY <1>5, <1>6

\* Stretches between neighbouring points do not overlap, and there is one for
\* every minute between two points.
LEMMA SegmentsApart ==
  ASSUME NEW P \in SUBSET Int, NEW s \in Segments(P), NEW t \in Segments(P), s # t
  PROVE  Span(s) \cap Span(t) = {}
<1>1. PICK a, b, c, d : a = s[1] /\ b = s[2] /\ c = t[1] /\ d = t[2]
  OBVIOUS
<1>2. /\ a \in P /\ b \in P /\ c \in P /\ d \in P /\ a < b /\ c < d
      /\ \A x \in P : x <= a \/ b <= x
      /\ \A x \in P : x <= c \/ d <= x
      /\ s = <<a, b>> /\ t = <<c, d>>
  BY <1>1 DEF Segments
<1>3. a \in Int /\ b \in Int /\ c \in Int /\ d \in Int
  BY <1>2
<1>4. b <= c \/ d <= a
  <2>1. (a <= c \/ d <= a) /\ (b <= c \/ d <= b) /\ (c <= a \/ b <= c) /\ (d <= a \/ b <= d)
    BY <1>2
  <2>2. a # c \/ b # d
    BY <1>2
  <2>3. QED BY <1>2, <1>3, <2>1, <2>2
<1>5. Span(s) = a .. (b - 1) /\ Span(t) = c .. (d - 1)
  BY <1>1 DEF Span
<1>6. QED BY <1>3, <1>4, <1>5

LEMMA SegmentOf ==
  ASSUME NEW P \in SUBSET Int, IsFiniteSet(P), NEW m \in Int,
         \E x \in P : x <= m, \E x \in P : m < x
  PROVE  \E s \in Segments(P) : m \in Span(s)
<1> DEFINE L == {x \in P : x <= m}
           R == {x \in P : m < x}
<1>1. PICK a \in L : \A y \in L : y <= a
  <2>1. IsFiniteSet(L) /\ L # {} /\ \A x \in L : x \in Int
    BY FS_Subset
  <2> HIDE DEF L
  <2>2. QED BY <2>1, Extremes
<1>2. PICK b \in R : \A y \in R : b <= y
  <2>1. IsFiniteSet(R) /\ R # {} /\ \A x \in R : x \in Int
    BY FS_Subset
  <2> HIDE DEF R
  <2>2. QED BY <2>1, Extremes
<1>3. /\ a \in P /\ b \in P /\ a \in Int /\ b \in Int /\ a <= m /\ m < b
      /\ \A x \in P : x <= a \/ b <= x
  BY <1>1, <1>2
<1>4. PICK s : s = <<a, b>>
  OBVIOUS
<1>5. s \in P \X P /\ s[1] = a /\ s[2] = b /\ a < b
  BY <1>3, <1>4
<1>6. s \in Segments(P)
  BY <1>3, <1>5 DEF Segments
<1>7. m \in Span(s)
  BY <1>3, <1>5 DEF Span
<1>8. QED BY <1>6, <1>7

\* The intervals of some records.
Lists(ids, iv) == \A r \in ids : iv[r] \in Seq(Intervals)

LEMMA PointsOf ==
  ASSUME NEW ids, IsFiniteSet(ids), NEW iv, Lists(ids, iv)
  PROVE  /\ Points(ids, iv) \subseteq Int /\ IsFiniteSet(Points(ids, iv))
         /\ IsFiniteSet(Segments(Points(ids, iv)))
         /\ \A r \in ids : \A i \in Range(iv[r]) : /\ i \in Intervals
                                                   /\ i[1] \in Points(ids, iv)
                                                   /\ i[2] \in Points(ids, iv)
<1>1. PICK All : All = UNION {Range(iv[r]) : r \in ids}
  OBVIOUS
<1>2. \A r \in ids : \A i \in Range(iv[r]) : i \in Intervals /\ i \in All
  <2>1. ASSUME NEW r \in ids, NEW i \in Range(iv[r]) PROVE i \in Intervals
    <3>1. iv[r] \in Seq(Intervals)
      BY DEF Lists
    <3>2. QED BY <3>1, RangeOf
  <2>2. QED BY <1>1, <2>1
<1>3. \A i \in All : i \in Intervals
  BY <1>1, <1>2
<1>4. IsFiniteSet(All)
  <2> DEFINE f == [r \in ids |-> Range(iv[r])]
  <2>1. ASSUME NEW r \in ids PROVE IsFiniteSet(Range(iv[r]))
    <3> DEFINE s == iv[r]
               n == Len(s)
    <3>1. s \in Seq(Intervals)
      BY DEF Lists
    <3>2. n \in Nat /\ DOMAIN s = 1..n /\ s = [k \in 1..n |-> s[k]]
      BY <3>1
    <3>3. Range(s) = {s[k] : k \in 1..n}
      BY <3>2, RangeOf
    <3> HIDE DEF s, n
    <3>4. IsFiniteSet(1..n)
      BY <3>2, FS_Interval
    <3>5. IsFiniteSet({s[k] : k \in 1..n})
      BY <3>2, <3>4, FiniteImage
    <3>6. QED BY <3>3, <3>5 DEF s
  <2>2. f = [r \in ids |-> f[r]] /\ {f[r] : r \in ids} = {Range(iv[r]) : r \in ids}
    OBVIOUS
  <2>3. IsFiniteSet({f[r] : r \in ids})
    <3> HIDE DEF f
    <3>1. QED BY <2>2, FiniteImage
  <2>4. \A T \in {Range(iv[r]) : r \in ids} : IsFiniteSet(T)
    BY <2>1
  <2>5. QED BY <1>1, <2>2, <2>3, <2>4, FS_UNION
<1>5. PICK E : E = {{i[1], i[2]} : i \in All}
  OBVIOUS
<1>6. Points(ids, iv) = UNION E
  BY <1>1, <1>5 DEF Points
<1>7. IsFiniteSet(E) /\ \A T \in E : IsFiniteSet(T)
  <2> DEFINE f == [i \in All |-> {i[1], i[2]}]
  <2>1. f = [i \in All |-> f[i]] /\ {f[i] : i \in All} = E
    BY <1>5
  <2>2. IsFiniteSet({f[i] : i \in All})
    <3> HIDE DEF f
    <3>1. QED BY <1>4, <2>1, FiniteImage
  <2>3. ASSUME NEW T \in E PROVE IsFiniteSet(T)
    <3>1. PICK i \in All : T = {i[1], i[2]}
      BY <1>5
    <3>2. IsFiniteSet({i[1]})
      BY FS_Singleton
    <3>3. IsFiniteSet({i[1]} \cup {i[2]})
      BY <3>2, FS_AddElement
    <3>4. T = {i[1]} \cup {i[2]}
      BY <3>1
    <3>5. QED BY <3>3, <3>4
  <2>4. QED BY <2>1, <2>2, <2>3
<1>8. IsFiniteSet(UNION E)
  BY <1>7, FS_UNION
<1>9. ASSUME NEW i \in All PROVE i[1] \in UNION E /\ i[2] \in UNION E
  <2>1. {i[1], i[2]} \in E
    BY <1>5
  <2>2. QED BY <2>1
<1>10. UNION E \subseteq Int
  <2>1. \A i \in All : i[1] \in Int /\ i[2] \in Int
    BY <1>3 DEF Intervals, Pairs
  <2>2. QED BY <1>5, <2>1
<1>11. IsFiniteSet(Segments(Points(ids, iv)))
  <2>1. IsFiniteSet((UNION E) \X (UNION E))
    BY <1>8, FS_Product
  <2>2. Segments(UNION E) \subseteq (UNION E) \X (UNION E)
    BY DEF Segments
  <2>3. IsFiniteSet(Segments(UNION E))
    BY <2>1, <2>2, FS_Subset
  <2>4. QED BY <1>6, <2>3
<1>12. QED BY <1>2, <1>6, <1>8, <1>9, <1>10, <1>11

\* The minutes of some stretches that records have.
Covered(ids, iv, V) == UNION {Span(s) : s \in {s \in V : Active(ids, iv, s) # {}}}

LEMMA AllCovered ==
  ASSUME NEW ids, IsFiniteSet(ids), NEW iv, Lists(ids, iv)
  PROVE  Covered(ids, iv, Segments(Points(ids, iv))) = UNION {Minutes(iv[r]) : r \in ids}
<1>1. PICK P : P = Points(ids, iv)
  OBVIOUS
<1>2. /\ P \in SUBSET Int /\ IsFiniteSet(P)
      /\ \A r \in ids : \A i \in Range(iv[r]) : i \in Intervals /\ i[1] \in P /\ i[2] \in P
  BY <1>1, PointsOf
<1>3. \A r \in ids : Minutes(iv[r]) = UNION {Span(i) : i \in Range(iv[r])}
  <2>1. ASSUME NEW r \in ids PROVE Minutes(iv[r]) = UNION {Span(i) : i \in Range(iv[r])}
    <3>1. iv[r] \in Seq(Intervals)
      BY DEF Lists
    <3>2. iv[r] \in Seq(Pairs)
      BY <3>1 DEF Intervals
    <3>3. QED BY <3>2, MinutesOf
  <2>2. QED BY <2>1
<1>4. ASSUME NEW s \in Segments(P), Active(ids, iv, s) # {}, NEW m \in Span(s)
      PROVE  \E r \in ids : m \in Minutes(iv[r])
  <2>1. PICK r \in ids : r \in Active(ids, iv, s)
    BY <1>4 DEF Active
  <2>2. PICK i \in Range(iv[r]) : i[1] < s[2] /\ i[2] > s[1]
    BY <2>1 DEF Active
  <2>3. PICK a, b, c, d : a = s[1] /\ b = s[2] /\ c = i[1] /\ d = i[2]
    OBVIOUS
  <2>4. /\ a \in Int /\ b \in Int /\ c \in Int /\ d \in Int
        /\ c < b /\ d > a /\ (c <= a \/ b <= c) /\ (d <= a \/ b <= d)
    BY <1>2, <2>2, <2>3 DEF Segments
  <2>5. m \in a .. (b - 1)
    BY <2>3 DEF Span
  <2>6. m \in c .. (d - 1)
    BY <2>4, <2>5
  <2>7. m \in Span(i)
    BY <2>3, <2>6 DEF Span
  <2>8. QED BY <1>3, <2>7
<1>5. ASSUME NEW r \in ids, NEW m \in Minutes(iv[r])
      PROVE  \E s \in Segments(P) : Active(ids, iv, s) # {} /\ m \in Span(s)
  <2>1. PICK i \in Range(iv[r]) : m \in Span(i)
    BY <1>3
  <2>2. PICK c, d : c = i[1] /\ d = i[2]
    OBVIOUS
  <2>3. c \in P /\ d \in P /\ c \in Int /\ d \in Int
    BY <1>2, <2>2
  <2>4. m \in Int /\ c <= m /\ m < d
    BY <2>1, <2>2, <2>3 DEF Span
  <2>5. PICK s \in Segments(P) : m \in Span(s)
    BY <1>2, <2>3, <2>4, SegmentOf
  <2>6. PICK a, b : a = s[1] /\ b = s[2]
    OBVIOUS
  <2>7. a \in Int /\ b \in Int /\ m \in a .. (b - 1)
    BY <1>2, <2>5, <2>6 DEF Segments, Span
  <2>8. c < b /\ d > a
    BY <2>3, <2>4, <2>7
  <2>9. r \in Active(ids, iv, s)
    BY <2>2, <2>6, <2>8 DEF Active
  <2>10. QED BY <2>5, <2>9
<1>6. \A m : m \in Covered(ids, iv, Segments(P)) <=> m \in UNION {Minutes(iv[r]) : r \in ids}
  BY <1>4, <1>5 DEF Covered
<1>7. Covered(ids, iv, Segments(P)) = UNION {Minutes(iv[r]) : r \in ids}
  BY <1>6
<1>8. QED BY <1>1, <1>7

\* A stretch gives all its minutes away.
PartOf(ids, iv) == [s \in Segments(Points(ids, iv)) |-> Part(ids, iv, s)]

LEMMA PartsOfSegment ==
  ASSUME NEW ids \in SUBSET Ids, NEW iv, Lists(ids, iv),
         NEW s \in Segments(Points(ids, iv)), Active(ids, iv, s) # {}
  PROVE  /\ PartOf(ids, iv)[s] \in Nat
         /\ IsFiniteSet(Span(s)) /\ Cardinality(Span(s)) \in Nat
         /\ Cardinality(Active(ids, iv, s)) * PartOf(ids, iv)[s]
              = Parts * Cardinality(Span(s))
<1>1. IsFiniteSet(ids) /\ IsFiniteSet(Ids)
  BY FS_Subset, SheetConstants
<1>2. PICK a, b, n, q, P : /\ a = s[1] /\ b = s[2] /\ n = Cardinality(Active(ids, iv, s))
                           /\ q = Parts \div n /\ P = Parts
  OBVIOUS
<1>3. a \in Int /\ b \in Int /\ a < b
  BY <1>1, <1>2, PointsOf DEF Segments
<1>4. n \in 1..Cardinality(Ids)
  <2>1. IsFiniteSet(Active(ids, iv, s)) /\ n <= Cardinality(Ids) /\ n # 0
    <3>1. Active(ids, iv, s) \in SUBSET Ids
      BY DEF Active
    <3>2. QED BY <1>1, <1>2, <3>1, FS_Subset, FS_EmptySet
  <2>2. n \in Nat /\ Cardinality(Ids) \in Nat
    BY <1>1, <1>2, <2>1, FS_CardinalityType
  <2>3. QED BY <2>1, <2>2
<1>5. P \in Nat /\ q \in Nat /\ n * q = P
  BY <1>2, <1>4, PartsDivide
<1>6. IsFiniteSet(Span(s)) /\ Cardinality(Span(s)) = b - a
  <2>1. PICK c : c = b - 1
    OBVIOUS
  <2>2. c \in Int
    BY <1>3, <2>1
  <2>3. IsFiniteSet(a .. c) /\ Cardinality(a .. c) = IF a > c THEN 0 ELSE c - a + 1
    BY <1>3, <2>2, FS_Interval
  <2>4. (IF a > c THEN 0 ELSE c - a + 1) = b - a
    BY <1>3, <2>1
  <2>5. QED BY <1>2, <2>1, <2>3, <2>4 DEF Span
<1>7. PICK l \in Nat : l = b - a
  <2>1. b - a \in Nat
    BY <1>3
  <2>2. QED BY <2>1
<1>8. PartOf(ids, iv)[s] = l * q
  BY <1>2, <1>7 DEF PartOf, Part
<1>9. n * (l * q) = P * l
  <2>1. n \in Nat
    BY <1>1, <1>4, FS_CardinalityType
  <2>2. n * (l * q) = (n * q) * l
    BY <1>5, <1>7, <2>1
  <2>3. QED BY <1>5, <2>2
<1>10. l * q \in Nat
  BY <1>5, <1>7
<1>11. QED BY <1>2, <1>6, <1>7, <1>8, <1>9, <1>10

\* The stretches among some that a record is in, and what it gets of them.
Mine(ids, iv, V, r) == {s \in V : r \in Active(ids, iv, s)}

Given(ids, iv, V) == [r \in ids |-> SumOf(PartOf(ids, iv), Mine(ids, iv, V, r))]

LEMMA AllocatedIsGiven ==
  ASSUME NEW ids, IsFiniteSet(ids), NEW iv, Lists(ids, iv)
  PROVE  allocateIntervalUnion(ids, iv) = Given(ids, iv, Segments(Points(ids, iv)))
<1> DEFINE All == Segments(Points(ids, iv))
           f == PartOf(ids, iv)
           M(r) == Mine(ids, iv, All, r)
           Parted(S, g) == g = [u \in SUBSET S |->
                                  IF u = {} THEN 0
                                  ELSE Part(ids, iv, Pick(u)) + g[u \ {Pick(u)}]]
           total(S) == CHOOSE g : Parted(S, g)
<1>1. allocateIntervalUnion(ids, iv) = [r \in ids |-> total(M(r))[M(r)]]
  BY DEF allocateIntervalUnion, MapThenSumSet, MapThenFoldSet, Pick, Mine
<1>2. \A s \in All : f[s] = Part(ids, iv, s)
  BY DEF PartOf
<1>3. IsFiniteSet(All)
  BY PointsOf
<1>4. ASSUME NEW S \in SUBSET All PROVE total(S)[S] = SumOf(f, S)
  <2>1. IsFiniteSet(S)
    BY <1>3, FS_Subset
  <2>2. ASSUME NEW g PROVE Parted(S, g) <=> Defines(f, g, S)
    <3>1. ASSUME NEW u \in SUBSET S
          PROVE  NextSum(f, g, u) = IF u = {} THEN 0
                                    ELSE Part(ids, iv, Pick(u)) + g[u \ {Pick(u)}]
      <4> HIDE DEF f, All
      <4>1. QED BY <1>2, PickOne DEF NextSum
    <3> HIDE DEF f
    <3>2. QED BY <3>1 DEF Defines
  <2>3. PICK h : Defines(f, h, S) /\ SumOf(f, S) = h[S]
    BY <2>1, SumDefined
  <2> HIDE DEF f, Parted
  <2>4. Parted(S, total(S))
    BY <2>2, <2>3
  <2>5. Defines(f, total(S), S)
    BY <2>2, <2>4
  <2>6. total(S)[S] = h[S]
    <3>1. PICK g : g = total(S)
      OBVIOUS
    <3>2. g[S] = h[S]
      BY <2>1, <2>3, <2>5, <3>1, SumUnique
    <3>3. QED BY <3>1, <3>2
  <2>7. QED BY <2>3, <2>6
<1>5. \A r \in ids : M(r) \in SUBSET All
  BY DEF Mine
<1> HIDE DEF total, f, All
<1>6. \A r \in ids : total(M(r))[M(r)] = SumOf(f, M(r))
  BY <1>4, <1>5
<1>7. [r \in ids |-> total(M(r))[M(r)]] = [r \in ids |-> SumOf(f, M(r))]
  BY <1>6
<1>8. QED BY <1>1, <1>7 DEF Given, f, All

LEMMA PartsNumber == Parts \in Nat
<1>1. PICK n : n = Cardinality(Ids)
  OBVIOUS
<1>2. n \in Nat
  BY <1>1, FS_CardinalityType, SheetConstants
<1>3. PICK f \in [0..n -> Nat] :
        f[n] = FoldLeft(LAMBDA product, k : product * k, 1, [k \in 1..n |-> k])
  BY <1>2, NumbersMultiplied
<1>4. f[n] = Parts
  BY <1>1, <1>3 DEF Parts
<1>5. n \in 0..n
  BY <1>2
<1>6. QED BY <1>4, <1>5

\* One stretch more.
LEMMA OneStretchMore ==
  ASSUME NEW ids \in SUBSET Ids, NEW iv, Lists(ids, iv),
         NEW W \in SUBSET Segments(Points(ids, iv)),
         NEW y \in Segments(Points(ids, iv)), y \notin W,
         IsFiniteSet(Covered(ids, iv, W)),
         SumOf(Given(ids, iv, W), ids) = Parts * Cardinality(Covered(ids, iv, W))
  PROVE  /\ IsFiniteSet(Covered(ids, iv, W \cup {y}))
         /\ SumOf(Given(ids, iv, W \cup {y}), ids)
              = Parts * Cardinality(Covered(ids, iv, W \cup {y}))
<1> DEFINE All == Segments(Points(ids, iv))
           f == PartOf(ids, iv)
           A == Active(ids, iv, y)
           c == Covered(ids, iv, W)
           V == W \cup {y}
<1>1. IsFiniteSet(ids) /\ IsFiniteSet(All) /\ Points(ids, iv) \in SUBSET Int
  <2>1. IsFiniteSet(ids)
    BY FS_Subset, SheetConstants
  <2>2. QED BY <2>1, PointsOf
<1>2. \A r \in ids : Mine(ids, iv, V, r) = IF r \in A THEN Mine(ids, iv, W, r) \cup {y}
                                          ELSE Mine(ids, iv, W, r)
  BY DEF Mine
<1>3. CASE A = {}
  <2>1. \A r \in ids : Mine(ids, iv, V, r) = Mine(ids, iv, W, r)
    BY <1>2, <1>3
  <2>2. Given(ids, iv, V) = Given(ids, iv, W)
    BY <2>1 DEF Given
  <2>3. Covered(ids, iv, V) = c
    BY <1>3 DEF Covered
  <2>4. QED BY <2>2, <2>3
<1>4. CASE A # {}
  <2>1. PICK p, n, l : p = f[y] /\ n = Cardinality(A) /\ l = Cardinality(Span(y))
    OBVIOUS
  <2>2. p \in Nat /\ IsFiniteSet(Span(y)) /\ l \in Nat /\ n * p = Parts * l
    BY <1>4, <2>1, PartsOfSegment
  <2>3. PICK g, h : g = Given(ids, iv, W) /\ h = Given(ids, iv, V)
    OBVIOUS
  <2>4. ASSUME NEW r \in ids
        PROVE  g[r] \in Nat /\ h[r] = IF r \in A THEN g[r] + p ELSE g[r]
    <3>1. PICK S : S = Mine(ids, iv, W, r)
      OBVIOUS
    <3>2. S \in SUBSET W /\ IsFiniteSet(S) /\ y \notin S
      <4>1. S \in SUBSET All /\ S \in SUBSET W
        BY <3>1 DEF Mine
      <4>2. QED BY <1>1, <4>1, FS_Subset
    <3>3. \A s \in S : f[s] \in Nat
      <4>1. \A s \in S : s \in All /\ Active(ids, iv, s) # {}
        BY <3>1 DEF Mine
      <4>2. QED BY <4>1, PartsOfSegment
    <3>4. SumOf(f, S) \in Nat /\ SumOf(f, S \cup {y}) = p + SumOf(f, S)
      <4>1. \A s \in S \cup {y} : f[s] \in Nat
        BY <2>1, <2>2, <3>3
      <4> HIDE DEF f
      <4>2. QED BY <2>1, <3>2, <3>3, <4>1, SumType, SumAdd
    <3>5. g[r] = SumOf(f, S) /\ h[r] = SumOf(f, Mine(ids, iv, V, r))
      BY <2>3, <3>1 DEF Given
    <3>6. CASE r \in A
      <4>1. Mine(ids, iv, V, r) = S \cup {y}
        BY <1>2, <3>1, <3>6
      <4>2. h[r] = p + g[r]
        BY <3>4, <3>5, <4>1
      <4>3. g[r] \in Nat
        BY <3>4, <3>5
      <4>4. h[r] = g[r] + p
        <5> HIDE DEF A, V, f
        <5>1. QED BY <2>2, <4>2, <4>3
      <4>5. QED BY <3>6, <4>3, <4>4
    <3>7. CASE r \notin A
      <4>1. Mine(ids, iv, V, r) = S
        BY <1>2, <3>1, <3>7
      <4>2. h[r] = g[r] /\ g[r] \in Nat
        BY <3>4, <3>5, <4>1
      <4>3. QED BY <3>7, <4>2
    <3>8. QED BY <3>6, <3>7
  <2>5. SumOf(h, ids) = SumOf(g, ids) + n * p
    <3>1. A \in SUBSET ids
      BY DEF Active
    <3> HIDE DEF A
    <3>2. QED BY <1>1, <2>1, <2>2, <2>4, <3>1, SumRaised
  <2>6. Covered(ids, iv, V) = c \cup Span(y)
    BY <1>4 DEF Covered
  <2>7. c \cap Span(y) = {}
    <3>1. ASSUME NEW s \in W PROVE Span(s) \cap Span(y) = {}
      BY <1>1, SegmentsApart
    <3>2. QED BY <3>1 DEF Covered
  <2>8. /\ IsFiniteSet(c \cup Span(y)) /\ Cardinality(c) \in Nat
        /\ Cardinality(c \cup Span(y)) = Cardinality(c) + l
    <3>1. IsFiniteSet(c)
      OBVIOUS
    <3> HIDE DEF c
    <3>2. /\ IsFiniteSet(c \cup Span(y))
          /\ Cardinality(c \cup Span(y)) = Cardinality(c) + Cardinality(Span(y)) - Cardinality({})
      BY <2>2, <2>7, <3>1, FS_Union
    <3>3. Cardinality({}) = 0 /\ Cardinality(c) \in Nat
      BY <3>1, FS_EmptySet, FS_CardinalityType
    <3>4. QED BY <2>1, <2>2, <3>1, <3>2, <3>3
  <2>9. PICK P, k : P = Parts /\ k = Cardinality(c)
    OBVIOUS
  <2>10. P \in Nat /\ k \in Nat
    BY <2>8, <2>9, PartsNumber
  <2>11. P * (k + l) = P * k + P * l
    BY <2>2, <2>10
  <2>12. SumOf(h, ids) = P * (k + l)
    BY <2>2, <2>3, <2>5, <2>9, <2>11
  <2>13. QED BY <2>3, <2>6, <2>8, <2>9, <2>12
<1>5. QED BY <1>3, <1>4

\* Stretch by stretch, what is given adds up to the minutes that are covered.
LEMMA GivenAddsUp ==
  ASSUME NEW ids \in SUBSET Ids, NEW iv, Lists(ids, iv)
  PROVE  SumOf(Given(ids, iv, Segments(Points(ids, iv))), ids)
           = Parts * Cardinality(UNION {Minutes(iv[r]) : r \in ids})
<1> DEFINE All == Segments(Points(ids, iv))
           AddsUp(V) == /\ IsFiniteSet(Covered(ids, iv, V))
                        /\ SumOf(Given(ids, iv, V), ids) = Parts * Cardinality(Covered(ids, iv, V))
           Bad == {V \in SUBSET All : ~AddsUp(V)}
<1>1. IsFiniteSet(ids) /\ IsFiniteSet(All)
  <2>1. IsFiniteSet(ids)
    BY FS_Subset, SheetConstants
  <2>2. QED BY <2>1, PointsOf
<1>2. AddsUp({})
  <2>1. Covered(ids, iv, {}) = {} /\ IsFiniteSet({}) /\ Cardinality({}) = 0
    BY FS_EmptySet DEF Covered
  <2>2. PICK g : g = Given(ids, iv, {})
    OBVIOUS
  <2>3. \A r \in ids : g[r] = 0
    <3>1. \A r \in ids : Mine(ids, iv, {}, r) = {}
      BY DEF Mine
    <3>2. QED BY <2>2, <3>1, SumEmpty DEF Given
  <2>4. SumOf(g, ids) = 0
    BY <1>1, <2>3, SumZero
  <2>5. Parts * 0 = 0
    BY PartsNumber
  <2>6. QED BY <2>1, <2>2, <2>4, <2>5
<1>3. ASSUME NEW W \in SUBSET All, NEW y \in All, y \notin W, AddsUp(W)
      PROVE  AddsUp(W \cup {y})
  BY <1>3, OneStretchMore
<1> HIDE DEF AddsUp
<1>4. ASSUME Bad # {} PROVE FALSE
  <2>1. PICK V \in Bad : \A U \in Bad : U \subseteq V => U = V
    <3> HIDE DEF Bad, All
    <3>1. Bad \in SUBSET SUBSET All
      BY DEF Bad
    <3>2. QED BY <1>1, <1>4, <3>1, LeastSubset
  <2>2. PICK y \in V : TRUE
    BY <1>2, <2>1
  <2>3. PICK W : W = V \ {y}
    OBVIOUS
  <2>4. W \in SUBSET All /\ y \in All /\ y \notin W /\ V = W \cup {y}
    BY <2>1, <2>2, <2>3
  <2>5. AddsUp(W)
    BY <2>1, <2>3, <2>4
  <2>6. AddsUp(V)
    BY <1>3, <2>4, <2>5
  <2>7. QED BY <2>1, <2>6
<1>5. AddsUp(All)
  BY <1>4
<1>6. QED BY <1>1, <1>5, AllCovered DEF AddsUp

LEMMA SharesAreWhole ==
  ASSUME SheetInv
  PROVE  SharesAddUp
<1> DEFINE iv == PlannedStops
<1>1. Live \in SUBSET Ids
  BY DEF Live, SheetInv, RecordsKept
<1>2. Lists(Live, iv)
  <2>1. ASSUME NEW i \in Live PROVE iv[i] \in Seq(Intervals)
    <3>1. PICK r : r = records[i]
      OBVIOUS
    <3>2. r \in Stored
      BY <3>1, KeptRows DEF SheetInv, RecordsKept, Live
    <3>3. r.shift \in Shifts /\ r.sheet \in Sheets /\ r.date \in Dates
      BY <3>2 DEF Stored
    <3>4. r.sheet \in Seq(Row) /\ r.date \in Int /\ Day \in Nat
      BY <3>3, SheetConstants
    <3>5. PICK s : s = IntervalsOf(r.sheet, r.shift, PlannedKeys)
      OBVIOUS
    <3>6. s \in Seq(Intervals)
      BY <3>3, <3>4, <3>5, RowsOf
    <3>7. Absolute(s, r.date) \in Seq(Intervals)
      <4>1. PICK d : d = r.date
        OBVIOUS
      <4>2. d \in Int /\ Day \in Int
        BY <3>4, <4>1
      <4>3. Absolute(s, d) \in Seq(Intervals)
        BY <3>6, <4>2, Moved
      <4>4. QED BY <4>1, <4>3
    <3>8. mergeIntervals(Absolute(s, r.date)) \in Seq(Intervals)
      BY <3>7, Merged
    <3>9. QED BY <3>1, <3>5, <3>8 DEF PlannedStops
  <2> HIDE DEF iv
  <2>2. QED BY <2>1 DEF Lists
<1>3. IsFiniteSet(Live)
  BY <1>1, FS_Subset, SheetConstants
<1>4. SumOf(allocateIntervalUnion(Live, iv), Live)
        = Parts * Cardinality(UNION {Minutes(iv[i]) : i \in Live})
  <2> HIDE DEF iv
  <2>1. QED BY <1>1, <1>2, <1>3, GivenAddsUp, AllocatedIsGiven
<1>5. ASSUME NEW shares
      PROVE  MapThenSumSet(LAMBDA i : shares[i], Live) = SumOf(shares, Live)
  BY DEF SumOf, MapThenSumSet, MapThenFoldSet
<1>6. MapThenSumSet(LAMBDA i : allocateIntervalUnion(Live, iv)[i], Live)
        = SumOf(allocateIntervalUnion(Live, iv), Live)
  BY <1>5
<1>7. QED BY <1>4, <1>6 DEF SharesAddUp

-----------------------------------------------------------------------------
(* What holds of every behaviour.                                          *)

LEMMA SheetsKeep == OeeSpec => []SheetInv
<1>1. OeeInit => SheetInv
  BY SheetStarts
<1>2. SheetInv /\ [OeeNext]_oeeVars => SheetInv'
  BY SheetNext, SheetStutter
<1>3. QED BY <1>1, <1>2, PTL DEF OeeSpec

\* What submitOeeRecord stores are figures of a sheet that can be sent, none of
\* them negative, and only a client has the machine locked.
THEOREM SheetsKeepTheirTypes == OeeSpec => []OeeTypeOK
<1>1. SheetInv => OeeTypeOK
  BY SheetTypes
<1>2. QED BY <1>1, SheetsKeep, PTL

\* However many sheets are sent side by side and voided in between, no two
\* that count have the machine running in the same minute: submitOeeRecord
\* compares under the lock of the machine, with every sheet that is near enough.
THEOREM NoMinuteRunsTwice == OeeSpec => []RunsNeverOverlap
<1>1. SheetInv => RunsNeverOverlap
  BY DEF SheetInv
<1>2. QED BY <1>1, SheetsKeep, PTL

\* The run time that calculateOeeTimeMetrics works out, for any number of times
\* in any order, is the number of minutes on the clock in which the machine ran
\* without a break, and the time line of buildRun has just these minutes.
THEOREM RunTimesAreTrue == OeeSpec => []RunMinutesAreRight
<1>1. SheetInv => RunMinutesAreRight
  BY RunsAreRight
<1>2. QED BY <1>1, SheetsKeep, PTL

\* The operating hours, for which maintenance comes due, are the sum over all
\* sheets that were accepted, whatever was sent side by side or voided later.
THEOREM HoursAreOfAllSheets == OeeSpec => []HoursAddUp
<1>1. SheetInv => HoursAddUp
  BY DEF SheetInv
<1>2. QED BY <1>1, SheetsKeep, PTL

\* Whatever planned stops the records have, allocateIntervalUnion divides the
\* minutes they cover together among them without a loss and without a gain.
THEOREM NoShareIsLost == OeeSpec => []SharesAddUp
<1>1. SheetInv => SharesAddUp
  BY SharesAreWhole
<1>2. QED BY <1>1, SheetsKeep, PTL

\* So every minute counts once, wherever it is counted.
THEOREM EveryMinuteCountsOnce == OeeSpec => []MinutesCountOnce
<1>1. RunMinutesAreRight /\ HoursAddUp /\ SharesAddUp => MinutesCountOnce
  BY DEF MinutesCountOnce
<1>2. QED BY <1>1, RunTimesAreTrue, HoursAreOfAllSheets, NoShareIsLost, PTL
=============================================================================
