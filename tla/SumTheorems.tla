----------------------------- MODULE SumTheorems -----------------------------
(***************************************************************************)
(* Facts about SumFunctionOnSet, the sum of f[x] over a finite set, and    *)
(* about recursive functions on finite sets and on natural numbers.        *)
(*                                                                         *)
(* The sum is a recursive function on the subsets of the set.  Instead of  *)
(* an induction principle, whose parameter is an operator, the proofs take *)
(* a counterexample of least cardinality and find a smaller one; what a    *)
(* recursion is made of is given by functions (F, c, p) for this reason.   *)
(***************************************************************************)
EXTENDS Integers, Sequences, Functions, FiniteSets, FiniteSetTheorems, WellFoundedInduction, TLAPS

LEMMA LeastNatural ==
  ASSUME NEW S \in SUBSET Nat, S # {}
  PROVE  \E m \in S : \A n \in S : m <= n
<1> DEFINE R == OpToRel(<, Nat)
<1>1. IsWellFoundedOn(R, Nat)
  BY NatLessThanWellFounded
<1> HIDE DEF R
<1>2. PICK m \in S : \A n \in S : ~(<<n, m>> \in R)
  BY <1>1, WFMin
<1>3. ASSUME NEW n \in S, n < m PROVE FALSE
  <2>1. <<n, m>> \in {x \in Nat \X Nat : x[1] < x[2]}
    BY <1>3
  <2>2. QED
    BY <1>2, <2>1 DEF R, OpToRel
<1>4. QED
  BY <1>3

\* A finite set that is not empty has an element that nothing in it precedes,
\* for a transitive and irreflexive relation R: the one that the fewest precede.
LEMMA MinimalElement ==
  ASSUME NEW S, IsFiniteSet(S), S # {}, NEW R,
         \A x \in S : <<x, x>> \notin R,
         \A x, y, z \in S : <<x, y>> \in R /\ <<y, z>> \in R => <<x, z>> \in R
  PROVE  \E m \in S : \A p \in S : <<p, m>> \notin R
<1>1. PICK below : below = [m \in S |-> {p \in S : <<p, m>> \in R}]
  OBVIOUS
<1>2. PICK count : count = [m \in S |-> Cardinality(below[m])]
  OBVIOUS
<1>3. ASSUME NEW m \in S PROVE IsFiniteSet(below[m]) /\ count[m] \in Nat
  <2>1. below[m] \in SUBSET S
    BY <1>1
  <2>2. QED
    BY <1>2, <2>1, FS_Subset, FS_CardinalityType
<1>4. {count[m] : m \in S} \in SUBSET Nat /\ {count[m] : m \in S} # {}
  BY <1>3
<1>5. PICK c \in {count[m] : m \in S} : \A d \in {count[m] : m \in S} : c <= d
  BY <1>4, LeastNatural
<1>6. PICK m \in S : \A p \in S : count[m] <= count[p]
  BY <1>5
<1>7. ASSUME NEW p \in S, <<p, m>> \in R PROVE FALSE
  <2>1. below[p] \in SUBSET below[m] /\ p \in below[m] /\ p \notin below[p]
    BY <1>1, <1>7
  <2>2. /\ Cardinality(below[p]) <= Cardinality(below[m])
        /\ Cardinality(below[m]) = Cardinality(below[p]) => below[m] = below[p]
    BY <1>3, <2>1, FS_Subset
  <2>3. count[p] <= count[m] /\ count[p] # count[m]
    BY <1>2, <2>1, <2>2
  <2>4. count[m] <= count[p] /\ count[m] \in Nat /\ count[p] \in Nat
    BY <1>3, <1>6
  <2>5. QED
    BY <2>3, <2>4
<1>8. QED
  BY <1>7

-----------------------------------------------------------------------------
(* Induction, for a set of good elements *)

LEMMA NatInd ==
  ASSUME NEW P, 0 \in P, \A n \in Nat : n \in P => n + 1 \in P
  PROVE  \A n \in Nat : n \in P
<1> DEFINE Bad == Nat \ P
<1>1. ASSUME NEW n \in Bad, \A m \in Bad : n <= m PROVE FALSE
  <2>1. n \in Nat /\ n # 0 /\ n - 1 \in Nat /\ ~(n <= n - 1) /\ (n - 1) + 1 = n
    BY <1>1
  <2>2. n - 1 \in P
    BY <1>1, <2>1
  <2>3. QED
    BY <1>1, <2>1, <2>2
<1>2. Bad \in SUBSET Nat
  OBVIOUS
<1> HIDE DEF Bad
<1>3. Bad = {}
  BY <1>1, <1>2, LeastNatural
<1>4. QED
  BY <1>3 DEF Bad

LEMMA StrongInd ==
  ASSUME NEW P, \A n \in Nat : (\A m \in Nat : m < n => m \in P) => n \in P
  PROVE  \A n \in Nat : n \in P
<1> DEFINE Bad == Nat \ P
<1>1. ASSUME NEW n \in Bad, \A m \in Bad : n <= m PROVE FALSE
  <2>1. n \in Nat
    BY <1>1
  <2>2. ASSUME NEW m \in Nat, m < n PROVE m \in P
    <3>1. ~(n <= m)
      BY <2>1, <2>2
    <3>2. QED
      BY <1>1, <3>1
  <2>3. QED
    BY <1>1, <2>1, <2>2
<1>2. Bad \in SUBSET Nat
  OBVIOUS
<1> HIDE DEF Bad
<1>3. Bad = {}
  BY <1>1, <1>2, LeastNatural
<1>4. QED
  BY <1>3 DEF Bad

\* A sequence that is not empty has a last element.
LEMMA SplitLast ==
  ASSUME NEW S, NEW s \in Seq(S), s # <<>>
  PROVE  \E r \in Seq(S), x \in S : s = Append(r, x) /\ Len(s) = Len(r) + 1
<1>1. Len(s) \in Nat \ {0}
  OBVIOUS
<1>2. PICK r : r = [i \in 1..(Len(s) - 1) |-> s[i]]
  OBVIOUS
<1>3. r \in Seq(S) /\ Len(r) = Len(s) - 1
  BY <1>1, <1>2
<1>4. s[Len(s)] \in S
  BY <1>1
<1>5. s = Append(r, s[Len(s)])
  BY <1>1, <1>2, <1>3, <1>4
<1>6. QED
  BY <1>1, <1>3, <1>4, <1>5

LEMMA SeqInd ==
  ASSUME NEW S, NEW P, <<>> \in P,
         \A s \in Seq(S) : \A x \in S : s \in P => Append(s, x) \in P
  PROVE  \A s \in Seq(S) : s \in P
<1> DEFINE Good == {n \in Nat : \A s \in Seq(S) : Len(s) = n => s \in P}
<1>1. 0 \in Good
  OBVIOUS
<1>2. ASSUME NEW n \in Nat, n \in Good PROVE n + 1 \in Good
  <2>1. ASSUME NEW s \in Seq(S), Len(s) = n + 1 PROVE s \in P
    <3>1. s # <<>>
      BY <2>1
    <3>2. PICK r \in Seq(S), x \in S : s = Append(r, x) /\ Len(s) = Len(r) + 1
      BY <3>1, SplitLast
    <3>3. Len(r) = n
      BY <2>1, <3>2
    <3>4. QED
      BY <1>2, <3>2, <3>3
  <2>2. QED
    BY <2>1
<1> HIDE DEF Good
<1>3. \A n \in Nat : n \in Good
  BY <1>1, <1>2, NatInd
<1>4. QED
  BY <1>3 DEF Good

-----------------------------------------------------------------------------
(* The recursive function behind the sum *)

Choice(s) == CHOOSE x \in s : TRUE

Step(f, S, g) ==
  [s \in SUBSET S |-> IF s = {} THEN 0 ELSE f[Choice(s)] + g[s \ {Choice(s)}]]

Summing(f, S) == CHOOSE g : g = Step(f, S, g)

Values(f, S) == \A x \in S : f[x] \in Int

LEMMA SumIsSumming ==
  ASSUME NEW f, NEW S
  PROVE  SumFunctionOnSet(f, S) = Summing(f, S)[S]
BY DEF SumFunctionOnSet, FoldFunctionOnSet, MapThenFoldSet, Summing, Step, Choice

\* One element less.
LEMMA OneLess ==
  ASSUME NEW S, IsFiniteSet(S), NEW x \in S
  PROVE  /\ IsFiniteSet(S \ {x}) /\ S \ {x} \in SUBSET S
         /\ Cardinality(S) \in Nat /\ Cardinality(S \ {x}) \in Nat
         /\ Cardinality(S \ {x}) = Cardinality(S) - 1
BY FS_RemoveElement, FS_CardinalityType

LEMMA SubsetFinite ==
  ASSUME NEW S, IsFiniteSet(S), NEW s \in SUBSET S
  PROVE  /\ IsFiniteSet(s) /\ Cardinality(s) \in Nat
         /\ Cardinality(s) <= Cardinality(S)
         /\ (Cardinality(s) = 0 <=> s = {})
<1>1. IsFiniteSet(s) /\ Cardinality(s) <= Cardinality(S)
  BY FS_Subset
<1>2. Cardinality(s) \in Nat
  BY <1>1, FS_CardinalityType
<1>3. Cardinality(s) = 0 <=> s = {}
  BY <1>1, FS_EmptySet
<1>4. QED
  BY <1>1, <1>2, <1>3

LEMMA ChoiceIn == ASSUME NEW s, s # {} PROVE Choice(s) \in s
BY DEF Choice

\* A function on the subsets of S by recursion: c[s] is the element that is taken
\* out of s first, F adds it to the value of the others.
Rec(F, c, base, S, g) ==
  [s \in SUBSET S |-> IF s = {} THEN base ELSE F[<<c[s], g[s \ {c[s]}]>>]]

Recursion(F, c, base, S, V) ==
  /\ base \in V
  /\ \A s \in SUBSET S : s # {} => c[s] \in s
  /\ \A x \in S : \A v \in V : F[<<x, v>>] \in V

\* A function that is right on the sets of up to n elements can be made right on
\* those of n + 1.
LEMMA RecExists ==
  ASSUME NEW S, IsFiniteSet(S), NEW V, NEW base, NEW c, NEW F,
         Recursion(F, c, base, S, V)
  PROVE  \E g \in [SUBSET S -> V] : g = Rec(F, c, base, S, g)
<1> DEFINE Right(g, n) == \A s \in SUBSET S : Cardinality(s) <= n => g[s] = Rec(F, c, base, S, g)[s]
           Bad == {n \in Nat : ~ \E g \in [SUBSET S -> V] : Right(g, n)}
<1>0. /\ base \in V
      /\ \A s \in SUBSET S : s # {} => c[s] \in s
      /\ \A x \in S : \A v \in V : F[<<x, v>>] \in V
  BY DEF Recursion
<1>1. ASSUME NEW m \in Bad, \A n \in Bad : m <= n
      PROVE  FALSE
  <2>1. CASE m = 0
    <3> DEFINE g == [s \in SUBSET S |-> base]
    <3>1. g \in [SUBSET S -> V]
      BY <1>0
    <3>2. ASSUME NEW s \in SUBSET S, Cardinality(s) <= 0
          PROVE  g[s] = Rec(F, c, base, S, g)[s]
      <4>1. s = {}
        BY <3>2, SubsetFinite
      <4>2. QED
        BY <1>0, <4>1 DEF Rec
    <3>3. QED
      BY <2>1, <3>1, <3>2
  <2>2. CASE m # 0
    <3>1. m - 1 \in Nat /\ m - 1 \notin Bad
      <4>1. m \in Nat
        BY <1>1
      <4> HIDE DEF Bad
      <4>2. m - 1 \in Nat /\ ~ (m <= m - 1)
        BY <4>1, <2>2
      <4>3. QED
        BY <4>2, <1>1
    <3>2. PICK g \in [SUBSET S -> V] : Right(g, m - 1)
      BY <3>1
    <3> DEFINE h == [s \in SUBSET S |-> IF Cardinality(s) <= m - 1 THEN g[s] ELSE Rec(F, c, base, S, g)[s]]
    <3>3. \A s \in SUBSET S : h[s] = Rec(F, c, base, S, g)[s]
      BY <3>2
    <3>4. ASSUME NEW s \in SUBSET S PROVE Rec(F, c, base, S, g)[s] \in V
      <4>1. CASE s = {}
        BY <1>0, <4>1 DEF Rec
      <4>2. CASE s # {}
        <5>1. c[s] \in S /\ s \ {c[s]} \in SUBSET S
          BY <1>0, <4>2
        <5>2. g[s \ {c[s]}] \in V
          BY <5>1
        <5>3. QED
          BY <1>0, <4>2, <5>1, <5>2 DEF Rec
      <4>3. QED
        BY <4>1, <4>2
    <3>5. h \in [SUBSET S -> V]
      BY <3>3, <3>4
    <3>6. ASSUME NEW s \in SUBSET S, Cardinality(s) <= m
          PROVE  h[s] = Rec(F, c, base, S, h)[s]
      <4>1. CASE s = {}
        BY <3>3, <4>1 DEF Rec
      <4>2. CASE s # {}
        <5>1. c[s] \in s
          BY <1>0, <4>2
        <5>2. IsFiniteSet(s)
          BY SubsetFinite
        <5>3. Cardinality(s \ {c[s]}) <= m - 1 /\ s \ {c[s]} \in SUBSET S
          <6>1. m \in Nat
            BY <1>1
          <6>2. Cardinality(s) \in Nat /\ Cardinality(s \ {c[s]}) = Cardinality(s) - 1
            BY <5>1, <5>2, OneLess
          <6>3. QED
            BY <3>6, <6>1, <6>2
        <5>4. h[s \ {c[s]}] = g[s \ {c[s]}]
          BY <5>3
        <5> HIDE DEF h
        <5>5. Rec(F, c, base, S, h)[s] = Rec(F, c, base, S, g)[s]
          BY <4>2, <5>4 DEF Rec
        <5>6. QED
          BY <3>3, <5>5
      <4>3. QED
        BY <4>1, <4>2
    <3> HIDE DEF h
    <3>7. Right(h, m)
      BY <3>6
    <3>8. QED
      BY <3>5, <3>7
  <2>3. QED
    BY <2>1, <2>2
<1>2. Bad = {}
  <2> HIDE DEF Bad
  <2>1. Bad \in SUBSET Nat
    BY DEF Bad
  <2>2. QED
    BY <1>1, <2>1, LeastNatural
<1>3. Cardinality(S) \in Nat
  BY FS_CardinalityType
<1>4. PICK g \in [SUBSET S -> V] : Right(g, Cardinality(S))
  BY <1>2, <1>3
<1>5. \A s \in SUBSET S : g[s] = Rec(F, c, base, S, g)[s]
  BY <1>4, SubsetFinite
<1>6. g = Rec(F, c, base, S, g)
  BY <1>5 DEF Rec
<1>7. QED
  BY <1>6

LEMMA RecInt ==
  ASSUME NEW S, IsFiniteSet(S), NEW F, NEW c, Recursion(F, c, 0, S, Int)
  PROVE  \E g \in [SUBSET S -> Int] : g = Rec(F, c, 0, S, g)
BY RecExists

-----------------------------------------------------------------------------
(* Recursion on the natural numbers *)

\* A function on the natural numbers by recursion: F0[n] on the numbers of B, and
\* elsewhere F of n and the value at p[n].
NatRec(F, p, F0, B, g) ==
  [n \in Nat |-> IF n \in B THEN F0[n] ELSE F[<<n, g[p[n]]>>]]

NatRecursion(F, p, F0, B, V) ==
  /\ \A n \in Nat : n \in B => F0[n] \in V
  /\ \A n \in Nat : n \notin B => p[n] \in Nat /\ p[n] < n
  /\ \A n \in Nat : \A v \in V : F[<<n, v>>] \in V

UpTo(F, p, F0, B, g, n) == \A m \in 0..n : g[m] = NatRec(F, p, F0, B, g)[m]

LEMMA UpToSome ==
  ASSUME NEW V, NEW F, NEW p, NEW F0, NEW B, NatRecursion(F, p, F0, B, V), NEW n \in Nat
  PROVE  \E g \in [Nat -> V] : UpTo(F, p, F0, B, g, n)
<1> DEFINE Bad == {k \in Nat : ~ \E g \in [Nat -> V] : UpTo(F, p, F0, B, g, k)}
<1>1. ASSUME NEW k \in Bad, \A m \in Bad : k <= m PROVE FALSE
  <2>0. k \in Nat
    BY <1>1
  <2>1. PICK g \in [Nat -> V] : \A m \in 0..(k - 1) : g[m] = NatRec(F, p, F0, B, g)[m]
    <3>1. CASE k = 0
      <4>1. 0 \notin B => FALSE
        BY DEF NatRecursion
      <4>2. PICK g : g = [m \in Nat |-> F0[0]]
        OBVIOUS
      <4>3. g \in [Nat -> V]
        BY <4>1, <4>2 DEF NatRecursion
      <4>4. QED
        BY <3>1, <4>3
    <3>2. CASE k # 0
      <4>1. k - 1 \in Nat /\ ~ (k <= k - 1)
        BY <2>0, <3>2
      <4>2. k - 1 \notin Bad
        BY <1>1, <4>1
      <4>3. QED
        BY <4>1, <4>2 DEF UpTo
    <3>3. QED
      BY <3>1, <3>2
  <2>2. PICK h : h = [m \in Nat |-> IF m < k THEN g[m] ELSE NatRec(F, p, F0, B, g)[m]]
    OBVIOUS
  <2>3. ASSUME NEW m \in Nat PROVE NatRec(F, p, F0, B, g)[m] \in V
    <3>1. CASE m \in B
      BY <3>1 DEF NatRec, NatRecursion
    <3>2. CASE m \notin B
      <4>1. p[m] \in Nat /\ g[p[m]] \in V
        BY <3>2, <2>1 DEF NatRecursion
      <4>2. QED
        BY <3>2, <4>1 DEF NatRec, NatRecursion
    <3>3. QED
      BY <3>1, <3>2
  <2>4. h \in [Nat -> V]
    BY <2>1, <2>2, <2>3
  <2>5. ASSUME NEW m \in 0..k PROVE h[m] = NatRec(F, p, F0, B, h)[m]
    <3>1. m \in Nat /\ h[m] = NatRec(F, p, F0, B, g)[m]
      BY <2>0, <2>1, <2>2
    <3>2. CASE m \in B
      BY <3>1, <3>2 DEF NatRec
    <3>3. CASE m \notin B
      <4>1. p[m] \in Nat /\ p[m] < k
        BY <2>0, <3>1, <3>3 DEF NatRecursion
      <4>2. h[p[m]] = g[p[m]]
        BY <4>1, <2>2
      <4>3. QED
        BY <3>1, <3>3, <4>2 DEF NatRec
    <3>4. QED
      BY <3>2, <3>3
  <2>6. UpTo(F, p, F0, B, h, k)
    BY <2>5 DEF UpTo
  <2>7. QED
    BY <1>1, <2>4, <2>6
<1>2. Bad = {}
  <2>1. Bad \in SUBSET Nat
    OBVIOUS
  <2> HIDE DEF Bad
  <2>2. QED
    BY <1>1, <2>1, LeastNatural
<1>3. QED
  BY <1>2

LEMMA UpToOne ==
  ASSUME NEW V, NEW F, NEW p, NEW F0, NEW B, NatRecursion(F, p, F0, B, V),
         NEW g, NEW h, NEW n \in Nat, UpTo(F, p, F0, B, g, n), NEW k \in Nat, UpTo(F, p, F0, B, h, k),
         NEW m \in Nat, m <= n, m <= k
  PROVE  g[m] = h[m]
<1> DEFINE Bad == {i \in Nat : i <= n /\ i <= k /\ g[i] # h[i]}
<1>1. ASSUME NEW i \in Bad, \A j \in Bad : i <= j PROVE FALSE
  <2>1. i \in Nat /\ i <= n /\ i <= k /\ g[i] # h[i]
    BY <1>1
  <2>2. g[i] = NatRec(F, p, F0, B, g)[i] /\ h[i] = NatRec(F, p, F0, B, h)[i]
    BY <2>1 DEF UpTo
  <2>3. i \notin B
    BY <2>1, <2>2 DEF NatRec
  <2>4. p[i] \in Nat /\ p[i] < i
    BY <2>1, <2>3 DEF NatRecursion
  <2>5. ~(i <= p[i]) /\ p[i] <= n /\ p[i] <= k
    BY <2>1, <2>4
  <2>6. g[p[i]] = h[p[i]]
    BY <1>1, <2>4, <2>5
  <2>7. QED
    BY <2>1, <2>2, <2>3, <2>6 DEF NatRec
<1>2. Bad = {}
  <2>1. Bad \in SUBSET Nat
    OBVIOUS
  <2> HIDE DEF Bad
  <2>2. QED
    BY <1>1, <2>1, LeastNatural
<1>3. QED
  BY <1>2

LEMMA NatRecExists ==
  ASSUME NEW V, NEW F, NEW p, NEW F0, NEW B, NatRecursion(F, p, F0, B, V)
  PROVE  \E g \in [Nat -> V] : g = NatRec(F, p, F0, B, g)
<1>1. PICK G : G = [n \in Nat |-> CHOOSE g \in [Nat -> V] : UpTo(F, p, F0, B, g, n)]
  OBVIOUS
<1>2. \A n \in Nat : G[n] \in [Nat -> V] /\ UpTo(F, p, F0, B, G[n], n)
  BY <1>1, UpToSome
<1>3. PICK h : h = [n \in Nat |-> G[n][n]]
  OBVIOUS
<1>4. h \in [Nat -> V]
  BY <1>2, <1>3
<1>5. ASSUME NEW n \in Nat PROVE h[n] = NatRec(F, p, F0, B, h)[n]
  <2>1. h[n] = NatRec(F, p, F0, B, G[n])[n]
    BY <1>2, <1>3 DEF UpTo
  <2>2. CASE n \in B
    BY <2>1, <2>2 DEF NatRec
  <2>3. CASE n \notin B
    <3>1. p[n] \in Nat /\ p[n] < n
      BY <2>3 DEF NatRecursion
    <3>2. G[n][p[n]] = G[p[n]][p[n]]
      BY <1>2, <3>1, UpToOne
    <3>3. QED
      BY <1>3, <2>1, <2>3, <3>1, <3>2 DEF NatRec
  <2>4. QED
    BY <2>2, <2>3
<1>6. h = NatRec(F, p, F0, B, h)
  BY <1>4, <1>5 DEF NatRec
<1>7. QED
  BY <1>4, <1>6

-----------------------------------------------------------------------------
(* The sum, from its recursive function *)

LEMMA SummingExists ==
  ASSUME NEW f, NEW S, IsFiniteSet(S), Values(f, S)
  PROVE  \E g \in [SUBSET S -> Int] : g = Step(f, S, g)
<1>1. PICK c : c = [s \in SUBSET S |-> Choice(s)]
  OBVIOUS
<1>2. PICK F : F = [p \in S \X Int |-> f[p[1]] + p[2]]
  OBVIOUS
<1>3. /\ \A s \in SUBSET S : s # {} => c[s] = Choice(s) /\ c[s] \in s
      /\ \A x \in S : \A v \in Int : F[<<x, v>>] = f[x] + v /\ F[<<x, v>>] \in Int
  BY <1>1, <1>2, ChoiceIn DEF Values
<1>4. PICK g \in [SUBSET S -> Int] : g = Rec(F, c, 0, S, g)
  <2>1. Recursion(F, c, 0, S, Int)
    BY <1>3 DEF Recursion
  <2>2. QED
    BY <2>1, RecInt
<1>5. ASSUME NEW s \in SUBSET S PROVE g[s] = Step(f, S, g)[s]
  <2>1. CASE s = {}
    BY <1>4, <2>1 DEF Rec, Step
  <2>2. CASE s # {}
    <3>1. Choice(s) \in S /\ s \ {Choice(s)} \in SUBSET S /\ c[s] = Choice(s)
      BY <1>3, <2>2
    <3>2. g[s \ {Choice(s)}] \in Int
      BY <3>1
    <3>3. g[s] = F[<<Choice(s), g[s \ {Choice(s)}]>>]
      BY <1>4, <2>2, <3>1 DEF Rec
    <3>4. QED
      BY <1>3, <2>2, <3>1, <3>2, <3>3 DEF Step
  <2>3. QED
    BY <2>1, <2>2
<1>6. g = Step(f, S, g)
  BY <1>5 DEF Step
<1>7. QED
  BY <1>6

LEMMA SummingIsStep ==
  ASSUME NEW f, NEW S, IsFiniteSet(S), Values(f, S)
  PROVE  Summing(f, S) = Step(f, S, Summing(f, S))
BY SummingExists DEF Summing

-----------------------------------------------------------------------------
(* Induction over the subsets of a finite set, with the good ones as a set *)

LEMMA SubsetInduction ==
  ASSUME NEW S, IsFiniteSet(S), NEW Good,
         {} \in Good,
         \A s \in SUBSET S : s # {} /\ (\A x \in s : s \ {x} \in Good) => s \in Good
  PROVE  \A s \in SUBSET S : s \in Good
<1> DEFINE Sizes == {Cardinality(s) : s \in {r \in SUBSET S : r \notin Good}}
<1>1. Sizes \in SUBSET Nat
  BY SubsetFinite
<1>2. ASSUME NEW s \in SUBSET S, s \notin Good
      PROVE  FALSE
  <2>1. Sizes # {}
    BY <1>2
  <2>2. PICK m \in Sizes : \A n \in Sizes : m <= n
    <3> HIDE DEF Sizes
    <3>1. QED
      BY <1>1, <2>1, LeastNatural
  <2>3. PICK r \in SUBSET S : r \notin Good /\ Cardinality(r) = m
    OBVIOUS
  <2>4. r # {}
    BY <2>3
  <2>5. PICK x \in r : r \ {x} \notin Good
    BY <2>3, <2>4
  <2>6. Cardinality(r \ {x}) \in Sizes
    BY <2>5
  <2>7. IsFiniteSet(r)
    BY SubsetFinite
  <2>8. Cardinality(r) \in Nat /\ Cardinality(r \ {x}) = Cardinality(r) - 1
    BY <2>7, OneLess
  <2>9. m <= Cardinality(r \ {x})
    <3> HIDE DEF Sizes
    <3>1. QED
      BY <2>2, <2>6
  <2>10. QED
    BY <2>3, <2>8, <2>9
<1>3. QED
  BY <1>2

\* Where two functions agree their sums do, over whichever set they were defined.
LEMMA StepUnique ==
  ASSUME NEW f, NEW S, NEW g, g = Step(f, S, g),
         NEW e, NEW T, NEW h, h = Step(e, T, h),
         NEW R, IsFiniteSet(R), R \subseteq S, R \subseteq T,
         \A x \in R : f[x] = e[x]
  PROVE  g[R] = h[R]
<1> DEFINE Good == {s \in SUBSET R : g[s] = h[s]}
<1>1. {} \in Good
  <2>1. g[{}] = 0
    BY DEF Step
  <2>2. h[{}] = 0
    BY DEF Step
  <2>3. QED
    BY <2>1, <2>2
<1>2. ASSUME NEW s \in SUBSET R, s # {}, \A x \in s : s \ {x} \in Good
      PROVE  s \in Good
  <2>1. Choice(s) \in s
    BY <1>2, ChoiceIn
  <2>2. g[s \ {Choice(s)}] = h[s \ {Choice(s)}]
    BY <1>2, <2>1
  <2>3. s \in SUBSET S /\ s \in SUBSET T
    OBVIOUS
  <2>4. g[s] = f[Choice(s)] + g[s \ {Choice(s)}]
    BY <1>2, <2>3 DEF Step
  <2>5. h[s] = e[Choice(s)] + h[s \ {Choice(s)}]
    BY <1>2, <2>3 DEF Step
  <2>6. f[Choice(s)] = e[Choice(s)]
    BY <2>1
  <2>7. QED
    BY <2>2, <2>4, <2>5, <2>6
<1> HIDE DEF Good
<1>3. \A s \in SUBSET R : s \in Good
  BY <1>1, <1>2, SubsetInduction
<1>4. R \in Good
  BY <1>3
<1>5. QED
  BY <1>4 DEF Good

-----------------------------------------------------------------------------
(* The sum of integers *)

\* Functions that agree on the set have the same sum over it.
LEMMA SumSame ==
  ASSUME NEW S, IsFiniteSet(S), NEW f, NEW e, Values(f, S),
         \A x \in S : f[x] = e[x]
  PROVE  SumFunctionOnSet(f, S) = SumFunctionOnSet(e, S)
<1>1. Values(e, S)
  BY DEF Values
<1>2. Summing(f, S)[S] = Summing(e, S)[S]
  BY <1>1, SummingIsStep, StepUnique
<1>3. QED
  BY <1>2, SumIsSumming

\* A sum of integers is an integer: reserved amounts and ledger entries add up
\* to an amount.
LEMMA SumInt ==
  ASSUME NEW S, IsFiniteSet(S), NEW f, Values(f, S)
  PROVE  SumFunctionOnSet(f, S) \in Int
<1>1. PICK g \in [SUBSET S -> Int] : g = Step(f, S, g)
  BY SummingExists
<1>2. Summing(f, S)[S] = g[S]
  BY <1>1, SummingIsStep, StepUnique
<1>3. QED
  BY <1>2, SumIsSumming

\* The empty sum is 0: a user without orders reserves nothing.
LEMMA SumEmpty == ASSUME NEW f PROVE SumFunctionOnSet(f, {}) = 0
<1>1. IsFiniteSet({}) /\ Values(f, {})
  BY FS_EmptySet DEF Values
<1>2. Summing(f, {}) = Step(f, {}, Summing(f, {}))
  BY <1>1, SummingIsStep
<1>3. Summing(f, {})[{}] = 0
  BY <1>2 DEF Step
<1>4. QED
  BY <1>3, SumIsSumming

\* The sum by the element the recursion takes first.
LEMMA SumChoice ==
  ASSUME NEW S, IsFiniteSet(S), S # {}, NEW f, Values(f, S)
  PROVE  SumFunctionOnSet(f, S)
           = f[Choice(S)] + SumFunctionOnSet(f, S \ {Choice(S)})
<1> DEFINE R == S \ {Choice(S)}
<1>1. Summing(f, S) = Step(f, S, Summing(f, S))
  BY SummingIsStep
<1>2. Summing(f, S)[S] = f[Choice(S)] + Summing(f, S)[R]
  BY <1>1 DEF Step
<1>3. IsFiniteSet(R)
  BY SubsetFinite
<1>4. Summing(f, R) = Step(f, R, Summing(f, R))
  <2>1. Values(f, R)
    BY DEF Values
  <2>2. QED
    BY <1>3, <2>1, SummingIsStep
<1>5. Summing(f, S)[R] = Summing(f, R)[R]
  <2> HIDE DEF R
  <2>1. R \subseteq S
    BY DEF R
  <2>2. QED
    BY <1>1, <1>3, <1>4, <2>1, StepUnique
<1>6. QED
  BY <1>2, <1>5, SumIsSumming

\* The sum by any of its elements.
LEMMA SumRemove ==
  ASSUME NEW S, IsFiniteSet(S), NEW f, Values(f, S), NEW x \in S
  PROVE  SumFunctionOnSet(f, S) = f[x] + SumFunctionOnSet(f, S \ {x})
<1> DEFINE Sum(s) == SumFunctionOnSet(f, s)
           Good == {s \in SUBSET S : \A y \in s : Sum(s) = f[y] + Sum(s \ {y})}
<1>1. {} \in Good
  OBVIOUS
<1>2. \A s \in SUBSET S : Sum(s) \in Int /\ IsFiniteSet(s) /\ Values(f, s)
  <2>1. SUFFICES ASSUME NEW s \in SUBSET S
                 PROVE  Sum(s) \in Int /\ IsFiniteSet(s) /\ Values(f, s)
    OBVIOUS
  <2>2. IsFiniteSet(s) /\ Values(f, s)
    BY SubsetFinite DEF Values
  <2>3. QED
    BY <2>2, SumInt
<1>3. \A y \in S : f[y] \in Int
  BY DEF Values
<1>4. ASSUME NEW s \in SUBSET S, s # {}, \A y \in s : s \ {y} \in Good
      PROVE  s \in Good
  <2> DEFINE c == Choice(s)
  <2>1. c \in s
    BY <1>4, ChoiceIn
  <2>2. Sum(s) = f[c] + Sum(s \ {c})
    BY <1>2, <1>4, SumChoice
  <2> HIDE DEF c
  <2>3. ASSUME NEW y \in s PROVE Sum(s) = f[y] + Sum(s \ {y})
    <3>1. CASE y = c
      BY <2>2, <3>1
    <3>2. CASE y # c
      <4> DEFINE r == (s \ {c}) \ {y}
      <4>1. r = (s \ {y}) \ {c}
        OBVIOUS
      <4>2. Sum(s \ {c}) = f[y] + Sum(r)
        <5>1. y \in s \ {c} /\ s \ {c} \in Good
          BY <1>4, <2>1, <3>2
        <5>2. QED
          BY <5>1
      <4>3. Sum(s \ {y}) = f[c] + Sum(r)
        <5>1. c \in s \ {y} /\ s \ {y} \in Good
          BY <1>4, <2>1, <3>2
        <5>2. QED
          BY <4>1, <5>1
      <4>4. Sum(r) \in Int /\ f[y] \in Int /\ f[c] \in Int
        BY <1>2, <1>3, <2>1
      <4> HIDE DEF Sum, r
      <4>5. QED
        BY <2>2, <4>2, <4>3, <4>4
    <3>3. QED
      BY <3>1, <3>2
  <2>4. QED
    BY <2>3
<1>5. S \in Good
  <2> HIDE DEF Good
  <2>1. QED
    BY <1>1, <1>4, SubsetInduction
<1>6. QED
  BY <1>5

\* One value more in the set.
LEMMA SumAdd ==
  ASSUME NEW S, IsFiniteSet(S), NEW f, Values(f, S), NEW x, x \notin S, f[x] \in Int
  PROVE  SumFunctionOnSet(f, S \cup {x}) = SumFunctionOnSet(f, S) + f[x]
<1>1. IsFiniteSet(S \cup {x})
  BY FS_AddElement
<1>2. Values(f, S \cup {x})
  BY DEF Values
<1>3. (S \cup {x}) \ {x} = S
  OBVIOUS
<1>4. SumFunctionOnSet(f, S \cup {x}) = f[x] + SumFunctionOnSet(f, S)
  <2>1. SumFunctionOnSet(f, S \cup {x}) = f[x] + SumFunctionOnSet(f, (S \cup {x}) \ {x})
    BY <1>1, <1>2, SumRemove
  <2>2. QED
    BY <1>3, <2>1
<1>5. SumFunctionOnSet(f, S) \in Int
  BY SumInt
<1>6. QED
  BY <1>4, <1>5

\* One value of the set changed.
LEMMA SumChange ==
  ASSUME NEW S, IsFiniteSet(S), NEW f, NEW e, Values(f, S), Values(e, S),
         NEW x \in S, \A y \in S \ {x} : f[y] = e[y]
  PROVE  SumFunctionOnSet(e, S) = SumFunctionOnSet(f, S) - f[x] + e[x]
<1>1. IsFiniteSet(S \ {x}) /\ Values(f, S \ {x})
  BY OneLess DEF Values
<1>2. SumFunctionOnSet(e, S \ {x}) = SumFunctionOnSet(f, S \ {x})
  BY <1>1, SumSame
<1>3. /\ SumFunctionOnSet(f, S) = f[x] + SumFunctionOnSet(f, S \ {x})
      /\ SumFunctionOnSet(e, S) = e[x] + SumFunctionOnSet(e, S \ {x})
  BY SumRemove
<1>4. SumFunctionOnSet(f, S \ {x}) \in Int
  BY <1>1, SumInt
<1>5. f[x] \in Int /\ e[x] \in Int
  BY DEF Values
<1> HIDE DEF Values
<1>6. QED
  BY <1>2, <1>3, <1>4, <1>5

\* Values that are not negative have a sum that is not, and none exceeds it.
LEMMA SumNat ==
  ASSUME NEW S, IsFiniteSet(S), NEW f, \A x \in S : f[x] \in Nat
  PROVE  /\ SumFunctionOnSet(f, S) \in Nat
         /\ \A x \in S : f[x] <= SumFunctionOnSet(f, S)
<1> DEFINE Sum(s) == SumFunctionOnSet(f, s)
           Good == {s \in SUBSET S : Sum(s) \in Nat}
<1>1. {} \in Good
  BY SumEmpty
<1>2. ASSUME NEW s \in SUBSET S, NEW y \in s
      PROVE  Sum(s) = f[y] + Sum(s \ {y})
  <2>1. IsFiniteSet(s) /\ Values(f, s)
    BY SubsetFinite DEF Values
  <2>2. QED
    BY <2>1, SumRemove
<1>3. ASSUME NEW s \in SUBSET S, s # {}, \A y \in s : s \ {y} \in Good
      PROVE  s \in Good
  <2>1. PICK y \in s : TRUE
    BY <1>3
  <2>2. Sum(s \ {y}) \in Nat /\ f[y] \in Nat
    BY <1>3, <2>1
  <2>3. Sum(s) = f[y] + Sum(s \ {y})
    BY <1>2
  <2> HIDE DEF Sum
  <2>4. Sum(s) \in Nat
    BY <2>2, <2>3
  <2>5. QED
    BY <2>4
<1>4. \A s \in SUBSET S : s \in Good
  <2> HIDE DEF Good
  <2>1. QED
    BY <1>1, <1>3, SubsetInduction
<1>5. ASSUME NEW x \in S PROVE f[x] <= Sum(S)
  <2>1. Sum(S \ {x}) \in Nat /\ f[x] \in Nat
    BY <1>4
  <2>2. Sum(S) = f[x] + Sum(S \ {x})
    BY <1>2
  <2> HIDE DEF Sum
  <2>3. QED
    BY <2>1, <2>2
<1>6. QED
  BY <1>4, <1>5

\* A sum of zeros is 0: orders that reserve nothing add nothing.
LEMMA SumZero ==
  ASSUME NEW S, IsFiniteSet(S), NEW f, \A x \in S : f[x] = 0
  PROVE  SumFunctionOnSet(f, S) = 0
<1> DEFINE Sum(s) == SumFunctionOnSet(f, s)
           Good == {s \in SUBSET S : Sum(s) = 0}
<1>1. {} \in Good
  BY SumEmpty
<1>2. ASSUME NEW s \in SUBSET S, s # {}, \A y \in s : s \ {y} \in Good
      PROVE  s \in Good
  <2>1. PICK y \in s : TRUE
    BY <1>2
  <2>2. IsFiniteSet(s) /\ Values(f, s)
    BY SubsetFinite DEF Values
  <2>3. Sum(s) = f[y] + Sum(s \ {y})
    BY <2>2, SumRemove
  <2>4. Sum(s \ {y}) = 0 /\ f[y] = 0
    BY <1>2, <2>1
  <2> HIDE DEF Sum
  <2>5. Sum(s) = 0
    BY <2>3, <2>4
  <2>6. QED
    BY <2>5
<1>3. \A s \in SUBSET S : s \in Good
  <2> HIDE DEF Good
  <2>1. QED
    BY <1>1, <1>2, SubsetInduction
<1>4. QED
  BY <1>3

\* Two sets without a common element add up.
LEMMA SumDisjoint ==
  ASSUME NEW S, IsFiniteSet(S), NEW D, IsFiniteSet(D), S \cap D = {},
         NEW f, Values(f, S), Values(f, D)
  PROVE  SumFunctionOnSet(f, S \cup D) = SumFunctionOnSet(f, S) + SumFunctionOnSet(f, D)
<1> DEFINE Sum(s) == SumFunctionOnSet(f, s)
           Good == {U \in SUBSET D : Sum(S \cup U) = Sum(S) + Sum(U)}
<1>1. Sum(S) \in Int
  BY SumInt
<1>2. {} \in Good
  <2>1. S \cup {} = S /\ Sum({}) = 0
    BY SumEmpty
  <2> HIDE DEF Sum
  <2>2. QED
    BY <1>1, <2>1
<1>3. ASSUME NEW U \in SUBSET D, U # {}, \A y \in U : U \ {y} \in Good
      PROVE  U \in Good
  <2>1. PICK y \in U : TRUE
    BY <1>3
  <2>2. y \notin S /\ U \ {y} \in Good /\ f[y] \in Int
    BY <1>3, <2>1 DEF Values
  <2>3. /\ IsFiniteSet(S \cup U) /\ Values(f, S \cup U) /\ y \in S \cup U
        /\ IsFiniteSet(U) /\ Values(f, U) /\ IsFiniteSet(U \ {y}) /\ Values(f, U \ {y})
    BY <2>1, FS_Subset, FS_Union DEF Values
  <2>4. Sum(S \cup U) = f[y] + Sum((S \cup U) \ {y}) /\ Sum(U) = f[y] + Sum(U \ {y})
    BY <2>3, SumRemove
  <2>5. (S \cup U) \ {y} = S \cup (U \ {y})
    BY <2>2
  <2>6. Sum((S \cup U) \ {y}) = Sum(S) + Sum(U \ {y})
    BY <2>2, <2>5
  <2>7. Sum(U \ {y}) \in Int
    BY <2>3, SumInt
  <2> HIDE DEF Sum
  <2>8. Sum(S \cup U) = Sum(S) + Sum(U)
    BY <1>1, <2>2, <2>4, <2>6, <2>7
  <2>9. QED
    BY <2>8
<1>4. \A U \in SUBSET D : U \in Good
  <2> HIDE DEF Good
  <2>1. QED
    BY <1>2, <1>3, SubsetInduction
<1>5. QED
  BY <1>4

\* Zeros can be left out.
LEMMA SumSupport ==
  ASSUME NEW T, IsFiniteSet(T), NEW S \in SUBSET T, NEW f, Values(f, S),
         \A x \in T \ S : f[x] = 0
  PROVE  SumFunctionOnSet(f, T) = SumFunctionOnSet(f, S)
<1>1. IsFiniteSet(S) /\ IsFiniteSet(T \ S)
  BY FS_Subset
<1>2. S \cup (T \ S) = T /\ S \cap (T \ S) = {} /\ Values(f, T \ S)
  BY DEF Values
<1>3. SumFunctionOnSet(f, T) = SumFunctionOnSet(f, S) + SumFunctionOnSet(f, T \ S)
  BY <1>1, <1>2, SumDisjoint
<1>4. SumFunctionOnSet(f, T \ S) = 0 /\ SumFunctionOnSet(f, S) \in Int
  BY <1>1, SumZero, SumInt
<1>5. QED
  BY <1>3, <1>4

\* What is not negative adds nothing negative.
LEMMA SumMonotone ==
  ASSUME NEW T, IsFiniteSet(T), NEW S \in SUBSET T, NEW f, \A x \in T : f[x] \in Nat
  PROVE  SumFunctionOnSet(f, S) <= SumFunctionOnSet(f, T)
<1>1. IsFiniteSet(S) /\ IsFiniteSet(T \ S)
  BY FS_Subset
<1>2. S \cup (T \ S) = T /\ S \cap (T \ S) = {} /\ Values(f, S) /\ Values(f, T \ S)
  BY DEF Values
<1>3. SumFunctionOnSet(f, T) = SumFunctionOnSet(f, S) + SumFunctionOnSet(f, T \ S)
  BY <1>1, <1>2, SumDisjoint
<1>4. SumFunctionOnSet(f, T \ S) \in Nat /\ SumFunctionOnSet(f, S) \in Nat
  BY <1>1, SumNat
<1>5. QED
  BY <1>3, <1>4

\* The same values under other names: pairs with a fixed second component.
LEMMA SumPairs ==
  ASSUME NEW S, IsFiniteSet(S), NEW f, Values(f, S), NEW c, NEW g,
         \A x \in S : g[<<x, c>>] = f[x]
  PROVE  SumFunctionOnSet(g, {<<x, c>> : x \in S}) = SumFunctionOnSet(f, S)
<1> DEFINE Pairs(s) == {<<x, c>> : x \in s}
           Good == {s \in SUBSET S : /\ IsFiniteSet(Pairs(s))
                                     /\ SumFunctionOnSet(g, Pairs(s)) = SumFunctionOnSet(f, s)}
<1>1. {} \in Good
  <2>1. Pairs({}) = {}
    OBVIOUS
  <2>2. IsFiniteSet({})
    BY FS_EmptySet
  <2>3. QED
    BY <2>1, <2>2, SumEmpty
<1>2. ASSUME NEW s \in SUBSET S, s # {}, \A y \in s : s \ {y} \in Good
      PROVE  s \in Good
  <2>1. PICK y \in s : TRUE
    BY <1>2
  <2>2. /\ IsFiniteSet(s \ {y}) /\ Values(f, s \ {y}) /\ y \notin s \ {y}
        /\ f[y] \in Int /\ (s \ {y}) \cup {y} = s
    BY SubsetFinite DEF Values
  <2>3. /\ IsFiniteSet(Pairs(s \ {y}))
        /\ SumFunctionOnSet(g, Pairs(s \ {y})) = SumFunctionOnSet(f, s \ {y})
    BY <1>2, <2>1
  <2>4. /\ Pairs(s) = Pairs(s \ {y}) \cup {<<y, c>>} /\ <<y, c>> \notin Pairs(s \ {y})
        /\ Values(g, Pairs(s \ {y})) /\ g[<<y, c>>] = f[y]
    BY <2>1 DEF Values
  <2> HIDE DEF Pairs
  <2>5. SumFunctionOnSet(g, Pairs(s)) = SumFunctionOnSet(g, Pairs(s \ {y})) + f[y]
    BY <2>2, <2>3, <2>4, SumAdd
  <2>6. SumFunctionOnSet(f, s) = SumFunctionOnSet(f, s \ {y}) + f[y]
    BY <2>2, SumAdd
  <2>7. IsFiniteSet(Pairs(s))
    <3>1. IsFiniteSet(Pairs(s \ {y}) \cup {<<y, c>>})
      BY <2>3, FS_AddElement
    <3>2. QED
      BY <2>4, <3>1
  <2>8. QED
    BY <2>3, <2>5, <2>6, <2>7
<1>3. \A s \in SUBSET S : s \in Good
  <2> HIDE DEF Good
  <2>1. QED
    BY <1>1, <1>2, SubsetInduction
<1>4. QED
  BY <1>3

\* A factor of every term.
LEMMA SumScale ==
  ASSUME NEW S, IsFiniteSet(S), NEW f, Values(f, S), NEW c \in Int, NEW e,
         \A x \in S : e[x] = c * f[x]
  PROVE  SumFunctionOnSet(e, S) = c * SumFunctionOnSet(f, S)
<1> DEFINE Sum(s) == SumFunctionOnSet(f, s)
           SumE(s) == SumFunctionOnSet(e, s)
           Good == {s \in SUBSET S : SumE(s) = c * Sum(s)}
<1>1. {} \in Good
  BY SumEmpty
<1>2. ASSUME NEW s \in SUBSET S, s # {}, \A x \in s : s \ {x} \in Good
      PROVE  s \in Good
  <2>1. PICK x \in s : TRUE
    BY <1>2
  <2>2. IsFiniteSet(s) /\ IsFiniteSet(s \ {x}) /\ Values(f, s) /\ Values(f, s \ {x})
    BY SubsetFinite, OneLess DEF Values
  <2>3. Values(e, s)
    BY DEF Values
  <2>4. SumE(s) = e[x] + SumE(s \ {x}) /\ Sum(s) = f[x] + Sum(s \ {x})
    BY <2>1, <2>2, <2>3, SumRemove
  <2>5. SumE(s \ {x}) = c * Sum(s \ {x}) /\ Sum(s \ {x}) \in Int
    BY <1>2, <2>2, SumInt
  <2>6. e[x] = c * f[x] /\ f[x] \in Int
    BY DEF Values
  <2> HIDE DEF Sum, SumE
  <2>7. SumE(s) = c * Sum(s)
    BY <2>4, <2>5, <2>6
  <2>8. QED
    BY <2>7
<1> HIDE DEF Good
<1>3. \A s \in SUBSET S : s \in Good
  BY <1>1, <1>2, SubsetInduction
<1>4. S \in Good
  BY <1>3
<1>5. QED
  BY <1>4 DEF Good

=============================================================================
