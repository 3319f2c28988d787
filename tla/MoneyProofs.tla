------------------------------ MODULE MoneyProofs ------------------------------
(***************************************************************************)
(* Proofs about Money, for any number of decimals and any integer width.   *)
(***************************************************************************)
EXTENDS Money, SumTheorems

\* Division of a natural number.
LEMMA DivideNat ==
  ASSUME NEW n \in Nat, NEW d \in Nat \ {0}
  PROVE  n \div d \in Int /\ 0 <= n - d * (n \div d) /\ n - d * (n \div d) < d
<1>1. n \div d \in Int
  BY SMT
<1>2. ASSUME NEW q \in Int, q = n \div d PROVE 0 <= n - d * q /\ n - d * q < d
  <2>1. d * q \in Int /\ d * q <= n /\ n < d * q + d
    BY <1>2, SMT
  <2>2. QED
    BY <2>1
<1>3. QED
  BY <1>1, <1>2

\* What big.Int QuoRem returns for either sign.
LEMMA QuoRem ==
  ASSUME NEW n \in Int, NEW d \in Nat \ {0}
  PROVE  /\ Quo(n, d) \in Int
         /\ -d < n - d * Quo(n, d) /\ n - d * Quo(n, d) < d
<1>1. CASE n >= 0
  BY <1>1, DivideNat DEF Quo
<1>2. CASE n < 0
  <2> DEFINE q == (-n) \div d
  <2>1. -n \in Nat /\ ~(n >= 0)
    BY <1>2
  <2>2. q \in Int /\ 0 <= (-n) - d * q /\ (-n) - d * q < d
    BY <2>1, DivideNat
  <2>3. Quo(n, d) = -q
    BY <2>1 DEF Quo
  <2> HIDE DEF q
  <2>4. d * (-q) = -(d * q) /\ d * q \in Int
    BY <2>2
  <2>5. QED
    BY <2>2, <2>3, <2>4
<1>3. QED
  BY <1>1, <1>2

\* Multiples of d that differ by less than d are equal.
LEMMA OneMultiple ==
  ASSUME NEW a \in Int, NEW b \in Int, NEW d \in Nat \ {0},
         -d < d * a - d * b, d * a - d * b < d
  PROVE  a = b
<1>1. d * a - d * b = d * (a - b) /\ a - b \in Int
  OBVIOUS
<1>2. a - b >= 1 => d * (a - b) >= d
  BY <1>1, SMT
<1>3. a - b <= -1 => d * (a - b) <= -d
  BY <1>1, SMT
<1>4. QED
  BY <1>1, <1>2, <1>3

-----------------------------------------------------------------------------
(* Powers of ten and digits *)

\* The recursion of Ten has a solution.
LEMMA TenExists ==
  Ten = [n \in Nat |-> IF n = 0 THEN 1 ELSE 10 * Ten[n - 1]]
<1>1. PICK p : p = [n \in Nat |-> n - 1]
  OBVIOUS
<1>2. PICK F0 : F0 = [n \in Nat |-> 1]
  OBVIOUS
<1>3. PICK F : F = [e \in Nat \X (Nat \ {0}) |-> 10 * e[2]]
  OBVIOUS
<1>4. \A n \in Nat : \A v \in Nat \ {0} : F[<<n, v>>] = 10 * v
  BY <1>3
<1>5. NatRecursion(F, p, F0, {0}, Nat \ {0})
  BY <1>1, <1>2, <1>4 DEF NatRecursion
<1>6. PICK g \in [Nat -> Nat \ {0}] : g = NatRec(F, p, F0, {0}, g)
  BY <1>5, NatRecExists
<1>7. g = [n \in Nat |-> IF n = 0 THEN 1 ELSE 10 * g[n - 1]]
  <2>1. ASSUME NEW n \in Nat PROVE g[n] = IF n = 0 THEN 1 ELSE 10 * g[n - 1]
    <3>1. CASE n = 0
      BY <1>6, <1>2, <3>1 DEF NatRec
    <3>2. CASE n # 0
      BY <1>6, <1>1, <1>4, <3>2 DEF NatRec
    <3>3. QED
      BY <3>1, <3>2
  <2>2. QED
    BY <2>1
<1>8. QED
  BY <1>7 DEF Ten

LEMMA TenIs ==
  /\ Ten[0] = 1
  /\ \A n \in Nat : Ten[n + 1] = 10 * Ten[n] /\ Ten[n] \in Nat \ {0}
<1>2. Ten[0] = 1
  BY TenExists
<1>3. ASSUME NEW n \in Nat PROVE Ten[n + 1] = 10 * Ten[n]
  BY TenExists
<1> DEFINE Good == {n \in Nat : Ten[n] \in Nat \ {0}}
<1>4. 0 \in Good
  BY <1>2
<1>5. \A n \in Nat : n \in Good => n + 1 \in Good
  BY <1>3
<1> HIDE DEF Good
<1>6. \A n \in Nat : n \in Good
  BY <1>4, <1>5, NatInd
<1>7. QED
  BY <1>2, <1>3, <1>6 DEF Good

LEMMA TenZero == Ten[0] = 1
BY TenIs

LEMMA TenNext ==
  ASSUME NEW n \in Nat
  PROVE  Ten[n + 1] = 10 * Ten[n] /\ Ten[n] \in Int /\ Ten[n] > 0
BY TenIs

LEMMA TenSum ==
  ASSUME NEW a \in Nat, NEW b \in Nat
  PROVE  Ten[a + b] = Ten[a] * Ten[b]
<1> DEFINE Good == {n \in Nat : Ten[a + n] = Ten[a] * Ten[n]}
<1>1. 0 \in Good
  BY TenIs
<1>2. ASSUME NEW n \in Nat, n \in Good PROVE n + 1 \in Good
  <2>1. Ten[a + (n + 1)] = 10 * Ten[a + n]
    <3>1. a + n \in Nat /\ a + (n + 1) = (a + n) + 1
      OBVIOUS
    <3>2. QED
      BY <3>1, TenIs
  <2>2. Ten[n + 1] = 10 * Ten[n] /\ Ten[n] \in Nat /\ Ten[a] \in Nat
    BY TenIs
  <2>3. QED
    BY <1>2, <2>1, <2>2, SMT
<1> HIDE DEF Good
<1>3. \A n \in Nat : n \in Good
  BY <1>1, <1>2, NatInd
<1>4. QED
  BY <1>3 DEF Good

LEMMA DivideTen ==
  ASSUME NEW n \in Nat
  PROVE  n \div 10 \in Nat /\ n % 10 \in Digit /\ n = 10 * (n \div 10) + (n % 10)
BY DEF Digit

\* The recursion of Digits has a solution.
LEMMA DigitsExist ==
  Digits = [n \in Nat |-> IF n < 10 THEN <<n>> ELSE Append(Digits[n \div 10], n % 10)]
<1>1. PICK p : p = [n \in Nat |-> n \div 10]
  OBVIOUS
<1>2. PICK F0 : F0 = [n \in Nat |-> <<n>>]
  OBVIOUS
<1>3. PICK F : F = [e \in Nat \X (Seq(Digit) \ {<<>>}) |-> Append(e[2], e[1] % 10)]
  OBVIOUS
<1>4. \A n \in Nat : \A v \in Seq(Digit) \ {<<>>} : F[<<n, v>>] = Append(v, n % 10)
  BY <1>3
<1>5. NatRecursion(F, p, F0, Digit, Seq(Digit) \ {<<>>})
  <2>1. \A n \in Nat : n \in Digit => F0[n] \in Seq(Digit) \ {<<>>}
    BY <1>2
  <2>2. ASSUME NEW n \in Nat, n \notin Digit PROVE p[n] \in Nat /\ p[n] < n
    <3>1. n >= 10
      BY <2>2 DEF Digit
    <3>2. PICK q \in Nat, r \in Digit : q = n \div 10 /\ r = n % 10
      BY DivideTen
    <3>3. n = 10 * q + r /\ r \in Nat
      BY <3>2, DivideTen DEF Digit
    <3>4. q < n
      BY <3>1, <3>3
    <3>5. QED
      BY <1>1, <3>2, <3>4
  <2>3. \A n \in Nat : \A v \in Seq(Digit) \ {<<>>} : F[<<n, v>>] \in Seq(Digit) \ {<<>>}
    <3>1. ASSUME NEW n \in Nat, NEW v \in Seq(Digit) \ {<<>>}
          PROVE  F[<<n, v>>] \in Seq(Digit) \ {<<>>}
      <4>1. PICK r \in Digit : r = n % 10
        BY DivideTen
      <4>2. F[<<n, v>>] = Append(v, r)
        BY <1>4, <4>1
      <4>3. Append(v, r) \in Seq(Digit) /\ Append(v, r) # <<>>
        OBVIOUS
      <4>4. QED
        BY <4>2, <4>3
    <3>2. QED
      BY <3>1
  <2>4. QED
    BY <2>1, <2>2, <2>3 DEF NatRecursion
<1>6. PICK g \in [Nat -> Seq(Digit) \ {<<>>}] : g = NatRec(F, p, F0, Digit, g)
  BY <1>5, NatRecExists
<1>7. g = [n \in Nat |-> IF n < 10 THEN <<n>> ELSE Append(g[n \div 10], n % 10)]
  <2>1. ASSUME NEW n \in Nat PROVE g[n] = IF n < 10 THEN <<n>> ELSE Append(g[n \div 10], n % 10)
    <3>1. CASE n < 10
      BY <1>6, <1>2, <3>1 DEF NatRec, Digit
    <3>2. CASE ~(n < 10)
      <4>1. n \notin Digit /\ n \div 10 \in Nat
        BY <3>2 DEF Digit
      <4>2. QED
        BY <1>6, <1>1, <1>4, <3>2, <4>1 DEF NatRec
    <3>3. QED
      BY <3>1, <3>2
  <2>2. QED
    BY <2>1
<1>8. QED
  BY <1>7 DEF Digits

LEMMA DigitsAre ==
  ASSUME NEW n \in Nat
  PROVE  /\ Digits[n] = IF n < 10 THEN <<n>> ELSE Append(Digits[n \div 10], n % 10)
         /\ Digits[n] \in Seq(Digit)
         /\ Len(Digits[n]) >= 1
<1>2. \A k \in Nat : Digits[k] = IF k < 10 THEN <<k>> ELSE Append(Digits[k \div 10], k % 10)
  BY DigitsExist
<1> DEFINE Good == {k \in Nat : Digits[k] \in Seq(Digit) /\ Len(Digits[k]) >= 1}
<1>3. ASSUME NEW k \in Nat, \A m \in Nat : m < k => m \in Good PROVE k \in Good
  <2>1. CASE k < 10
    <3>1. Digits[k] = <<k>>
      BY <1>2, <2>1
    <3>2. k \in Digit
      BY <2>1 DEF Digit
    <3>3. <<k>> \in Seq(Digit) /\ Len(<<k>>) = 1
      BY <3>2
    <3>4. Digits[k] \in Seq(Digit) /\ Len(Digits[k]) >= 1
      BY <3>1, <3>3
    <3>5. QED
      BY <3>4
  <2>2. CASE ~(k < 10)
    <3>1. k \div 10 \in Nat /\ k \div 10 < k /\ k % 10 \in Digit
      BY <2>2, DivideTen DEF Digit
    <3>2. k \div 10 \in Good
      BY <1>3, <3>1
    <3>3. Digits[k] = Append(Digits[k \div 10], k % 10)
      BY <1>2, <2>2
    <3>4. PICK u \in Seq(Digit) : u = Digits[k \div 10]
      BY <3>2
    <3>5. PICK d \in Digit : d = k % 10
      BY <3>1
    <3>6. Append(u, d) \in Seq(Digit) /\ Len(Append(u, d)) >= 1
      OBVIOUS
    <3>7. QED
      BY <3>3, <3>4, <3>5, <3>6
  <2>3. QED
    BY <2>1, <2>2
<1> HIDE DEF Good
<1>4. \A k \in Nat : k \in Good
  BY <1>3, StrongInd
<1>5. QED
  BY <1>2, <1>4 DEF Good

-----------------------------------------------------------------------------
(* Number *)

\* The fold behind Number: the last digit is added to ten times the others.
Horner(s, g) ==
  [u \in SUBSET (DOMAIN s) |-> IF u = {} THEN 0 ELSE 10 * g[u \ {Max(u)}] + s[Max(u)]]

HornerOf(s) == CHOOSE g : g = Horner(s, g)

LEMMA NumberIsHorner == ASSUME NEW s PROVE Number(s) = HornerOf(s)[DOMAIN s]
BY DEF Number, FoldLeft, MapThenFoldSet, HornerOf, Horner

LEMMA MaxIn ==
  ASSUME NEW n \in Nat, NEW u \in SUBSET (1..n), u # {}
  PROVE  Max(u) \in u
<1> DEFINE D == {m \in Nat : n - m \in u}
<1>1. \A i \in u : n - i \in Nat /\ n - (n - i) = i
  OBVIOUS
<1>2. PICK i \in u : TRUE
  OBVIOUS
<1>3. D \in SUBSET Nat /\ n - i \in D
  BY <1>1, <1>2
<1>4. PICK m \in D : \A k \in D : m <= k
  BY <1>3, LeastNatural
<1>5. n - m \in u /\ m \in Nat
  BY <1>4
<1>6. ASSUME NEW j \in u PROVE n - m >= j
  <2>1. n - j \in D
    BY <1>1
  <2>2. m <= n - j /\ j \in Int
    BY <2>1, <1>4
  <2> HIDE DEF D
  <2>3. QED
    BY <2>2, <1>5
<1>7. QED
  BY <1>5, <1>6 DEF Max

LEMMA MaxTo ==
  ASSUME NEW k \in Nat
  PROVE  /\ Max(1..(k + 1)) = k + 1
         /\ 1..(k + 1) # {}
         /\ (1..(k + 1)) \ {k + 1} = 1..k
<1>1. k + 1 \in 1..(k + 1) /\ \A j \in 1..(k + 1) : k + 1 >= j
  OBVIOUS
<1>2. \A i \in 1..(k + 1) : (\A j \in 1..(k + 1) : i >= j) => i = k + 1
  OBVIOUS
<1>3. Max(1..(k + 1)) = k + 1
  BY <1>1, <1>2 DEF Max
<1>4. (1..(k + 1)) \ {k + 1} = 1..k
  OBVIOUS
<1>5. QED
  BY <1>1, <1>3, <1>4

LEMMA HornerExists ==
  ASSUME NEW s \in Seq(Int)
  PROVE  HornerOf(s) = Horner(s, HornerOf(s))
<1> DEFINE D == DOMAIN s
<1>1. D = 1..Len(s) /\ Len(s) \in Nat /\ \A i \in D : s[i] \in Int
  OBVIOUS
<1>2. IsFiniteSet(D)
  BY <1>1, FS_Interval
<1> HIDE DEF D
<1>3. PICK c : c = [u \in SUBSET D |-> Max(u)]
  OBVIOUS
<1>4. PICK F : F = [p \in D \X Int |-> 10 * p[2] + s[p[1]]]
  OBVIOUS
<1>5. /\ \A u \in SUBSET D : u # {} => c[u] = Max(u) /\ c[u] \in u
      /\ \A x \in D : \A v \in Int : F[<<x, v>>] = 10 * v + s[x] /\ F[<<x, v>>] \in Int
  <2>1. ASSUME NEW u \in SUBSET D, u # {} PROVE c[u] = Max(u) /\ c[u] \in u
    BY <1>1, <1>3, <2>1, MaxIn
  <2>2. ASSUME NEW x \in D, NEW v \in Int PROVE F[<<x, v>>] = 10 * v + s[x] /\ F[<<x, v>>] \in Int
    BY <1>1, <1>4
  <2>3. QED
    BY <2>1, <2>2
<1>6. PICK g \in [SUBSET D -> Int] : g = Rec(F, c, 0, D, g)
  <2>1. Recursion(F, c, 0, D, Int)
    BY <1>5 DEF Recursion
  <2>2. QED
    BY <1>2, <2>1, RecInt
<1>7. ASSUME NEW u \in SUBSET D PROVE g[u] = IF u = {} THEN 0 ELSE 10 * g[u \ {Max(u)}] + s[Max(u)]
  <2>1. CASE u = {}
    BY <1>6, <2>1 DEF Rec
  <2>2. CASE u # {}
    <3>1. Max(u) \in D /\ u \ {Max(u)} \in SUBSET D /\ c[u] = Max(u)
      BY <1>5, <2>2
    <3>2. g[u \ {Max(u)}] \in Int
      BY <1>6, <3>1
    <3>3. g[u] = F[<<Max(u), g[u \ {Max(u)}]>>]
      BY <1>6, <2>2, <3>1 DEF Rec
    <3>4. QED
      BY <1>5, <2>2, <3>1, <3>2, <3>3
  <2>3. QED
    BY <2>1, <2>2
<1>8. g = Horner(s, g)
  BY <1>6, <1>7 DEF Horner, D
<1>9. QED
  BY <1>8 DEF HornerOf

LEMMA HornerTo ==
  ASSUME NEW s \in Seq(Int)
  PROVE  /\ HornerOf(s)[1..0] = 0
         /\ \A k \in Nat : k < Len(s) =>
              HornerOf(s)[1..(k + 1)] = 10 * HornerOf(s)[1..k] + s[k + 1]
<1>1. PICK g : g = HornerOf(s)
  OBVIOUS
<1>2. g = Horner(s, g) /\ DOMAIN s = 1..Len(s) /\ Len(s) \in Nat
  BY <1>1, HornerExists
<1>3. g[1..0] = 0
  BY <1>2 DEF Horner
<1>4. ASSUME NEW k \in Nat, k < Len(s) PROVE g[1..(k + 1)] = 10 * g[1..k] + s[k + 1]
  <2>1. 1..(k + 1) \in SUBSET (DOMAIN s)
    BY <1>2, <1>4
  <2>2. g[1..(k + 1)] = 10 * g[(1..(k + 1)) \ {Max(1..(k + 1))}] + s[Max(1..(k + 1))]
    BY <1>2, <2>1, MaxTo DEF Horner
  <2>3. QED
    BY <2>2, MaxTo
<1>5. QED
  BY <1>1, <1>3, <1>4

LEMMA NumberIs ==
  /\ Number(<<>>) = 0
  /\ \A s \in Seq(Int), d \in Int :
       Number(s) \in Int /\ Number(Append(s, d)) = 10 * Number(s) + d
<1>1. ASSUME NEW s \in Seq(Int)
      PROVE  Number(s) = HornerOf(s)[1..Len(s)]
  BY NumberIsHorner
<1>2. Number(<<>>) = 0
  <2>1. <<>> \in Seq(Int) /\ Len(<<>>) = 0
    OBVIOUS
  <2>2. Number(<<>>) = HornerOf(<<>>)[1..0]
    BY <1>1, <2>1
  <2>3. QED
    BY <2>1, <2>2, HornerTo
<1>3. ASSUME NEW s \in Seq(Int), NEW d \in Int
      PROVE  Number(s) \in Int /\ Number(Append(s, d)) = 10 * Number(s) + d
  <2>1. PICK t : t = Append(s, d)
    OBVIOUS
  <2>2. t \in Seq(Int) /\ Len(s) \in Nat /\ Len(t) = Len(s) + 1 /\ t[Len(s) + 1] = d
        /\ \A i \in 1..Len(s) : t[i] = s[i] /\ s[i] \in Int
    BY <2>1
  <2> DEFINE Good == {k \in Nat : k <= Len(s) => HornerOf(s)[1..k] \in Int
                                               /\ HornerOf(t)[1..k] = HornerOf(s)[1..k]}
  <2>3. 0 \in Good
    BY <2>2, HornerTo
  <2>4. ASSUME NEW k \in Nat, k \in Good PROVE k + 1 \in Good
    <3>1. ASSUME k + 1 <= Len(s)
          PROVE  HornerOf(s)[1..(k + 1)] \in Int /\ HornerOf(t)[1..(k + 1)] = HornerOf(s)[1..(k + 1)]
      <4>1. k < Len(s) /\ k < Len(t) /\ k <= Len(s)
        BY <2>2, <3>1
      <4>2. /\ HornerOf(s)[1..(k + 1)] = 10 * HornerOf(s)[1..k] + s[k + 1]
            /\ HornerOf(t)[1..(k + 1)] = 10 * HornerOf(t)[1..k] + t[k + 1]
        BY <2>2, <4>1, HornerTo
      <4>3. k + 1 \in 1..Len(s)
        BY <3>1, <2>2
      <4>4. t[k + 1] = s[k + 1] /\ s[k + 1] \in Int
        BY <2>2, <4>3
      <4>5. HornerOf(s)[1..k] \in Int /\ HornerOf(t)[1..k] = HornerOf(s)[1..k]
        BY <2>4, <4>1
      <4>6. QED
        BY <4>2, <4>4, <4>5
    <3>2. QED
      BY <3>1
  <2> HIDE DEF Good
  <2>5. Len(s) \in Good
    BY <2>2, <2>3, <2>4, NatInd
  <2>6. HornerOf(s)[1..Len(s)] \in Int /\ HornerOf(t)[1..Len(s)] = HornerOf(s)[1..Len(s)]
    BY <2>2, <2>5 DEF Good
  <2>7. Number(t) = 10 * HornerOf(t)[1..Len(s)] + d
    <3>1. Len(s) < Len(t)
      BY <2>2
    <3>2. HornerOf(t)[1..(Len(s) + 1)] = 10 * HornerOf(t)[1..Len(s)] + t[Len(s) + 1]
      BY <2>2, <3>1, HornerTo
    <3>3. Number(t) = HornerOf(t)[1..(Len(s) + 1)]
      BY <1>1, <2>2
    <3>4. QED
      BY <2>2, <3>2, <3>3
  <2>8. QED
    BY <1>1, <2>1, <2>6, <2>7
<1>4. QED
  BY <1>2, <1>3

LEMMA PlacesIs ==
  /\ Places(<<>>) = 0
  /\ \A s \in Seq(Int), d \in Int : Places(Append(s, d)) = 10 * Places(s) + d
<1>1. Places(<<>>) = 0
  <2>1. PICK f : f = [i \in DOMAIN <<>> |-> <<>>[i] * Ten[Len(<<>>) - i]]
    OBVIOUS
  <2>2. DOMAIN f = {} /\ Places(<<>>) = SumFunctionOnSet(f, DOMAIN f)
    BY <2>1 DEF Places, SumFunction
  <2>3. QED
    BY <2>2, SumEmpty
<1>2. ASSUME NEW s \in Seq(Int), NEW d \in Int
      PROVE  Places(Append(s, d)) = 10 * Places(s) + d
  <2>1. PICK n, t : n = Len(s) /\ t = Append(s, d)
    OBVIOUS
  <2>2. /\ n \in Nat /\ Len(t) = n + 1 /\ DOMAIN s = 1..n /\ DOMAIN t = 1..(n + 1)
        /\ t[n + 1] = d
        /\ \A i \in 1..n : t[i] = s[i] /\ s[i] \in Int
    BY <2>1
  <2>3. PICK f : f = [i \in 1..n |-> s[i] * Ten[n - i]]
    OBVIOUS
  <2>4. PICK e : e = [i \in 1..(n + 1) |-> t[i] * Ten[Len(t) - i]]
    OBVIOUS
  <2>5. Places(s) = SumFunctionOnSet(f, 1..n)
    <3>1. Places(s) = SumFunctionOnSet(f, DOMAIN f)
      BY <2>1, <2>2, <2>3 DEF Places, SumFunction
    <3>2. QED
      BY <2>3, <3>1
  <2>6. Places(t) = SumFunctionOnSet(e, 1..(n + 1))
    <3>1. Places(t) = SumFunctionOnSet(e, DOMAIN e)
      BY <2>1, <2>2, <2>4 DEF Places, SumFunction
    <3>2. QED
      BY <2>4, <3>1
  <2>7. Values(f, 1..n)
    <3>1. ASSUME NEW i \in 1..n PROVE f[i] \in Int
      <4>1. PICK k \in Nat : k = n - i
        BY <2>2
      <4>2. Ten[k] \in Int
        BY TenNext
      <4>3. s[i] \in Int
        BY <2>2
      <4>4. QED
        BY <2>3, <4>1, <4>2, <4>3
    <3>2. QED
      BY <3>1 DEF Values
  <2>8. ASSUME NEW i \in 1..n PROVE e[i] = 10 * f[i]
    <3>1. PICK k \in Nat : k = n - i
      BY <2>2
    <3>2. Ten[k + 1] = 10 * Ten[k] /\ Ten[k] \in Int
      BY TenNext
    <3>3. Len(t) - i = k + 1 /\ i \in 1..(n + 1)
      BY <2>2, <3>1
    <3>4. e[i] = s[i] * (10 * Ten[k]) /\ s[i] \in Int
      BY <2>2, <2>4, <3>2, <3>3
    <3>5. s[i] * (10 * Ten[k]) = 10 * (s[i] * Ten[k])
      BY <3>2, <3>4, SMT
    <3>6. QED
      BY <2>3, <3>1, <3>4, <3>5
  <2>9. e[n + 1] = d
    <3>1. n + 1 \in 1..(n + 1) /\ Len(t) - (n + 1) = 0
      BY <2>2
    <3>2. e[n + 1] = d * Ten[0]
      BY <2>2, <2>4, <3>1
    <3>3. QED
      BY <3>2, TenZero
  <2>10. IsFiniteSet(1..n) /\ IsFiniteSet(1..(n + 1))
    BY <2>2, FS_Interval
  <2>11. SumFunctionOnSet(e, 1..n) = 10 * SumFunctionOnSet(f, 1..n)
    <3>1. \A i \in 1..n : e[i] = 10 * f[i]
      BY <2>8
    <3>2. 10 \in Int
      OBVIOUS
    <3>3. QED
      BY <2>7, <2>10, <3>1, <3>2, SumScale
  <2>12. SumFunctionOnSet(f, 1..n) \in Int
    BY <2>7, <2>10, SumInt
  <2>13. SumFunctionOnSet(e, 1..(n + 1)) = SumFunctionOnSet(e, 1..n) + d
    <3>1. Values(e, 1..n) /\ e[n + 1] \in Int
      BY <2>7, <2>8, <2>9 DEF Values
    <3>2. n + 1 \notin 1..n /\ (1..n) \cup {n + 1} = 1..(n + 1)
      BY <2>2
    <3>3. PICK D, x : D = 1..n /\ x = n + 1
      OBVIOUS
    <3>4. IsFiniteSet(D) /\ Values(e, D) /\ x \notin D /\ e[x] \in Int
      BY <2>10, <3>1, <3>2, <3>3
    <3>5. SumFunctionOnSet(e, D \cup {x}) = SumFunctionOnSet(e, D) + e[x]
      BY <3>4, SumAdd
    <3>6. QED
      BY <2>9, <3>2, <3>3, <3>5
  <2>14. QED
    BY <2>1, <2>5, <2>6, <2>11, <2>12, <2>13
<1>3. QED
  BY <1>1, <1>2

\* Adding the digits from the left, as SetString does, gives the sum of the places.
LEMMA NumberIsPlaces == \A s \in Seq(Int) : Number(s) = Places(s)
<1> DEFINE Good == {s \in Seq(Int) : Number(s) = Places(s)}
<1>1. <<>> \in Good
  BY NumberIs, PlacesIs
<1>2. ASSUME NEW s \in Seq(Int), NEW d \in Int, s \in Good
      PROVE  Append(s, d) \in Good
  BY <1>2, NumberIs, PlacesIs
<1> HIDE DEF Good
<1>3. \A s \in Seq(Int) : s \in Good
  BY <1>1, <1>2, SeqInd
<1>4. QED
  BY <1>3 DEF Good

LEMMA NumberConcat ==
  ASSUME NEW s \in Seq(Int), NEW t \in Seq(Int)
  PROVE  Number(s \o t) = Number(s) * Ten[Len(t)] + Number(t)
<1> DEFINE Good == {u \in Seq(Int) : Number(s \o u) = Number(s) * Ten[Len(u)] + Number(u)}
<1>1. <<>> \in Good
  <2>1. s \o <<>> = s /\ Len(<<>>) = 0 /\ <<>> \in Seq(Int)
    OBVIOUS
  <2>2. Number(s) = Number(s) * 1 + 0
    BY NumberIs
  <2>3. QED
    BY <2>1, <2>2, NumberIs, TenZero
<1>2. ASSUME NEW u \in Seq(Int), NEW d \in Int, u \in Good
      PROVE  Append(u, d) \in Good
  <2>1. s \o Append(u, d) = Append(s \o u, d) /\ s \o u \in Seq(Int)
        /\ Len(Append(u, d)) = Len(u) + 1 /\ Len(u) \in Nat
    OBVIOUS
  <2>2. Number(s \o Append(u, d)) = 10 * Number(s \o u) + d
    BY <2>1, NumberIs
  <2>3. Number(Append(u, d)) = 10 * Number(u) + d /\ Number(u) \in Int /\ Number(s) \in Int
    BY NumberIs
  <2>4. Ten[Len(u) + 1] = 10 * Ten[Len(u)] /\ Ten[Len(u)] \in Int
    BY <2>1, TenNext
  <2>5. Number(s \o u) = Number(s) * Ten[Len(u)] + Number(u)
    BY <1>2
  <2>6. Number(s) * (10 * Ten[Len(u)]) = 10 * (Number(s) * Ten[Len(u)])
        /\ Number(s) * Ten[Len(u)] \in Int
    BY <2>3, <2>4, SMT
  <2>7. Number(s \o Append(u, d)) = Number(s) * Ten[Len(u) + 1] + Number(Append(u, d))
    <3>1. PICK a \in Int : a = Number(s) * Ten[Len(u)]
      BY <2>6
    <3>2. PICK b \in Int : b = Number(u)
      BY <2>3
    <3>3. Number(s) * Ten[Len(u) + 1] = 10 * a
      BY <2>4, <2>6, <3>1
    <3>4. Number(s \o Append(u, d)) = 10 * (a + b) + d
      BY <2>2, <2>5, <3>1, <3>2
    <3>5. Number(Append(u, d)) = 10 * b + d
      BY <2>3, <3>2
    <3>6. 10 * (a + b) + d = 10 * a + (10 * b + d)
      OBVIOUS
    <3>7. QED
      BY <3>3, <3>4, <3>5, <3>6
  <2>8. Append(u, d) \in Seq(Int) /\ Len(Append(u, d)) = Len(u) + 1
    BY <2>1
  <2>9. QED
    BY <2>7, <2>8
<1> HIDE DEF Good
<1>3. \A u \in Seq(Int) : u \in Good
  BY <1>1, <1>2, SeqInd
<1>4. QED
  BY <1>3 DEF Good

LEMMA NumberZeros ==
  ASSUME NEW n \in Nat
  PROVE  Zeros(n) \in Seq(Digit) /\ Len(Zeros(n)) = n /\ Number(Zeros(n)) = 0
<1> DEFINE Good == {k \in Nat : Number(Zeros(k)) = 0}
<1>1. ASSUME NEW k \in Nat
      PROVE  Zeros(k) \in Seq(Digit) /\ Zeros(k) \in Seq(Int) /\ Len(Zeros(k)) = k
  BY DEF Zeros, Digit
<1>2. 0 \in Good
  <2>1. Zeros(0) = <<>>
    BY DEF Zeros
  <2>2. QED
    BY <2>1, NumberIs
<1>3. ASSUME NEW k \in Nat, k \in Good PROVE k + 1 \in Good
  <2>1. Zeros(k + 1) = Append(Zeros(k), 0)
    BY <1>1 DEF Zeros
  <2>2. Number(Append(Zeros(k), 0)) = 10 * Number(Zeros(k)) + 0
    <3>1. Zeros(k) \in Seq(Int) /\ 0 \in Int
      BY <1>1
    <3>2. QED
      BY <3>1, NumberIs
  <2>3. Number(Zeros(k)) = 0
    BY <1>3
  <2>4. Number(Zeros(k + 1)) = 10 * Number(Zeros(k)) + 0
    BY <2>1, <2>2, Zenon
  <2>5. Number(Zeros(k + 1)) = 0
    BY <2>3, <2>4
  <2>6. QED
    BY <2>5
<1> HIDE DEF Good
<1>4. \A k \in Nat : k \in Good
  BY <1>2, <1>3, NatInd
<1>5. QED
  BY <1>1, <1>4 DEF Good

LEMMA DigitsInt == ASSUME NEW s \in Seq(Digit) PROVE s \in Seq(Int)
BY DEF Digit

LEMMA NumberDigits == \A n \in Nat : Number(Digits[n]) = n
<1> DEFINE Good == {n \in Nat : Number(Digits[n]) = n}
<1>1. ASSUME NEW n \in Nat, \A m \in Nat : m < n => m \in Good PROVE n \in Good
  <2>1. CASE n < 10
    <3>1. Digits[n] = <<n>>
      BY <2>1, DigitsAre
    <3>2. <<n>> = Append(<<>>, n) /\ <<>> \in Seq(Int) /\ n \in Int
      OBVIOUS
    <3>3. Number(<<n>>) = 10 * 0 + n
      BY <3>2, NumberIs
    <3>4. QED
      BY <3>1, <3>3
  <2>2. CASE ~(n < 10)
    <3>1. PICK q \in Nat, r \in Digit : q = n \div 10 /\ r = n % 10
      BY DivideTen
    <3>2. n = 10 * q + r /\ r \in Int
      BY <3>1, DivideTen DEF Digit
    <3>3. q < n
      BY <2>2, <3>2 DEF Digit
    <3>4. Number(Digits[q]) = q
      BY <1>1, <3>3
    <3>5. Digits[n] = Append(Digits[q], r) /\ Digits[q] \in Seq(Int)
      BY <2>2, <3>1, DigitsAre, DigitsInt
    <3>6. Number(Digits[n]) = 10 * q + r
      BY <3>2, <3>4, <3>5, NumberIs
    <3>7. QED
      BY <3>2, <3>6
  <2>3. QED
    BY <2>1, <2>2
<1> HIDE DEF Good
<1>2. \A n \in Nat : n \in Good
  BY <1>1, StrongInd
<1>3. QED
  BY <1>2 DEF Good

LEMMA DigitsFit ==
  ASSUME NEW n \in Nat, NEW k \in Nat \ {0}, n < Ten[k]
  PROVE  Len(Digits[n]) <= k
<1> DEFINE Good == {m \in Nat : \A i \in Nat \ {0} : m < Ten[i] => Len(Digits[m]) <= i}
<1>1. ASSUME NEW m \in Nat, \A j \in Nat : j < m => j \in Good PROVE m \in Good
  <2>1. CASE m < 10
    <3>1. Digits[m] = <<m>>
      BY <2>1, DigitsAre
    <3>2. Len(Digits[m]) = 1
      BY <3>1
    <3>3. \A i \in Nat \ {0} : Len(Digits[m]) <= i
      BY <3>2
    <3>4. QED
      BY <3>3, Zenon
  <2>2. CASE ~(m < 10)
    <3>1. PICK q \in Nat, r \in Digit : q = m \div 10 /\ r = m % 10
      BY DivideTen
    <3>2. m = 10 * q + r /\ r \in Int /\ 0 <= r
      BY <3>1, DivideTen DEF Digit
    <3>3. q < m /\ q \in Good
      <4>1. q < m
        BY <2>2, <3>2 DEF Digit
      <4>2. QED
        BY <4>1, <1>1
    <3>4. Digits[m] = Append(Digits[q], r) /\ Digits[q] \in Seq(Digit)
      BY <2>2, <3>1, DigitsAre
    <3>5. Len(Digits[m]) = Len(Digits[q]) + 1 /\ Len(Digits[q]) \in Nat
      BY <3>4
    <3>6. ASSUME NEW i \in Nat \ {0}, m < Ten[i] PROVE Len(Digits[m]) <= i
      <4>1. PICK j \in Nat : i = j + 1
        <5>1. i - 1 \in Nat /\ i = (i - 1) + 1
          OBVIOUS
        <5>2. QED
          BY <5>1
      <4>2. Ten[j + 1] = 10 * Ten[j] /\ Ten[j] \in Int
        BY TenNext
      <4>3. q < Ten[j]
        BY <3>2, <3>6, <4>1, <4>2
      <4>4. j # 0
        BY <2>2, <3>6, <4>1, <4>2, TenZero
      <4>5. Len(Digits[q]) <= j
        BY <3>3, <4>3, <4>4
      <4>6. QED
        BY <3>5, <4>1, <4>5
    <3>7. QED
      BY <3>6
  <2>3. QED
    BY <2>1, <2>2
<1> HIDE DEF Good
<1>2. \A m \in Nat : m \in Good
  BY <1>1, StrongInd
<1>3. QED
  BY <1>2 DEF Good

-----------------------------------------------------------------------------
(* Parsing and formatting *)

LEMMA Cancel ==
  ASSUME NEW a \in Int, NEW b \in Int, NEW c \in Int, c > 0, a * c = b * c
  PROVE  a = b
<1>1. a * c = c * a /\ b * c = c * b /\ c * a \in Int /\ c * b \in Int
  BY SMT
<1>2. c * a - c * b = 0
  BY <1>1
<1>3. c \in Nat \ {0}
  OBVIOUS
<1>4. -c < c * a - c * b /\ c * a - c * b < c
  BY <1>2, <1>3
<1>5. QED
  BY <1>3, <1>4, OneMultiple

\* What is written for n, without its sign, is n with its last Decimals digits
\* after the dot.
LEMMA WrittenIs ==
  ASSUME NEW n \in Nat, NEW sign
  PROVE  /\ WellFormed(Written(sign, n))
         /\ Number(Combined(Written(sign, n))) = n
         /\ Written(sign, n).sign = sign
<1>1. Scale \in Nat \ {0}
  BY DecimalsAssumption, TenNext DEF Scale
<1>2. PICK q, r : q = n \div Scale /\ r = n - Scale * (n \div Scale)
  OBVIOUS
<1>3. q \in Nat /\ r \in Nat /\ r < Scale /\ n = q * Scale + r
  <2>1. n \div Scale \in Int /\ 0 <= r /\ r < Scale
    BY <1>1, <1>2, DivideNat
  <2>2. q \in Nat
    BY <1>1, <1>2
  <2>3. Scale * q = q * Scale /\ q * Scale \in Int
    BY <1>1, <2>2, SMT
  <2>4. QED
    BY <1>2, <2>1, <2>2, <2>3
<1>4. Quo(n, Scale) = q /\ Rem(n, Scale) = r
  BY <1>2 DEF Quo, Rem
<1>5. Printed(q) = Digits[q] /\ Printed(r) = Digits[r]
  BY <1>3 DEF Printed
<1>6. PICK k \in Nat : k = Decimals - Len(Digits[r])
  <2>1. Len(Digits[r]) <= Decimals
    BY <1>3, DecimalsAssumption, DigitsFit DEF Scale
  <2>2. Len(Digits[r]) \in Nat
    BY <1>3, DigitsAre
  <2>3. QED
    BY <2>1, <2>2, DecimalsAssumption
<1>7. PICK w, f, t : /\ w = Digits[q] /\ f = Zeros(k) \o Digits[r]
                     /\ t = Written(sign, n)
  OBVIOUS
<1>8. t = [sign |-> sign, whole |-> w, parts |-> <<f>>]
  BY <1>4, <1>5, <1>6, <1>7 DEF Written, Padded
<1>9. t.sign = sign /\ t.whole = w /\ t.parts = <<f>> /\ Fraction(t) = f
  BY <1>8 DEF Fraction
<1>10. w \in Seq(Digit) /\ Len(w) >= 1
  BY <1>3, <1>7, DigitsAre
<1>11. f \in Seq(Digit) /\ Len(f) = Decimals
  <2>1. Digits[r] \in Seq(Digit) /\ Zeros(k) \in Seq(Digit) /\ Len(Zeros(k)) = k
    BY <1>3, DigitsAre, NumberZeros
  <2>2. Len(Digits[r]) \in Nat
    BY <2>1
  <2>3. Zeros(k) \o Digits[r] \in Seq(Digit)
        /\ Len(Zeros(k) \o Digits[r]) = k + Len(Digits[r])
    BY <2>1
  <2>4. k + Len(Digits[r]) = Decimals
    BY <1>6, <2>2, DecimalsAssumption
  <2>5. QED
    BY <1>7, <2>3, <2>4
<1>12. WellFormed(t)
  <2>1. w # <<>> /\ isDigits(w) /\ isDigits(f)
    BY <1>10, <1>11 DEF isDigits
  <2>2. Len(<<f>>) = 1 /\ Len(f) <= Decimals
    BY <1>11, DecimalsAssumption
  <2>3. QED
    BY <1>9, <2>1, <2>2 DEF WellFormed
<1>13. Number(f) = r
  <2>1. Zeros(k) \in Seq(Int) /\ Digits[r] \in Seq(Int)
    BY <1>3, NumberZeros, DigitsAre, DigitsInt
  <2>2. Number(f) = Number(Zeros(k)) * Ten[Len(Digits[r])] + Number(Digits[r])
    BY <1>7, <2>1, NumberConcat
  <2>3. Number(Zeros(k)) = 0 /\ Number(Digits[r]) = r
    BY <1>3, NumberZeros, NumberDigits
  <2>4. Ten[Len(Digits[r])] \in Int
    <3>1. PICK l \in Nat : l = Len(Digits[r])
      BY <2>1
    <3>2. QED
      BY <3>1, TenNext
  <2>5. QED
    BY <1>3, <2>2, <2>3, <2>4
<1>14. Combined(t) = w \o f
  <2>1. Decimals - Len(f) = 0
    BY <1>11, DecimalsAssumption
  <2>2. Zeros(Decimals - Len(f)) = <<>>
    BY <2>1 DEF Zeros
  <2>3. (w \o f) \o <<>> = w \o f
    BY <1>10, <1>11
  <2>4. QED
    BY <1>9, <2>2, <2>3 DEF Combined
<1>15. Number(w \o f) = q * Scale + r
  <2>1. w \in Seq(Int) /\ f \in Seq(Int)
    BY <1>10, <1>11, DigitsInt
  <2>2. Number(w \o f) = Number(w) * Ten[Len(f)] + Number(f)
    BY <2>1, NumberConcat
  <2>3. Number(w) = q
    BY <1>3, <1>7, NumberDigits
  <2>4. QED
    BY <1>11, <1>13, <2>2, <2>3 DEF Scale
<1>16. QED
  BY <1>3, <1>7, <1>9, <1>12, <1>14, <1>15

LEMMA WrapSmall == ASSUME NEW n \in Int64 PROVE Wrap(n) = n
<1>1. PICK m \in Nat : m = MaxInt
  BY WidthAssumption
<1>2. PICK x, w : x = n - MinInt /\ w = 2 * (MaxInt + 1)
  OBVIOUS
<1>3. n \in Int /\ x \in Nat /\ w \in Nat /\ x < w /\ MinInt \in Int
  BY <1>1, <1>2 DEF Int64, MinInt
<1>4. x % w = x
  BY <1>3, SMT
<1>5. QED
  BY <1>2, <1>3, <1>4 DEF Wrap

\* A service reads back what another has written, at both ends of the range too.
LEMMA RoundTrip ==
  ASSUME NEW v \in Int64
  PROVE  parseDecimal(formatDecimal(v)) = v
<1>1. MaxInt \in Nat /\ MinInt = -MaxInt - 1 /\ v \in Int /\ MinInt <= v /\ v <= MaxInt
  BY WidthAssumption DEF Int64, MinInt
<1>2. ASSUME NEW n \in Nat, NEW t, t = Written("-", n), -n = v
      PROVE  parseDecimal(t) = v
  <2>1. WellFormed(t) /\ Number(Combined(t)) = n /\ t.sign = "-"
    BY <1>2, WrittenIs
  <2>2. QED
    BY <1>2, <2>1 DEF parseDecimal
<1>3. CASE v = MinInt
  <2>1. MaxInt + 1 \in Nat /\ -(MaxInt + 1) = v
    BY <1>1, <1>3
  <2>2. formatDecimal(v) = Written("-", MaxInt + 1)
    BY <1>3 DEF formatDecimal
  <2>3. QED
    BY <1>2, <2>1, <2>2
<1>4. CASE v # MinInt /\ v < 0
  <2>1. -v \in Nat /\ -v \in Int64 /\ -(-v) = v
    BY <1>1, <1>4 DEF Int64
  <2>2. formatDecimal(v) = Written("-", -v)
    BY <1>4, <2>1, WrapSmall DEF formatDecimal
  <2>3. QED
    BY <1>2, <2>1, <2>2
<1>5. CASE v # MinInt /\ ~(v < 0)
  <2>1. v \in Nat /\ formatDecimal(v) = Written("", v)
    BY <1>1, <1>5 DEF formatDecimal
  <2>2. PICK t : t = Written("", v)
    OBVIOUS
  <2>3. WellFormed(t) /\ Number(Combined(t)) = v /\ t.sign = ""
    BY <2>1, <2>2, WrittenIs
  <2>4. QED
    BY <2>1, <2>2, <2>3 DEF parseDecimal
<1>6. QED
  BY <1>3, <1>4, <1>5

LEMMA TextParts ==
  ASSUME NEW t \in Texts
  PROVE  /\ t.whole \in Seq(Digit \cup {Other})
         /\ Fraction(t) \in Seq(Digit \cup {Other})
         /\ Len(Fraction(t)) \in Nat
<1>1. t.whole \in Seq(Digit \cup {Other}) /\ t.parts \in Seq(Seq(Digit \cup {Other}))
  BY DEF Texts
<1>2. <<>> \in Seq(Digit \cup {Other})
  OBVIOUS
<1>3. t.parts # <<>> => t.parts[1] \in Seq(Digit \cup {Other})
  BY <1>1
<1>4. Fraction(t) \in Seq(Digit \cup {Other})
  BY <1>1, <1>2, <1>3 DEF Fraction
<1>5. QED
  BY <1>1, <1>4

\* The number that parseDecimal computes before it looks at the range.
Value(t) == IF t.sign = "-" THEN -Number(Combined(t)) ELSE Number(Combined(t))

LEMMA ValueIs ==
  ASSUME NEW t \in Texts, WellFormed(t)
  PROVE  /\ Value(t) \in Int
         /\ \A v \in Int : Denotes(t, v) <=> v = Value(t)
<1>1. PICK w, f : w = t.whole /\ f = Fraction(t)
  OBVIOUS
<1>2. w \in Seq(Digit) /\ f \in Seq(Digit) /\ Len(f) <= Decimals
  <2>1. w \in Seq(Digit \cup {Other}) /\ f \in Seq(Digit \cup {Other})
    BY <1>1, TextParts
  <2>2. isDigits(w) /\ isDigits(f) /\ Len(f) <= Decimals
    BY <1>1 DEF WellFormed
  <2>3. ASSUME NEW s \in Seq(Digit \cup {Other}), isDigits(s) PROVE s \in Seq(Digit)
    BY <2>3 DEF isDigits
  <2>4. QED
    BY <2>1, <2>2, <2>3
<1>3. PICK k, l : k = Decimals - Len(f) /\ l = Len(f)
  OBVIOUS
<1>4. k \in Nat /\ l \in Nat /\ k + l = Decimals
  BY <1>2, <1>3, DecimalsAssumption
<1>5. PICK p : p = Number(w \o f)
  OBVIOUS
<1>6. w \o f \in Seq(Digit) /\ w \o f \in Seq(Int) /\ p = Places(w \o f) /\ p \in Int
  <2>1. w \o f \in Seq(Digit)
    BY <1>2
  <2>2. w \o f \in Seq(Int)
    BY <2>1, DigitsInt
  <2>3. PICK s \in Seq(Int) : s = w \o f
    BY <2>2
  <2>4. Number(s) = Places(s) /\ Number(s) \in Int
    BY NumberIsPlaces, NumberIs
  <2>5. QED
    BY <1>5, <2>1, <2>2, <2>3, <2>4
<1>7. Number(Combined(t)) = p * Ten[k]
  <2>1. Combined(t) = (w \o f) \o Zeros(k)
    BY <1>1, <1>3 DEF Combined
  <2>2. Zeros(k) \in Seq(Int) /\ Len(Zeros(k)) = k /\ Number(Zeros(k)) = 0
    BY <1>4, NumberZeros, DigitsInt
  <2>3. Number(Combined(t)) = Number(w \o f) * Ten[k] + 0
    BY <1>6, <2>1, <2>2, NumberConcat
  <2>4. Ten[k] \in Int
    BY <1>4, TenNext
  <2>5. p * Ten[k] \in Int
    BY <1>6, <2>4
  <2>6. QED
    BY <1>5, <2>3, <2>5
<1>8. Ten[k] \in Int /\ Ten[l] \in Int /\ Ten[l] > 0 /\ Scale = Ten[k] * Ten[l]
  <2>1. Ten[k + l] = Ten[k] * Ten[l]
    BY <1>4, TenSum
  <2>2. QED
    BY <1>4, <2>1, TenNext DEF Scale
<1>9. PICK g : g = IF t.sign = "-" THEN -1 ELSE 1
  OBVIOUS
<1>10. Value(t) = g * (p * Ten[k]) /\ g \in Int
  <2>1. p * Ten[k] \in Int
    BY <1>6, <1>8
  <2>2. PICK m \in Int : m = p * Ten[k]
    BY <2>1
  <2>3. Value(t) = g * m
    BY <1>7, <1>9, <2>2 DEF Value
  <2>4. QED
    BY <1>9, <2>2, <2>3
<1>11. Value(t) \in Int
  <2>1. p * Ten[k] \in Int
    BY <1>6, <1>8
  <2>2. QED
    BY <1>10, <2>1
<1>12. Value(t) * Ten[l] = g * Scale * p
  BY <1>6, <1>8, <1>10, SMT
<1>13. ASSUME NEW v \in Int PROVE Denotes(t, v) <=> v * Ten[l] = g * Scale * p
  <2>1. \A i \in DOMAIN (w \o f) : (w \o f)[i] # Other
    <3>1. PICK s \in Seq(Digit) : s = w \o f
      BY <1>6
    <3>2. ASSUME NEW d \in Digit PROVE d # Other
      BY DEF Digit, Other
    <3>3. \A i \in DOMAIN s : s[i] \in Digit
      OBVIOUS
    <3>4. QED
      BY <3>1, <3>2, <3>3
  <2>2. (t.whole # <<>> \/ t.parts # <<>>) /\ Len(t.parts) <= 1
    BY DEF WellFormed
  <2>3. QED
    BY <1>1, <1>3, <1>6, <1>9, <2>1, <2>2 DEF Denotes
<1>14. ASSUME NEW v \in Int, v * Ten[l] = Value(t) * Ten[l] PROVE v = Value(t)
  BY <1>8, <1>11, <1>14, Cancel
<1>15. QED
  BY <1>11, <1>12, <1>13, <1>14

\* An accepted text is the number it says, and a refused one with few enough
\* places says no number of 64 bits.
LEMMA Accepted ==
  ASSUME NEW t \in Texts, parseDecimal(t) # Refused
  PROVE  parseDecimal(t) \in Int64 /\ Denotes(t, parseDecimal(t))
<1>1. WellFormed(t) /\ Value(t) \in Int64 /\ parseDecimal(t) = Value(t)
  BY DEF parseDecimal, Value
<1>2. QED
  BY <1>1, ValueIs

LEMMA RefusedHasNoValue ==
  ASSUME NEW t \in Texts, parseDecimal(t) = Refused, Len(Fraction(t)) <= Decimals
  PROVE  \A v \in Int64 : ~Denotes(t, v)
<1> SUFFICES ASSUME NEW v \in Int64, Denotes(t, v) PROVE FALSE
  OBVIOUS
<1>1. v \in Int
  BY WidthAssumption DEF Int64, MinInt
<1>2. WellFormed(t)
  <2>1. PICK w, f : w = t.whole /\ f = Fraction(t)
    OBVIOUS
  <2>2. w \in Seq(Digit \cup {Other}) /\ f \in Seq(Digit \cup {Other})
    BY <2>1, TextParts
  <2>3. \A i \in DOMAIN (w \o f) : (w \o f)[i] # Other
    BY <2>1 DEF Denotes
  <2>4. isDigits(w)
    <3>1. ASSUME NEW i \in DOMAIN w PROVE w[i] \in Digit
      <4>1. i \in DOMAIN (w \o f) /\ (w \o f)[i] = w[i] /\ w[i] \in Digit \cup {Other}
        BY <2>2
      <4>2. QED
        BY <2>3, <4>1
    <3>2. QED
      BY <3>1 DEF isDigits
  <2>5. isDigits(f)
    <3>1. ASSUME NEW i \in DOMAIN f PROVE f[i] \in Digit
      <4>1. /\ Len(w) + i \in DOMAIN (w \o f)
            /\ (w \o f)[Len(w) + i] = f[i] /\ f[i] \in Digit \cup {Other}
        BY <2>2
      <4>2. QED
        BY <2>3, <4>1
    <3>2. QED
      BY <3>1 DEF isDigits
  <2>6. QED
    BY <2>1, <2>4, <2>5 DEF Denotes, WellFormed
<1>3. v = Value(t)
  BY <1>1, <1>2, ValueIs
<1>4. parseDecimal(t) = v
  BY <1>2, <1>3 DEF parseDecimal, Value
<1>5. QED
  BY <1>4, ResultAssumption

-----------------------------------------------------------------------------
(* Costs *)

\* CostFor returns the product, or an error when the product has no such form.
LEMMA MultiplyScaled ==
  ASSUME NEW l \in Int64, NEW r \in Int64
  PROVE  LET m == multiplyScaled(l, r) IN
         /\ m \in Int64 => m * Scale = l * r
         /\ m \notin Int64 => m = Refused /\ \A v \in Int64 : v * Scale # l * r
<1> DEFINE n == l * r
           d == Scale
           q == Quo(n, d)
<1>1. n \in Int /\ d \in Nat \ {0}
  BY DecimalsAssumption, TenNext, WidthAssumption DEF Scale, Int64, MinInt
<1>2. q \in Int /\ -d < n - d * q /\ n - d * q < d
  BY <1>1, QuoRem
<1>3. multiplyScaled(l, r) = IF n - d * q = 0 /\ q \in Int64 THEN q ELSE Refused
  BY DEF multiplyScaled, Rem
<1>4. Refused \notin Int64
  BY ResultAssumption
<1> HIDE DEF n, d, q
<1>5. CASE n - d * q = 0 /\ q \in Int64
  BY <1>1, <1>2, <1>3, <1>5 DEF n, d
<1>6. CASE ~(n - d * q = 0 /\ q \in Int64)
  <2>1. ASSUME NEW v \in Int64, v * d = n PROVE FALSE
    <3>1. v \in Int /\ v * d = d * v
      BY <1>1, WidthAssumption DEF Int64, MinInt
    <3>2. v = q
      BY <1>1, <1>2, <2>1, <3>1, OneMultiple
    <3>3. QED
      BY <1>1, <1>2, <1>6, <2>1, <3>1, <3>2
  <2>2. QED
    BY <1>3, <1>4, <1>6, <2>1 DEF n, d
<1>7. QED
  BY <1>5, <1>6

-----------------------------------------------------------------------------
(* The theorems *)

\* What a service holds, and the cost it has computed from it.
Costed ==
  \/ order \in {None, Refused}
  \/ /\ order \in [Fields -> Int64]
     /\ cost = multiplyScaled(order["price"], order["quantity"])

\* A service never reserves or settles an amount that is not price times
\* quantity, and refuses no product that fits.
THEOREM CostsAreExact == Spec => []CostIsExact
<1>1. Init => Costed
  BY DEF Init, Costed
<1>2. Costed /\ [Next]_vars => Costed'
  <2> SUFFICES ASSUME Costed, [Next]_vars PROVE Costed'
    OBVIOUS
  <2>1. CASE Receive
    <3> DEFINE read == [f \in Fields |-> parseDecimal(wire[f])]
    <3>1. CASE \E f \in Fields : read[f] = Refused
      BY <2>1, <3>1 DEF Receive, Costed
    <3>2. CASE ~\E f \in Fields : read[f] = Refused
      <4>1. \A t : parseDecimal(t) \in Int64 \cup {Refused}
        BY DEF parseDecimal
      <4>2. read \in [Fields -> Int64]
        BY <3>2, <4>1
      <4>3. order' = read /\ cost' = multiplyScaled(read["price"], read["quantity"])
        BY <2>1, <3>2 DEF Receive
      <4>4. QED
        BY <4>2, <4>3 DEF Costed
    <3>3. QED
      BY <3>1, <3>2
  <2>2. CASE Send \/ UNCHANGED vars
    BY <2>2 DEF Send, vars, Costed
  <2>3. QED
    BY <2>1, <2>2 DEF Next
<1>3. Costed => CostIsExact
  <2> SUFFICES ASSUME Costed, order \notin {None, Refused}
               PROVE  LET product == order["price"] * order["quantity"] IN
                      IF cost = Refused
                      THEN \A v \in Int64 : v * Scale # product
                      ELSE cost \in Int64 /\ cost * Scale = product
    BY DEF CostIsExact
  <2>1. order["price"] \in Int64 /\ order["quantity"] \in Int64
    BY DEF Costed, Fields
  <2>2. cost = multiplyScaled(order["price"], order["quantity"])
    BY DEF Costed
  <2>3. QED
    BY <2>1, <2>2, MultiplyScaled, ResultAssumption
<1>4. QED
  BY <1>1, <1>2, <1>3, PTL DEF Spec

\* What the client wrote, at each point of the way of a message: on the wire it is
\* the request or what a service has written, and a service holds what it has read.
Carried ==
  /\ request \in Requests /\ hops \in Nat
  /\ order = None => hops = 0 /\ wire \in {None, request}
  /\ order = Refused =>
       /\ hops = 1 /\ wire = None
       /\ \E f \in Fields : parseDecimal(request[f]) = Refused
  /\ order \notin {None, Refused} =>
       /\ order \in [Fields -> Int64]
       /\ \A f \in Fields : order[f] = parseDecimal(request[f])
       /\ wire \in {None, [f \in Fields |-> formatDecimal(order[f])]}

LEMMA InitCarried == Init => Carried
BY ResultAssumption DEF Init, Carried

LEMMA ReceiveCarried ==
  ASSUME Carried, Receive
  PROVE  Carried'
<1>1. PICK read : read = [f \in Fields |-> parseDecimal(wire[f])]
  OBVIOUS
<1>2. /\ wire # None /\ wire' = None /\ hops' = hops + 1 /\ request' = request
      /\ (\E f \in Fields : read[f] = Refused) => order' = Refused
      /\ ~(\E f \in Fields : read[f] = Refused) => order' = read
  BY <1>1 DEF Receive
<1>3. \A f \in Fields : read[f] = parseDecimal(request[f])
  <2>1. CASE order = None
    BY <1>1, <1>2, <2>1 DEF Carried
  <2>2. CASE order \notin {None, Refused}
    <3>1. ASSUME NEW f \in Fields PROVE read[f] = parseDecimal(request[f])
      <4>1. order[f] \in Int64 /\ order[f] = parseDecimal(request[f])
        BY <2>2 DEF Carried
      <4>2. wire[f] = formatDecimal(order[f])
        BY <1>2, <2>2 DEF Carried
      <4>3. QED
        BY <1>1, <4>1, <4>2, RoundTrip
    <3>2. QED
      BY <3>1
  <2>3. order # Refused
    BY <1>2 DEF Carried
  <2>4. QED
    BY <2>1, <2>2, <2>3
<1>4. CASE \E f \in Fields : read[f] = Refused
  <2>1. order = None /\ hops = 0
    <3>1. PICK f \in Fields : parseDecimal(request[f]) = Refused
      BY <1>3, <1>4
    <3>2. ASSUME order \notin {None, Refused} PROVE FALSE
      <4>1. order[f] \in Int64 /\ order[f] = Refused
        BY <3>1, <3>2 DEF Carried
      <4>2. QED
        BY <4>1, ResultAssumption
    <3>3. order # Refused
      BY <1>2 DEF Carried
    <3>4. QED
      BY <3>2, <3>3 DEF Carried
  <2>2. order' = Refused /\ hops' = 1
    BY <1>2, <1>4, <2>1
  <2>3. \E f \in Fields : parseDecimal(request'[f]) = Refused
    BY <1>2, <1>3, <1>4
  <2>4. QED
    BY <1>2, <2>2, <2>3, ResultAssumption DEF Carried
<1>5. CASE ~(\E f \in Fields : read[f] = Refused)
  <2>1. \A t : parseDecimal(t) \in Int64 \cup {Refused}
    BY DEF parseDecimal
  <2>2. read \in [Fields -> Int64]
    BY <1>1, <1>5, <2>1
  <2>3. order' = read /\ order' \notin {None, Refused}
    BY <1>2, <1>5, <2>2, ResultAssumption
  <2>4. hops' \in Nat /\ request' \in Requests
    BY <1>2 DEF Carried
  <2>5. QED
    BY <1>2, <1>3, <2>2, <2>3, <2>4 DEF Carried
<1>6. QED
  BY <1>4, <1>5

LEMMA CarriedIsInvariant == Spec => []Carried
<1>1. Carried /\ [Next]_vars => Carried'
  <2> SUFFICES ASSUME Carried, [Next]_vars PROVE Carried'
    OBVIOUS
  <2>1. CASE Receive
    BY <2>1, ReceiveCarried
  <2>2. CASE Send
    BY <2>2 DEF Send, Carried
  <2>3. CASE UNCHANGED vars
    BY <2>3 DEF vars, Carried
  <2>4. QED
    BY <2>1, <2>2, <2>3 DEF Next
<1>2. QED
  BY <1>1, InitCarried, PTL DEF Spec

\* However many services a message has gone through, the last one holds the very
\* numbers the client wrote: nothing is lost in UnmarshalJSON and MarshalJSON.
THEOREM OrdersAreRequests == Spec => []OrderIsRequest
<1>1. Carried => OrderIsRequest
  <2> SUFFICES ASSUME Carried, order \notin {None, Refused}, NEW f \in Fields
               PROVE  order[f] \in Int64 /\ Denotes(request[f], order[f])
    BY DEF OrderIsRequest
  <2>1. order[f] \in Int64 /\ order[f] = parseDecimal(request[f])
    BY DEF Carried
  <2>2. request[f] \in Texts /\ parseDecimal(request[f]) # Refused
    BY <2>1, RequestsAssumption, ResultAssumption DEF Carried
  <2>3. QED
    BY <2>1, <2>2, Accepted
<1>2. QED
  BY <1>1, CarriedIsInvariant, PTL

\* No service refuses what another has written: a message is refused by the first
\* one, for too many places or because no 64-bit integer is what the text says.
THEOREM RefusalIsFirst == Spec => []RefusedAtFirst
<1>1. Carried => RefusedAtFirst
  <2> SUFFICES ASSUME Carried, order = Refused
               PROVE  /\ hops = 1
                      /\ \E f \in Fields : \/ Len(Fraction(request[f])) > Decimals
                                           \/ \A v \in Int64 : ~Denotes(request[f], v)
    BY DEF RefusedAtFirst
  <2>1. hops = 1 /\ request \in Requests
    BY DEF Carried
  <2>2. PICK f \in Fields : parseDecimal(request[f]) = Refused
    BY DEF Carried
  <2>3. PICK t : t = request[f]
    OBVIOUS
  <2>4. t \in Texts
    BY <2>1, <2>3, RequestsAssumption
  <2>5. Len(Fraction(t)) > Decimals \/ Len(Fraction(t)) <= Decimals
    <3>1. Len(Fraction(t)) \in Nat
      BY <2>4, TextParts
    <3>2. QED
      BY <3>1, DecimalsAssumption
  <2>6. Len(Fraction(t)) <= Decimals => \A v \in Int64 : ~Denotes(t, v)
    BY <2>2, <2>3, <2>4, RefusedHasNoValue
  <2>7. QED
    BY <2>1, <2>3, <2>5, <2>6
<1>2. QED
  BY <1>1, CarriedIsInvariant, PTL

=============================================================================
