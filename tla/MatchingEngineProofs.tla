-------------------------- MODULE MatchingEngineProofs --------------------------
(***************************************************************************)
(* Safety of the command pipeline for any finite set of orders, any        *)
(* cancellations, any portfolio and any choice of faults.                  *)
(***************************************************************************)
EXTENDS MatchingEngine, SumTheorems, SequenceTheorems

-----------------------------------------------------------------------------
(* Filling in order of priority *)

\* A finite set under a strict partial order has a last element.
LEMMA LastElement ==
  ASSUME NEW S, IsFiniteSet(S), NEW Rel,
         \A x \in S : <<x, x>> \notin Rel,
         \A x, y, z \in S : <<x, y>> \in Rel /\ <<y, z>> \in Rel => <<x, z>> \in Rel
  PROVE  \A s \in SUBSET S : s # {} => \E m \in s : \A x \in s : <<m, x>> \notin Rel
<1> DEFINE Good == {s \in SUBSET S : s # {} => \E m \in s : \A x \in s : <<m, x>> \notin Rel}
<1>1. {} \in Good
  OBVIOUS
<1>2. ASSUME NEW s \in SUBSET S, s # {}, \A y \in s : s \ {y} \in Good
      PROVE  s \in Good
  <2>1. PICK y \in s : TRUE
    BY <1>2
  <2>2. CASE s \ {y} = {}
    <3>1. \A x \in s : <<y, x>> \notin Rel
      BY <2>2
    <3>2. QED
      BY <3>1
  <2>3. CASE s \ {y} # {}
    <3>1. PICK m \in s \ {y} : \A x \in s \ {y} : <<m, x>> \notin Rel
      BY <1>2, <2>3
    <3>2. CASE <<m, y>> \in Rel
      <4>1. \A x \in s : <<y, x>> \notin Rel
        BY <3>1, <3>2
      <4>2. QED
        BY <4>1
    <3>3. CASE <<m, y>> \notin Rel
      <4>1. \A x \in s : <<m, x>> \notin Rel
        BY <3>1, <3>3
      <4>2. QED
        BY <4>1
    <3>4. QED
      BY <3>2, <3>3
  <2>4. QED
    BY <2>2, <2>3
<1>3. \A s \in SUBSET S : s \in Good
  <2> HIDE DEF Good
  <2>1. QED
    BY <1>1, <1>2, SubsetInduction
<1>4. QED
  BY <1>3

Clamp(wanted, has) == IF wanted <= 0 THEN 0 ELSE IF wanted < has THEN wanted ELSE has
Least(a, b) == IF a < b THEN a ELSE b

\* The elements before x.
Ahead(B, Rel, x) == {y \in B : <<y, x>> \in Rel}

StrictOrder(B, Rel) ==
  /\ \A x \in B : <<x, x>> \notin Rel
  /\ \A x, y, z \in B : <<x, y>> \in Rel /\ <<y, z>> \in Rel => <<x, z>> \in Rel
  /\ \A x, y \in B : x # y => <<x, y>> \in Rel \/ <<y, x>> \in Rel

\* Every element gets what those before it leave of n, and no more than it has.
Filling(fill, n, has, B, Rel) ==
  /\ \A x \in B : has[x] \in Nat
  /\ \A x \in B : fill[x] = Clamp(n - SumFunctionOnSet(has, Ahead(B, Rel, x)), has[x])

\* Then they get n in all, or everything there is.
LEMMA FilledInOrder ==
  ASSUME NEW B, NEW Rel, NEW n, NEW has, NEW fill,
         IsFiniteSet(B), StrictOrder(B, Rel), n \in Nat, Filling(fill, n, has, B, Rel)
  PROVE  /\ \A x \in B : fill[x] \in Nat /\ fill[x] <= has[x]
         /\ SumFunctionOnSet(fill, B) = Least(n, SumFunctionOnSet(has, B))
<1> DEFINE Sum(f, s) == SumFunctionOnSet(f, s)
           Initial(D) == \A x \in D, y \in B : <<y, x>> \in Rel => y \in D
           Good == {D \in SUBSET B : Initial(D) => Sum(fill, D) = Least(n, Sum(has, D))}
<1>0. /\ \A x \in B : <<x, x>> \notin Rel
      /\ \A x, y, z \in B : <<x, y>> \in Rel /\ <<y, z>> \in Rel => <<x, z>> \in Rel
      /\ \A x \in B : has[x] \in Nat
      /\ \A x \in B : fill[x] = Clamp(n - Sum(has, Ahead(B, Rel, x)), has[x])
  BY DEF StrictOrder, Filling
<1>1. \A D \in SUBSET B : Sum(has, D) \in Nat /\ IsFiniteSet(D)
  BY <1>0, SubsetFinite, SumNat
<1>2. ASSUME NEW x \in B
      PROVE  fill[x] \in Nat /\ fill[x] <= has[x]
  <2>1. Sum(has, Ahead(B, Rel, x)) \in Nat
    BY <1>1 DEF Ahead
  <2>2. has[x] \in Nat
    BY <1>0
  <2>3. fill[x] = Clamp(n - Sum(has, Ahead(B, Rel, x)), has[x])
    BY <1>0
  <2> HIDE DEF Sum
  <2>4. QED
    BY <2>1, <2>2, <2>3 DEF Clamp
<1>3. {} \in Good
  BY SumEmpty DEF Least
<1>4. ASSUME NEW D \in SUBSET B, D # {}, \A y \in D : D \ {y} \in Good
      PROVE  D \in Good
  <2> SUFFICES ASSUME Initial(D) PROVE Sum(fill, D) = Least(n, Sum(has, D))
    OBVIOUS
  <2>1. PICK m \in D : \A x \in D : <<m, x>> \notin Rel
    BY <1>0, <1>4, LastElement
  <2> DEFINE R == D \ {m}
  <2>2. Ahead(B, Rel, m) = R
    <3>1. ASSUME NEW y \in B
          PROVE  <<y, m>> \in Rel <=> y \in R
      <4>1. <<y, m>> \in Rel => y \in D
        OBVIOUS
      <4>2. m \in B /\ <<m, m>> \notin Rel
        BY <1>0
      <4>3. y \in D => <<m, y>> \notin Rel
        BY <2>1
      <4>4. y # m => <<m, y>> \in Rel \/ <<y, m>> \in Rel
        BY <4>2, Zenon DEF StrictOrder
      <4>5. QED
        BY <4>1, <4>2, <4>3, <4>4
    <3>2. R \subseteq B
      OBVIOUS
    <3>3. QED
      BY <3>1, <3>2 DEF Ahead
  <2>3. Initial(R) /\ R \in Good
    BY <1>4, <2>1
  <2>4. Sum(fill, R) = Least(n, Sum(has, R))
    BY <2>3
  <2>5. Sum(has, D) = has[m] + Sum(has, R)
    <3>1. Values(has, D)
      BY <1>0 DEF Values
    <3>2. QED
      BY <1>1, <3>1, SumRemove
  <2>6. Sum(fill, D) = fill[m] + Sum(fill, R)
    <3>1. Values(fill, D)
      BY <1>2 DEF Values
    <3>2. QED
      BY <1>1, <3>1, SumRemove
  <2>7. fill[m] = Clamp(n - Sum(has, R), has[m])
    BY <1>0, <2>2
  <2>8. has[m] \in Nat /\ Sum(has, R) \in Nat
    BY <1>0, <1>1
  <2> HIDE DEF Sum, R
  <2>9. QED
    BY <2>4, <2>5, <2>6, <2>7, <2>8 DEF Clamp, Least
<1>5. \A D \in SUBSET B : D \in Good
  <2> HIDE DEF Good
  <2>1. QED
    BY <1>3, <1>4, SubsetInduction
<1>6. Initial(B)
  OBVIOUS
<1>7. Sum(fill, B) = Least(n, Sum(has, B))
  BY <1>5, <1>6
<1>8. QED
  BY <1>2, <1>7

\* If they get less than n, all is taken; and nothing is taken from an element
\* while one before it has something left.
LEMMA FilledByPriority ==
  ASSUME NEW B, NEW Rel, NEW n, NEW has, NEW fill,
         IsFiniteSet(B), StrictOrder(B, Rel), n \in Nat, Filling(fill, n, has, B, Rel)
  PROVE  /\ SumFunctionOnSet(fill, B) < n => \A x \in B : fill[x] = has[x]
         /\ \A x, y \in B : <<x, y>> \in Rel /\ fill[y] > 0 => fill[x] = has[x]
<1> DEFINE Sum(s) == SumFunctionOnSet(has, s)
           before(x) == Ahead(B, Rel, x)
<1>1. ASSUME NEW x \in B
      PROVE  /\ has[x] \in Nat /\ Sum(before(x)) \in Nat
             /\ fill[x] = Clamp(n - Sum(before(x)), has[x])
             /\ Sum(before(x) \cup {x}) = Sum(before(x)) + has[x]
  <2>1. \A y \in B : has[y] \in Nat
    BY DEF Filling
  <2>2. before(x) \in SUBSET B /\ x \notin before(x) /\ IsFiniteSet(before(x))
    BY FS_Subset DEF Ahead, StrictOrder
  <2>3. Values(has, before(x)) /\ has[x] \in Int
    BY <2>1, <2>2 DEF Values
  <2>4. Sum(before(x) \cup {x}) = Sum(before(x)) + has[x]
    BY <2>2, <2>3, SumAdd
  <2>5. Sum(before(x)) \in Nat
    BY <2>1, <2>2, SumNat
  <2>6. fill[x] = Clamp(n - Sum(before(x)), has[x])
    BY DEF Filling
  <2>7. QED
    BY <2>1, <2>4, <2>5, <2>6
<1>2. ASSUME NEW T \in SUBSET B, NEW x \in B, before(x) \cup {x} \subseteq T
      PROVE  Sum(before(x)) + has[x] <= Sum(T)
  <2>1. IsFiniteSet(T) /\ \A y \in T : has[y] \in Nat
    BY <1>1, FS_Subset
  <2>2. Sum(before(x) \cup {x}) <= Sum(T)
    BY <1>2, <2>1, SumMonotone
  <2>3. QED
    BY <1>1, <2>2
<1>3. ASSUME SumFunctionOnSet(fill, B) < n, NEW x \in B
      PROVE  fill[x] = has[x]
  <2>1. SumFunctionOnSet(fill, B) = Least(n, Sum(B))
    BY FilledInOrder
  <2>2. Sum(B) \in Nat
    BY <1>1, SumNat
  <2>3. Sum(before(x)) + has[x] <= Sum(B)
    <3>1. before(x) \cup {x} \subseteq B
      BY DEF Ahead
    <3>2. QED
      BY <1>2, <3>1
  <2>4. has[x] \in Nat /\ Sum(before(x)) \in Nat /\ fill[x] = Clamp(n - Sum(before(x)), has[x])
    BY <1>1
  <2> HIDE DEF Sum, before
  <2>5. Sum(B) < n
    BY <1>3, <2>1, <2>2 DEF Least
  <2>6. QED
    BY <2>2, <2>3, <2>4, <2>5 DEF Clamp
<1>4. ASSUME NEW x \in B, NEW y \in B, <<x, y>> \in Rel, fill[y] > 0
      PROVE  fill[x] = has[x]
  <2>1. before(x) \cup {x} \subseteq before(y) /\ before(y) \in SUBSET B
    BY <1>4 DEF Ahead, StrictOrder
  <2>2. Sum(before(x)) + has[x] <= Sum(before(y))
    BY <1>2, <2>1
  <2>3. /\ has[x] \in Nat /\ Sum(before(x)) \in Nat /\ fill[x] = Clamp(n - Sum(before(x)), has[x])
        /\ has[y] \in Nat /\ Sum(before(y)) \in Nat /\ fill[y] = Clamp(n - Sum(before(y)), has[y])
    BY <1>1
  <2> HIDE DEF Sum, before
  <2>4. n - Sum(before(y)) > 0
    BY <1>4, <2>3 DEF Clamp
  <2>5. QED
    BY <2>2, <2>3, <2>4 DEF Clamp
<1>5. QED
  BY <1>3, <1>4

-----------------------------------------------------------------------------
(* What an incoming order takes from the book *)

LEMMA LeftTyped ==
  ASSUME TypeOK, NEW e \in Entries
  PROVE  /\ Left(e) \in Nat /\ e[1] \in Orders /\ e[2] \in {"current", "replaced"}
         /\ e = <<e[1], e[2]>>
<1>1. e[1] \in Orders /\ e[2] \in {"current", "replaced"} /\ e = <<e[1], e[2]>>
  BY DEF Entries
<1>2. replaced[e[1]] \in Nat
  BY <1>1 DEF TypeOK
<1>3. mem[e[1]] # None => mem[e[1]].left \in Nat
  BY <1>1 DEF TypeOK, RowState
<1>4. QED
  BY <1>1, <1>2, <1>3 DEF Left

LEMMA TermsOf ==
  ASSUME terms \in Portfolios, NEW o \in Orders
  PROVE  /\ terms[o].side \in {"BUY", "SELL"} /\ terms[o].price \in Nat
         /\ terms[o].qty \in Nat \ {0} /\ terms[o].at \in Int
         /\ \A p \in Orders : p # o => terms[p].at # terms[o].at
<1>1. terms[o] \in Terms
  BY PortfoliosAssumption
<1>2. QED
  BY <1>1, PortfoliosAssumption DEF Terms

\* Two entries of one order: one of them is on top.
OnTop(e, first) == (e[2] = "replaced") = first

LEMMA OneOnTop ==
  ASSUME NEW e \in Entries, NEW f \in Entries, e[1] = f[1], e # f, NEW first \in BOOLEAN
  PROVE  OnTop(e, first) <=> ~ OnTop(f, first)
<1>1. /\ e = <<e[1], e[2]>> /\ f = <<f[1], f[2]>>
      /\ e[2] \in {"current", "replaced"} /\ f[2] \in {"current", "replaced"}
  BY DEF Entries
<1>2. e[2] # f[2]
  BY <1>1
<1>3. e[2] = "replaced" <=> ~ (f[2] = "replaced")
  BY <1>1, <1>2
<1>4. CASE first = TRUE
  BY <1>3, <1>4 DEF OnTop
<1>5. CASE first = FALSE
  BY <1>3, <1>5 DEF OnTop
<1>6. QED
  BY <1>4, <1>5

\* Priority between two orders of one side.
Prior(p, q) ==
  IF terms[p].price = terms[q].price THEN terms[p].at < terms[q].at
  ELSE IF terms[q].side = "BUY" THEN terms[p].price > terms[q].price
  ELSE terms[p].price < terms[q].price

LEMMA PriorOrder ==
  ASSUME terms \in Portfolios, NEW p \in Orders, NEW q \in Orders, NEW r \in Orders,
         terms[p].side = terms[q].side, terms[q].side = terms[r].side
  PROVE  /\ Prior(p, q) /\ Prior(q, r) => Prior(p, r)
         /\ ~ (Prior(p, q) /\ Prior(q, p))
         /\ p # q => Prior(p, q) \/ Prior(q, p)
<1>1. /\ terms[p].price \in Nat /\ terms[p].at \in Int
      /\ terms[q].price \in Nat /\ terms[q].at \in Int
      /\ terms[r].price \in Nat /\ terms[r].at \in Int
      /\ p # q => terms[p].at # terms[q].at
  BY TermsOf
<1>2. QED
  BY <1>1 DEF Prior

LEMMA BeforeIs ==
  ASSUME NEW e \in Entries, NEW f \in Entries, NEW first \in BOOLEAN
  PROVE  /\ e[1] # f[1] => (Before(e, f, first) <=> Prior(e[1], f[1]))
         /\ e[1] = f[1] => (Before(e, f, first) <=> e # f /\ OnTop(e, first))
<1>1. ASSUME e[1] # f[1]
      PROVE  Before(e, f, first) <=> Prior(e[1], f[1])
  BY <1>1 DEF Before, Prior
<1>2. ASSUME e[1] = f[1]
      PROVE  Before(e, f, first) <=> e # f /\ OnTop(e, first)
  BY <1>2, Zenon DEF Before, OnTop
<1>3. QED
  BY <1>1, <1>2

LEMMA OrderOfCandidates ==
  ASSUME terms \in Portfolios, NEW o \in Orders, NEW first \in BOOLEAN,
         NEW e \in Candidates(o), NEW f \in Candidates(o), NEW g \in Candidates(o)
  PROVE  /\ ~ Before(e, e, first)
         /\ Before(e, f, first) /\ Before(f, g, first) => Before(e, g, first)
         /\ e # f => Before(e, f, first) \/ Before(f, e, first)
<1>1. /\ e \in Entries /\ f \in Entries /\ g \in Entries
      /\ e[1] \in Orders /\ f[1] \in Orders /\ g[1] \in Orders
  BY DEF Candidates, Entries
<1>2. terms[e[1]].side = terms[f[1]].side /\ terms[f[1]].side = terms[g[1]].side
  <2>1. \A x \in {e, f, g, <<o, "current">>} : terms[x[1]].side \in {"BUY", "SELL"}
    BY <1>1, TermsOf
  <2>2. terms[o].side \in {"BUY", "SELL"}
    BY TermsOf
  <2>3. QED
    BY <2>1, <2>2 DEF Candidates
<1>3. ~ Before(e, e, first)
  BY <1>1, BeforeIs
<1>4. e # f => Before(e, f, first) \/ Before(f, e, first)
  BY <1>1, <1>2, BeforeIs, PriorOrder, OneOnTop
<1>5. ASSUME Before(e, f, first), Before(f, g, first)
      PROVE  Before(e, g, first)
  <2>1. CASE e[1] = f[1] /\ f[1] = g[1]
    <3>1. e # f /\ f # g /\ OnTop(e, first) /\ OnTop(f, first)
      BY <1>1, <1>5, <2>1, BeforeIs
    <3>2. QED
      BY <1>1, <2>1, <3>1, OneOnTop
  <2>2. CASE e[1] # f[1] /\ f[1] = g[1]
    BY <1>1, <1>5, <2>2, BeforeIs
  <2>3. CASE e[1] = f[1] /\ f[1] # g[1]
    BY <1>1, <1>5, <2>3, BeforeIs
  <2>4. CASE e[1] # f[1] /\ f[1] # g[1]
    <3>1. Prior(e[1], f[1]) /\ Prior(f[1], g[1])
      BY <1>1, <1>5, <2>4, BeforeIs
    <3>2. Prior(e[1], g[1])
      BY <1>1, <1>2, <3>1, PriorOrder
    <3>3. e[1] # g[1]
      BY <1>1, <1>2, <3>1, PriorOrder
    <3>4. QED
      BY <1>1, <3>2, <3>3, BeforeIs
  <2>5. QED
    BY <2>1, <2>2, <2>3, <2>4
<1>6. QED
  BY <1>3, <1>4, <1>5

LEMMA EntriesFinite == IsFiniteSet(Entries)
<1>1. IsFiniteSet({"current", "replaced"})
  <2>1. IsFiniteSet({"current"}) /\ IsFiniteSet({"current"} \cup {"replaced"})
    BY FS_Singleton, FS_AddElement
  <2>2. {"current", "replaced"} = {"current"} \cup {"replaced"}
    OBVIOUS
  <2>3. QED
    BY <2>1, <2>2
<1>2. QED
  BY <1>1, OrdersAssumption, FS_Product DEF Entries

Has(o) == [e \in Candidates(o) |-> Left(e)]
Priority(o, first) == {p \in Candidates(o) \X Candidates(o) : Before(p[1], p[2], first)}

\* Fill fills the candidates in the order of the heap.
LEMMA FillIsFilling ==
  ASSUME TypeOK, terms \in Portfolios, NEW o \in Orders, NEW first \in BOOLEAN,
         NEW fill, fill = Fill(o, first)
  PROVE  /\ Candidates(o) \subseteq Entries /\ IsFiniteSet(Candidates(o))
         /\ StrictOrder(Candidates(o), Priority(o, first))
         /\ Filling(fill, terms[o].qty, Has(o), Candidates(o), Priority(o, first))
         /\ DOMAIN fill = Entries
         /\ \A x \in Entries \ Candidates(o) : fill[x] = 0
         /\ \A x \in Candidates(o) : Has(o)[x] \in Nat /\ Has(o)[x] = Left(x)
<1> DEFINE book == Candidates(o)
           has  == Has(o)
           qty  == terms[o].qty
           Rel  == Priority(o, first)
           Sum(f, s) == SumFunctionOnSet(f, s)
<1>1. book \subseteq Entries /\ IsFiniteSet(book)
  <2>1. book \subseteq Entries
    BY DEF Candidates
  <2>2. QED
    BY <2>1, EntriesFinite, FS_Subset
<1>2. \A x, y \in book : <<x, y>> \in Rel <=> Before(x, y, first)
  BY DEF Priority
<1>3. StrictOrder(book, Rel)
  <2> HIDE DEF Rel, book
  <2>1. \A x, y, z \in book :
          /\ ~ Before(x, x, first)
          /\ Before(x, y, first) /\ Before(y, z, first) => Before(x, z, first)
          /\ x # y => Before(x, y, first) \/ Before(y, x, first)
    BY OrderOfCandidates DEF book
  <2>2. QED
    BY <1>2, <2>1 DEF StrictOrder
<1>4. \A x \in book : has[x] \in Nat /\ has[x] = Left(x)
  BY <1>1, LeftTyped DEF Has
<1>5. \A x \in book : Ahead(book, Rel, x) = {y \in book : Before(y, x, first)}
  BY <1>2 DEF Ahead
<1>6. ASSUME NEW x \in book
      PROVE  fill[x] = Clamp(qty - Sum(has, Ahead(book, Rel, x)), has[x])
  <2>1. fill[x] = Clamp(qty - Sum(has, {y \in book : Before(y, x, first)}), has[x])
    BY <1>1 DEF Fill, Clamp, Has
  <2>2. QED
    BY <1>5, <2>1
<1>7. /\ DOMAIN fill = Entries
      /\ \A x \in Entries \ book : fill[x] = 0
  BY DEF Fill
<1> HIDE DEF Rel, has
<1>8. Filling(fill, qty, has, book, Rel)
  BY <1>4, <1>6 DEF Filling
<1>9. QED
  BY <1>1, <1>3, <1>4, <1>7, <1>8 DEF Rel, has

LEMMA FillTaken ==
  ASSUME TypeOK, terms \in Portfolios, NEW o \in Orders, NEW first \in BOOLEAN,
         NEW fill, fill = Fill(o, first)
  PROVE  /\ fill \in [Entries -> Nat]
         /\ \A e \in Entries : /\ fill[e] <= Left(e)
                               /\ terms[e[1]].side = terms[o].side => fill[e] = 0
         /\ Total(fill) \in Nat /\ Total(fill) <= terms[o].qty
         /\ Total(fill) = SumFunctionOnSet(fill, Candidates(o))
<1> DEFINE book == Candidates(o)
           has  == Has(o)
           qty  == terms[o].qty
           Sum(f, s) == SumFunctionOnSet(f, s)
<1>1. book \subseteq Entries /\ IsFiniteSet(book) /\ qty \in Nat
  BY FillIsFilling, TermsOf
<1>2. \A x \in book : has[x] \in Nat /\ has[x] = Left(x)
  BY FillIsFilling
<1>3. /\ DOMAIN fill = Entries
      /\ \A x \in Entries \ book : fill[x] = 0
  BY FillIsFilling
<1>4. /\ \A x \in book : fill[x] \in Nat /\ fill[x] <= has[x]
      /\ Sum(fill, book) = Least(qty, Sum(has, book))
  <2> HIDE DEF has
  <2>1. /\ StrictOrder(book, Priority(o, first))
        /\ Filling(fill, qty, has, book, Priority(o, first))
    BY FillIsFilling DEF has
  <2>2. QED
    BY <1>1, <2>1, FilledInOrder
<1> HIDE DEF has, book, qty
<1>5. Total(fill) = Sum(fill, book)
  <2>1. Values(fill, book)
    BY <1>4 DEF Values
  <2>2. Sum(fill, Entries) = Sum(fill, book)
    BY <1>1, <1>3, <2>1, EntriesFinite, SumSupport
  <2>3. QED
    BY <1>3, <2>2 DEF Total, SumFunction
<1>6. Sum(has, book) \in Nat
  BY <1>1, <1>2, SumNat
<1>7. Total(fill) \in Nat /\ Total(fill) <= terms[o].qty
  <2>0. qty = terms[o].qty
    BY DEF qty
  <2> HIDE DEF Sum
  <2>1. QED
    BY <2>0, <1>1, <1>4, <1>5, <1>6 DEF Least
<1>8. \A x \in Entries : fill[x] \in Nat /\ fill[x] <= Left(x)
  BY <1>1, <1>2, <1>3, <1>4, LeftTyped
<1>9. fill \in [Entries -> Nat]
  <2>1. fill = [x \in Entries |-> fill[x]]
    BY DEF Fill
  <2>2. QED
    BY <1>8, <2>1
<1>10. \A x \in Entries : terms[x[1]].side = terms[o].side => fill[x] = 0
  BY <1>3 DEF book, Candidates
<1>11. QED
  BY <1>5, <1>7, <1>8, <1>9, <1>10 DEF book

-----------------------------------------------------------------------------
(* The invariant *)

IsCreate(cmd) == cmd = Create(cmd.order)
IsCancel(cmd) == \E c \in Cancels : cmd = Cancel(cmd.order, c)
Proper(cmd)   == row[cmd.order] # None /\ (IsCreate(cmd) \/ IsCancel(cmd))

RowCancelled(o) == row[o] # None /\ row[o].status = "CANCELLED"
MemCancelled(o) == mem[o] # None /\ mem[o].status = "CANCELLED"
Gone == [left |-> 0, status |-> "CANCELLED"]

Settled(r) == r # None /\ r.status \in {"FILLED", "CANCELLED"} => r.left = 0

\* Every command is about a stored order and every processed create command too;
\* an object was replaced by another one; final orders have nothing left.
Sound ==
  /\ terms \in Portfolios
  /\ \A i \in 1 .. Len(log) : Proper(log[i])
  /\ \A i \in 1 .. Len(outbox) : Proper(outbox[i])
  /\ \A o \in Orders :
       /\ o \in processed => row[o] # None
       /\ mem[o] # None => row[o] # None
       /\ mem[o] = None => replaced[o] = 0
       /\ replaced[o] # 0 => o \in processed
       /\ Settled(row[o]) /\ Settled(mem[o])

Base == TypeOK /\ Sound

\* But for the doubted orders, the book has the processed open orders; without
\* restarts it is what the rows say.  Only a misreported commit or a cancellation
\* that fails late makes an order doubted.
BookFollowsRows ==
  /\ \A o \in (processed \cap Orders) \ doubted : IsOpen(row[o]) => mem[o] = row[o]
  /\ Never({"restart"}) =>
       \A o \in Orders :
         /\ replaced[o] = 0
         /\ o \notin processed => mem[o] = None
         /\ o \notin doubted => mem[o] = IF o \in processed THEN row[o] ELSE None
  /\ Never({"unknown", "cancelfail"}) => doubted = {}

\* What has been fetched has taken effect or failed; create commands fail only
\* with the database.
FetchedIsProcessed ==
  /\ \A i \in 1 .. position : log[i].id \in processed \cup failed
  /\ Never({"dbfail"}) => \A i \in 1 .. position : IsCreate(log[i]) => log[i].id \in processed

\* The create command of an order is somewhere, and a relay that keeps the
\* order sends no cancellation before it.
CancelsFollow ==
  /\ \A o \in Orders : row[o] # None => \/ \E i \in 1 .. Len(log) : log[i] = Create(o)
                                       \/ \E i \in 1 .. Len(outbox) : outbox[i] = Create(o)
  /\ Never({"reorder"}) =>
       /\ \A i, j \in 1 .. Len(log) :
            IsCancel(log[i]) /\ i < j => log[j] # Create(log[i].order)
       /\ \A i \in 1 .. Len(log), j \in 1 .. Len(outbox) :
            IsCancel(log[i]) => outbox[j] # Create(log[i].order)
       /\ \A i, j \in 1 .. Len(outbox) :
            IsCancel(outbox[i]) /\ i < j => outbox[j] # Create(outbox[i].order)

\* A cancelled row is cancelled in memory or not there, and the engine has
\* seen the create command or will not see it unless it goes back in the log.
CancelledRows ==
  \A o \in Orders :
    RowCancelled(o) =>
      /\ row[o] = Gone
      /\ mem[o] \in {None, Gone}
      /\ CreatesFirst => \/ o \in processed
                         \/ /\ Never({"restart", "rebalance"})
                            /\ \E i \in 1 .. position : IsCancel(log[i]) /\ log[i].order = o

\* A cancellation in memory is stored, and a stored one has its event.
CancelledOnce ==
  /\ CreatesFirst /\ Never({"cancelfail"}) => \A o \in Orders : MemCancelled(o) => RowCancelled(o)
  /\ OneCancelEvent

IInv == /\ Base
        /\ BookFollowsRows
        /\ FetchedIsProcessed
        /\ CancelsFollow
        /\ CancelledRows
        /\ CancelledOnce

-----------------------------------------------------------------------------
(* What the steps do *)

\* The objects after a match: those that traded are typed, a final one is
\* empty, and one that was cancelled before stays so.
MatchFacts(o, fill) ==
  /\ Total(fill) \in Nat /\ Total(fill) <= terms[o].qty
  /\ \A m \in Orders : /\ Taken(m, fill) \in Nat
                       /\ fill[<<m, "current">>] \in Nat
                       /\ fill[<<m, "replaced">>] \in Nat
                       /\ fill[<<m, "replaced">>] <= replaced[m]
  /\ fill[<<o, "current">>] = 0 /\ fill[<<o, "replaced">>] = 0
  /\ \A m \in Orders \ Changed(o, fill) :
       /\ Matched(o, fill)[m] = mem[m]
       /\ fill[<<m, "current">>] = 0 /\ fill[<<m, "replaced">>] = 0
  /\ \A m \in Changed(o, fill) \ {o} :
       /\ mem[m] # None
       /\ Matched(o, fill)[m].status = "CANCELLED" <=> MemCancelled(m)
       /\ MemCancelled(m) => Matched(o, fill)[m] = Gone /\ replaced[m] # 0
  /\ o \in Changed(o, fill) /\ Changed(o, fill) \subseteq Orders
  /\ Matched(o, fill)[o].status # "CANCELLED"
  /\ \A m \in Changed(o, fill) : /\ Matched(o, fill)[m] \in RowState
                                 /\ Matched(o, fill)[m] # None
                                 /\ Settled(Matched(o, fill)[m])

LEMMA MatchEffect ==
  ASSUME Base, NEW o \in Orders, NEW first \in BOOLEAN,
         NEW fill, fill = Fill(o, first)
  PROVE  MatchFacts(o, fill)
<1> USE DEF Base
<1>1. terms \in Portfolios
  BY DEF Sound
<1>2. /\ fill \in [Entries -> Nat]
      /\ \A e \in Entries : /\ fill[e] <= Left(e)
                            /\ terms[e[1]].side = terms[o].side => fill[e] = 0
      /\ Total(fill) \in Nat /\ Total(fill) <= terms[o].qty
  BY <1>1, FillTaken
<1>3. ASSUME NEW m \in Orders
      PROVE  /\ fill[<<m, "current">>] \in Nat /\ fill[<<m, "replaced">>] \in Nat
             /\ fill[<<m, "replaced">>] <= replaced[m]
             /\ fill[<<m, "current">>] <= Left(<<m, "current">>)
             /\ Taken(m, fill) \in Nat
             /\ m = o => fill[<<m, "current">>] = 0 /\ fill[<<m, "replaced">>] = 0
  <2>1. <<m, "current">> \in Entries /\ <<m, "replaced">> \in Entries
    BY DEF Entries
  <2>2. Left(<<m, "replaced">>) = replaced[m]
    BY DEF Left
  <2>3. fill[<<m, "current">>] \in Nat /\ fill[<<m, "replaced">>] \in Nat
    BY <1>2, <2>1
  <2>4. QED
    BY <1>2, <2>1, <2>2, <2>3 DEF Taken
<1>4. ASSUME NEW m \in Orders
      PROVE  /\ replaced[m] \in Nat
             /\ mem[m] = None => replaced[m] = 0 /\ Left(<<m, "current">>) = 0
             /\ mem[m] # None => /\ mem[m] \in RowState /\ mem[m].left \in Nat
                                 /\ mem[m].status \in Statuses
                                 /\ Left(<<m, "current">>) = mem[m].left
             /\ Settled(mem[m])
  BY DEF Sound, TypeOK, RowState, Left
<1>5. o \in Changed(o, fill) /\ Changed(o, fill) \subseteq Orders
  BY DEF Changed
<1>6. ASSUME NEW m \in Orders \ Changed(o, fill)
      PROVE  /\ Matched(o, fill)[m] = mem[m]
             /\ fill[<<m, "current">>] = 0 /\ fill[<<m, "replaced">>] = 0
  <2>1. Matched(o, fill)[m] = mem[m]
    BY DEF Matched
  <2>2. ~ (Taken(m, fill) > 0)
    BY DEF Changed
  <2>3. QED
    BY <1>3, <2>1, <2>2 DEF Taken
<1>7. terms[o].qty \in Nat \ {0}
  BY <1>1, TermsOf
<1> DEFINE after == Matched(o, fill)
<1>8. /\ after[o].left = terms[o].qty - Total(fill)
      /\ after[o].status = StatusAfter("NEW", after[o].left, terms[o].qty)
      /\ after[o] = [left |-> after[o].left, status |-> after[o].status]
  BY <1>5 DEF Matched
<1>9. /\ after[o] \in RowState /\ Settled(after[o]) /\ after[o].status # "CANCELLED"
      /\ after[o] # None
  <2> HIDE DEF after
  <2>1. after[o].left \in Nat
    BY <1>2, <1>7, <1>8
  <2>2. after[o].status \in Statuses
    BY <1>8 DEF StatusAfter, Statuses
  <2>3. after[o] \in RowState
    BY <1>8, <2>1, <2>2 DEF RowState
  <2>4. after[o].status = "FILLED" => after[o].left = 0
    BY <1>8, <2>1 DEF StatusAfter
  <2>5. after[o].status # "CANCELLED"
    BY <1>8 DEF StatusAfter
  <2>6. QED
    BY <2>3, <2>4, <2>5, NoneAssumption DEF Settled
<1>10. ASSUME NEW m \in Changed(o, fill) \ {o}
       PROVE  /\ mem[m] # None
              /\ after[m] \in RowState /\ Settled(after[m]) /\ after[m] # None
              /\ after[m].status = "CANCELLED" <=> MemCancelled(m)
              /\ MemCancelled(m) => after[m] = Gone /\ replaced[m] # 0
  <2>1. m \in Orders /\ Taken(m, fill) > 0
    BY DEF Changed
  <2>2. mem[m] # None
    BY <1>3, <1>4, <2>1 DEF Taken
  <2>3. /\ after[m].left = mem[m].left - fill[<<m, "current">>]
        /\ after[m].status = StatusAfter(mem[m].status, after[m].left, terms[m].qty)
        /\ after[m] = [left |-> after[m].left, status |-> after[m].status]
    BY <2>1 DEF Matched
  <2> HIDE DEF after
  <2>4. after[m].left \in Nat /\ after[m].left <= mem[m].left
    <3>1. mem[m].left \in Nat /\ Left(<<m, "current">>) = mem[m].left
      BY <1>4, <2>1, <2>2
    <3>2. /\ fill[<<m, "current">>] \in Nat
          /\ fill[<<m, "current">>] <= Left(<<m, "current">>)
      BY <1>3, <2>1
    <3>3. QED
      BY <2>3, <3>1, <3>2
  <2>5. after[m].status = "CANCELLED" <=> mem[m].status = "CANCELLED"
    BY <2>3 DEF StatusAfter
  <2>6. after[m].status \in Statuses
    BY <1>4, <2>1, <2>2, <2>3 DEF StatusAfter, Statuses
  <2>7. after[m] \in RowState
    BY <2>3, <2>4, <2>6 DEF RowState
  <2>8. mem[m].status = "CANCELLED" => mem[m].left = 0
    BY <1>4, <2>1, <2>2 DEF Settled
  <2>9. mem[m].status = "CANCELLED" => after[m].left = 0 /\ replaced[m] # 0
    BY <1>3, <1>4, <2>1, <2>2, <2>4, <2>8 DEF Taken
  <2>10. after[m].status = "FILLED" => after[m].left = 0
    BY <2>3, <2>4, <2>9 DEF StatusAfter
  <2>11. QED
    BY <2>2, <2>3, <2>5, <2>7, <2>9, <2>10, NoneAssumption DEF Settled, MemCancelled, Gone
<1>11. QED
  BY <1>2, <1>3, <1>5, <1>6, <1>9, <1>10 DEF MatchFacts

\* The four outcomes of handling a message.
Unstored(cmd) ==
  /\ cmd.id \in processed \/ "dbfail" \in faults
  /\ UNCHANGED <<database, mem, doubted>>
  /\ UNCHANGED replaced \/ replaced' = [m \in Orders |-> 0]
MatchStored(cmd, fill) ==
  /\ cmd = Create(cmd.order) /\ cmd.id = cmd.order /\ cmd.order \notin processed
  /\ StoreMatch(cmd, fill)
  /\ \/ ApplyMatch(cmd, fill)
     \/ /\ "unknown" \in faults /\ RestoreSymbol
        /\ doubted' = doubted \cup Changed(cmd.order, fill)
CancelStored(cmd) ==
  /\ IsCancel(cmd) /\ cmd.id \in Cancels \ processed
  /\ StoreCancel(cmd)
  /\ CancelInMemory(cmd)
  /\ UNCHANGED doubted
CancelUnstored(cmd) ==
  /\ "cancelfail" \in faults
  /\ IsCancel(cmd)
  /\ UNCHANGED database
  /\ CancelInMemory(cmd)
  /\ doubted' = IF mem' = mem THEN doubted ELSE doubted \cup {cmd.order}

\* The message is a command about a stored order, and takes effect or fails.
Fetched(cmd) ==
  /\ position + 1 \in 1 .. Len(log) /\ cmd = log[position + 1]
  /\ cmd \in Command /\ cmd.order \in Orders /\ row[cmd.order] # None
  /\ position' = position + 1
  /\ UNCHANGED <<source, committed>>
  /\ ack' \in BOOLEAN
  /\ failed' \in {failed, failed \cup {cmd.id}} /\ cmd.id \in processed' \cup failed'

\* The group's offset moves, or the consumer goes back to it.
Offset ==
  /\ UNCHANGED <<source, database, memory, failed>> /\ ack' \in BOOLEAN
  /\ \/ position' = position /\ committed' \in {committed, position}
     \/ "rebalance" \in faults /\ position' = committed /\ committed' = committed

LEMMA ProperCommand ==
  ASSUME Base, NEW cmd \in Command, Proper(cmd)
  PROVE  /\ cmd.type = "CREATE_ORDER" => cmd = Create(cmd.order) /\ cmd.id = cmd.order
         /\ cmd.type = "CANCEL_ORDER" => IsCancel(cmd) /\ cmd.id \in Cancels
<1>1. CASE IsCreate(cmd)
  <2>1. cmd.type = "CREATE_ORDER" /\ cmd.id = cmd.order
    BY <1>1 DEF IsCreate, Create
  <2>2. QED
    BY <1>1, <2>1 DEF IsCreate
<1>2. CASE IsCancel(cmd)
  <2>1. cmd.type = "CANCEL_ORDER" /\ cmd.id \in Cancels
    BY <1>2 DEF IsCancel, Cancel
  <2>2. QED
    BY <1>2, <2>1
<1>3. QED
  BY <1>1, <1>2 DEF Proper

LEMMA Outcomes ==
  ASSUME Base, NEW cmd \in Messages, Handle(cmd) \/ HandleFails(cmd)
  PROVE  /\ Fetched(cmd)
         /\ \/ Unstored(cmd)
            \/ \E first \in BOOLEAN : MatchStored(cmd, Fill(cmd.order, first))
            \/ CancelStored(cmd)
            \/ CancelUnstored(cmd)
<1>1. Fetch(cmd) /\ ack' \in BOOLEAN
  BY DEF Handle, HandleFails, ConsumeDuplicate, ConsumeCreate, ConsumeCancel, BeginFails,
         CreateFails, CreateUnknown, CancelPersistFails, CancelMarkFails, CancelUnknown,
         NewCreate, NewCancel, Succeeds, Skips
<1>2. /\ position + 1 \in 1 .. Len(log) /\ cmd = log[position + 1]
      /\ cmd \in Command /\ Proper(cmd)
  <2>1. position \in Nat /\ Len(log) \in Nat /\ log \in Seq(Command)
    BY DEF Base, TypeOK
  <2>2. position + 1 \in 1 .. Len(log) /\ cmd = log[position + 1]
    BY <1>1, <2>1 DEF Fetch
  <2>3. QED
    BY <2>1, <2>2, ElementOfSeq DEF Base, Sound
<1>3. Fetched(cmd)
  <2>1. failed' \in {failed, failed \cup {cmd.id}} /\ cmd.id \in processed' \cup failed'
    <3>1. CASE Skips(cmd)
      BY <3>1 DEF Skips
    <3>2. CASE ConsumeDuplicate(cmd)
      BY <3>2 DEF ConsumeDuplicate, Succeeds, database
    <3>3. CASE \E first \in BOOLEAN : ConsumeCreate(cmd, Fill(cmd.order, first))
      BY <3>3 DEF ConsumeCreate, Succeeds, StoreMatch
    <3>4. CASE ConsumeCancel(cmd)
      BY <3>4 DEF ConsumeCancel, Succeeds, StoreCancel
    <3>5. QED
      BY <3>1, <3>2, <3>3, <3>4
      DEF Handle, HandleFails, BeginFails, CreateFails, CreateUnknown, CancelPersistFails,
          CancelMarkFails, CancelUnknown
  <2>2. QED
    BY <1>1, <1>2, <2>1 DEF Fetch, Fetched, Command, Proper
<1>4. /\ cmd.type = "CREATE_ORDER" => cmd = Create(cmd.order) /\ cmd.id = cmd.order
      /\ cmd.type = "CANCEL_ORDER" => IsCancel(cmd) /\ cmd.id \in Cancels
  BY <1>2, ProperCommand
<1>5. ASSUME ConsumeDuplicate(cmd) \/ BeginFails(cmd) \/ CreateFails(cmd) \/ CancelPersistFails(cmd)
      PROVE  Unstored(cmd)
  BY <1>5 DEF ConsumeDuplicate, BeginFails, CreateFails, CancelPersistFails, Unstored,
              RestoreSymbol, memory
<1>6. ASSUME NEW first \in BOOLEAN,
             \/ ConsumeCreate(cmd, Fill(cmd.order, first))
             \/ CreateUnknown(cmd, Fill(cmd.order, first))
      PROVE  MatchStored(cmd, Fill(cmd.order, first))
  <2> DEFINE fill == Fill(cmd.order, first)
  <2> HIDE DEF fill
  <2>1. ConsumeCreate(cmd, fill) \/ CreateUnknown(cmd, fill)
    BY <1>6 DEF fill
  <2>2. MatchStored(cmd, fill)
    BY <1>4, <2>1 DEF ConsumeCreate, CreateUnknown, NewCreate, MatchStored
  <2>3. QED
    BY <2>2 DEF fill
<1>7. ASSUME ConsumeCancel(cmd) \/ CancelUnknown(cmd)
      PROVE  CancelStored(cmd)
  BY <1>4, <1>7 DEF ConsumeCancel, CancelUnknown, NewCancel, CancelStored
<1>8. ASSUME CancelMarkFails(cmd)
      PROVE  CancelUnstored(cmd)
  BY <1>4, <1>8 DEF CancelMarkFails, NewCancel, CancelUnstored
<1>9. QED
  BY <1>3, <1>5, <1>6, <1>7, <1>8 DEF Handle, HandleFails

\* Every step is one of these.
LEMMA StepIs ==
  ASSUME Base, [Next]_vars
  PROVE  \/ \E o \in Orders : Place(o)
         \/ \E o \in Orders, c \in Cancels : RequestCancel(o, c)
         \/ \E i \in 1 .. Len(outbox), marked \in BOOLEAN : Publish(i, marked)
         \/ \E cmd \in Messages : Fetched(cmd) /\ Unstored(cmd)
         \/ \E cmd \in Messages, first \in BOOLEAN :
              Fetched(cmd) /\ MatchStored(cmd, Fill(cmd.order, first))
         \/ \E cmd \in Messages : Fetched(cmd) /\ CancelStored(cmd)
         \/ \E cmd \in Messages : Fetched(cmd) /\ CancelUnstored(cmd)
         \/ Offset
         \/ Restart
<1>1. CASE UNCHANGED vars
  <2>1. Offset
    BY <1>1 DEF Base, TypeOK, Offset, vars, source, database, memory
  <2>2. QED
    BY <2>1
<1>2. CASE CommitMessages \/ CommitMessagesFails \/ Rejoin
  <2>1. Offset
    BY <1>2 DEF Base, TypeOK, CommitMessages, CommitMessagesFails, Rejoin, Offset
  <2>2. QED
    BY <2>1
<1>3. CASE \E cmd \in Messages : Handle(cmd) \/ HandleFails(cmd)
  BY <1>3, Outcomes
<1>4. DOMAIN outbox = 1 .. Len(outbox)
  BY LenProperties DEF Base, TypeOK
<1>5. QED
  BY <1>1, <1>2, <1>3, <1>4 DEF Next

-----------------------------------------------------------------------------
(* Types and soundness *)

\* A create command of o was stored, the orders in part traded.
MatchOf(o, part, result) ==
  /\ o \in part /\ part \subseteq Orders
  /\ \A m \in part : result[m] \in RowState /\ result[m] # None /\ Settled(result[m])
  /\ result[o].status # "CANCELLED"
  /\ \A m \in part \ {o} :
       /\ mem[m] # None
       /\ result[m].status = "CANCELLED" <=> MemCancelled(m)
       /\ MemCancelled(m) => result[m] = Gone /\ replaced[m] # 0
  /\ row' = [m \in Orders |-> IF m \in part THEN result[m] ELSE row[m]]
  /\ traded' \in [Orders -> Nat]
  /\ cancelled' = cancelled
  /\ processed' = processed \cup {o}
  /\ replaced' \in [Orders -> Nat]
  /\ \/ /\ mem' = [m \in Orders |-> IF m \in part THEN result[m] ELSE mem[m]]
        /\ replaced'[o] = Left(<<o, "current">>)
        /\ \A m \in Orders \ {o} : replaced'[m] <= replaced[m]
        /\ doubted' = doubted
     \/ /\ "unknown" \in faults
        /\ doubted' = doubted \cup part
        /\ mem' = mem
        /\ \A m \in Orders : replaced'[m] = 0

LEMMA MatchEffects ==
  ASSUME Base, NEW cmd, Fetched(cmd), NEW first \in BOOLEAN,
         MatchStored(cmd, Fill(cmd.order, first))
  PROVE  \E part, result : MatchOf(cmd.order, part, result)
<1> DEFINE o     == cmd.order
           fill  == Fill(o, first)
           part   == Changed(o, fill)
           result == Matched(o, fill)
<1>1. o \in Orders
  BY DEF Fetched
<1>2. /\ Total(fill) \in Nat
      /\ \A m \in Orders : /\ Taken(m, fill) \in Nat
                           /\ fill[<<m, "replaced">>] \in Nat
                           /\ fill[<<m, "replaced">>] <= replaced[m]
      /\ fill[<<o, "replaced">>] = 0
      /\ \A m \in Orders \ part : result[m] = mem[m]
      /\ \A m \in part \ {o} :
           /\ mem[m] # None
           /\ result[m].status = "CANCELLED" <=> MemCancelled(m)
           /\ MemCancelled(m) => result[m] = Gone /\ replaced[m] # 0
      /\ o \in part /\ part \subseteq Orders
      /\ result[o].status # "CANCELLED"
      /\ \A m \in part : /\ result[m] \in RowState /\ result[m] # None /\ Settled(result[m])
  <2> HIDE DEF o, fill
  <2>1. fill = Fill(o, first)
    BY DEF fill
  <2> HIDE DEF part, result
  <2>2. MatchFacts(o, fill)
    BY <1>1, <2>1, MatchEffect
  <2>3. QED
    BY <2>2 DEF MatchFacts, part, result
<1>3. /\ StoreMatch(cmd, fill) /\ processed' = processed \cup {o}
      /\ \/ ApplyMatch(cmd, fill)
         \/ /\ "unknown" \in faults /\ RestoreSymbol
            /\ doubted' = doubted \cup part
  BY DEF MatchStored, StoreMatch
<1>4. result = [m \in Orders |-> result[m]]
  BY DEF Matched
<1>5. /\ traded \in [Orders -> Nat] /\ replaced \in [Orders -> Nat]
      /\ Left(<<o, "current">>) \in Nat
  <2>1. <<o, "current">> \in Entries
    BY <1>1 DEF Entries
  <2>2. QED
    BY <2>1, LeftTyped DEF Base, TypeOK
<1>6. /\ row' = [m \in Orders |-> IF m \in part THEN result[m] ELSE row[m]]
      /\ traded' = [m \in Orders |->
                      IF m = o THEN traded[m] + Total(fill) ELSE traded[m] + Taken(m, fill)]
      /\ cancelled' = cancelled
  BY <1>3 DEF StoreMatch
<1> HIDE DEF o, fill, part, result
<1>7. traded' \in [Orders -> Nat]
  <2>1. \A m \in Orders : traded[m] \in Nat /\ Taken(m, fill) \in Nat
    BY <1>2, <1>5
  <2>2. QED
    BY <1>2, <1>6, <2>1
<1>8. CASE ApplyMatch(cmd, fill)
  <2>1. /\ mem' = result
        /\ replaced' = [m \in Orders |-> IF m = o THEN Left(<<o, "current">>)
                                         ELSE replaced[m] - fill[<<m, "replaced">>]]
        /\ doubted' = doubted
    BY <1>8 DEF ApplyMatch, o, result
  <2>2. mem' = [m \in Orders |-> IF m \in part THEN result[m] ELSE mem[m]]
    BY <1>2, <1>4, <2>1
  <2>3. \A m \in Orders : /\ replaced[m] - fill[<<m, "replaced">>] \in Nat
                          /\ replaced[m] - fill[<<m, "replaced">>] <= replaced[m]
    <3>1. ASSUME NEW m \in Orders
          PROVE  /\ replaced[m] - fill[<<m, "replaced">>] \in Nat
                 /\ replaced[m] - fill[<<m, "replaced">>] <= replaced[m]
      <4>1. /\ replaced[m] \in Nat /\ fill[<<m, "replaced">>] \in Nat
            /\ fill[<<m, "replaced">>] <= replaced[m]
        BY <1>2, <1>5
      <4>2. QED
        BY <4>1
    <3>2. QED
      BY <3>1
  <2>4. /\ replaced' \in [Orders -> Nat] /\ replaced'[o] = Left(<<o, "current">>)
        /\ \A m \in Orders \ {o} : replaced'[m] <= replaced[m]
    BY <1>1, <1>5, <2>1, <2>3
  <2>5. MatchOf(o, part, result)
    BY <1>2, <1>3, <1>6, <1>7, <2>1, <2>2, <2>4 DEF MatchOf
  <2>6. QED
    BY <2>5 DEF o
<1>9. CASE "unknown" \in faults /\ RestoreSymbol /\ doubted' = doubted \cup part
  <2>1. /\ mem' = mem /\ replaced' \in [Orders -> Nat]
        /\ \A m \in Orders : replaced'[m] = 0
    BY <1>9 DEF RestoreSymbol
  <2>2. MatchOf(o, part, result)
    BY <1>2, <1>3, <1>6, <1>7, <1>9, <2>1 DEF MatchOf
  <2>3. QED
    BY <2>2 DEF o
<1>10. QED
  BY <1>3, <1>8, <1>9

LEMMA RemoveAtIs ==
  ASSUME NEW T, NEW s \in Seq(T), NEW i \in 1 .. Len(s)
  PROVE  /\ RemoveAt(s, i) \in Seq(T) /\ Len(RemoveAt(s, i)) = Len(s) - 1
         /\ \A j \in 1 .. Len(s) - 1 : RemoveAt(s, i)[j] = IF j < i THEN s[j] ELSE s[j + 1]
<1> DEFINE left  == SubSeq(s, 1, i - 1)
           right == SubSeq(s, i + 1, Len(s))
<1>1. i \in Int /\ i - 1 \in Int /\ i + 1 \in Int /\ Len(s) \in Nat /\ 1 <= i /\ i <= Len(s)
  BY LenProperties
<1>2. \A j \in 1 .. Len(s) : s[j] \in T
  BY ElementOfSeq
<1>3. \A j \in 1 .. i - 1 : s[j] \in T
  BY <1>1, <1>2
<1>4. \A j \in i + 1 .. Len(s) : s[j] \in T
  BY <1>1, <1>2
<1>5. /\ left \in Seq(T)
      /\ Len(left) = IF 1 <= i - 1 THEN (i - 1) - 1 + 1 ELSE 0
      /\ \A j \in 1 .. (i - 1) - 1 + 1 : left[j] = s[1 + j - 1]
  BY <1>1, <1>3, SubSeqProperties
<1>6. /\ right \in Seq(T)
      /\ Len(right) = IF i + 1 <= Len(s) THEN Len(s) - (i + 1) + 1 ELSE 0
      /\ \A j \in 1 .. Len(s) - (i + 1) + 1 : right[j] = s[(i + 1) + j - 1]
  BY <1>1, <1>4, SubSeqProperties
<1> HIDE DEF left, right
<1>7. Len(left) = i - 1 /\ Len(right) = Len(s) - i
  BY <1>1, <1>5, <1>6
<1>8. /\ left \o right \in Seq(T) /\ Len(left \o right) = Len(left) + Len(right)
      /\ \A j \in 1 .. Len(left) + Len(right) :
           (left \o right)[j] = IF j <= Len(left) THEN left[j] ELSE right[j - Len(left)]
  BY <1>5, <1>6, ConcatProperties
<1>9. ASSUME NEW j \in 1 .. Len(s) - 1
      PROVE  (left \o right)[j] = IF j < i THEN s[j] ELSE s[j + 1]
  <2>1. j \in Int /\ 1 <= j /\ j <= Len(s) - 1
    BY <1>1
  <2>2. (left \o right)[j] = IF j <= i - 1 THEN left[j] ELSE right[j - (i - 1)]
    BY <1>1, <1>7, <1>8, <2>1
  <2>3. CASE j < i
    <3>1. left[j] = s[1 + j - 1]
      BY <1>1, <1>5, <2>1, <2>3
    <3>2. 1 + j - 1 = j /\ j <= i - 1
      BY <1>1, <2>1, <2>3
    <3>3. QED
      BY <2>2, <2>3, <3>1, <3>2
  <2>4. CASE ~ (j < i)
    <3>1. j - (i - 1) \in 1 .. Len(s) - (i + 1) + 1
      BY <1>1, <2>1, <2>4
    <3>2. right[j - (i - 1)] = s[(i + 1) + (j - (i - 1)) - 1]
      BY <1>6, <3>1
    <3>3. (i + 1) + (j - (i - 1)) - 1 = j + 1 /\ ~ (j <= i - 1)
      BY <1>1, <2>1, <2>4
    <3>4. QED
      BY <2>2, <2>4, <3>2, <3>3
  <2>5. QED
    BY <2>3, <2>4
<1>10. RemoveAt(s, i) = left \o right
  BY DEF RemoveAt, left, right
<1>11. Len(left) + Len(right) = Len(s) - 1
  BY <1>1, <1>7
<1>12. QED
  BY <1>8, <1>9, <1>10, <1>11

\* Publishing moves the i-th command to the end of the log and, if its row is
\* marked, closes the gap it leaves.
LEMMA PublishEffect ==
  ASSUME Base, NEW i \in 1 .. Len(outbox), NEW marked \in BOOLEAN, Publish(i, marked)
  PROVE  /\ log' \in Seq(Command) /\ Len(log') = Len(log) + 1
         /\ \A j \in 1 .. Len(log) : log'[j] = log[j]
         /\ log'[Len(log) + 1] = outbox[i]
         /\ outbox' \in Seq(Command) /\ Len(outbox') <= Len(outbox)
         /\ \A j \in 1 .. Len(outbox') :
              outbox'[j] = outbox[IF marked /\ ~ (j < i) THEN j + 1 ELSE j]
         /\ marked => Len(outbox') = Len(outbox) - 1
         /\ \A k \in 1 .. Len(outbox) :
              k # i => \E j \in 1 .. Len(outbox') : outbox'[j] = outbox[k]
<1>1. outbox \in Seq(Command) /\ log \in Seq(Command) /\ outbox[i] \in Command
  BY ElementOfSeq DEF Base, TypeOK
<1>2. Len(outbox) \in Nat /\ Len(log) \in Nat /\ i \in Int /\ 1 <= i /\ i <= Len(outbox)
  BY <1>1, LenProperties
<1>3. log' = Append(log, outbox[i]) /\ outbox' = IF marked THEN RemoveAt(outbox, i) ELSE outbox
  BY DEF Publish
<1>4. /\ log' \in Seq(Command) /\ Len(log') = Len(log) + 1
      /\ \A j \in 1 .. Len(log) : log'[j] = log[j]
      /\ log'[Len(log) + 1] = outbox[i]
  BY <1>1, <1>2, <1>3
<1>5. CASE marked
  <2>1. /\ outbox' \in Seq(Command) /\ Len(outbox') = Len(outbox) - 1
        /\ \A j \in 1 .. Len(outbox) - 1 :
             outbox'[j] = IF j < i THEN outbox[j] ELSE outbox[j + 1]
    BY <1>1, <1>3, <1>5, RemoveAtIs
  <2>2. ASSUME NEW j \in 1 .. Len(outbox')
        PROVE  outbox'[j] = outbox[IF marked /\ ~ (j < i) THEN j + 1 ELSE j]
    BY <1>5, <2>1
  <2>3. ASSUME NEW k \in 1 .. Len(outbox), k # i
        PROVE  \E j \in 1 .. Len(outbox') : outbox'[j] = outbox[k]
    <3>1. CASE k < i
      <4>1. k \in 1 .. Len(outbox) - 1
        BY <1>2, <3>1
      <4>2. QED
        BY <2>1, <3>1, <4>1
    <3>2. CASE ~ (k < i)
      <4>1. k - 1 \in 1 .. Len(outbox) - 1 /\ ~ (k - 1 < i) /\ (k - 1) + 1 = k
        BY <1>2, <2>3, <3>2
      <4>2. outbox'[k - 1] = outbox[(k - 1) + 1]
        BY <2>1, <4>1
      <4>3. QED
        BY <2>1, <4>1, <4>2
    <3>3. QED
      BY <3>1, <3>2
  <2>4. QED
    BY <1>2, <1>4, <2>1, <2>2, <2>3
<1>6. CASE ~ marked
  <2>1. outbox' = outbox
    BY <1>3, <1>6
  <2>2. QED
    BY <1>1, <1>2, <1>4, <1>6, <2>1
<1>7. QED
  BY <1>5, <1>6

\* What a step does to the rows and the objects.
DataStep ==
  /\ faults' = faults /\ terms' = terms
  /\ row'       \in [Orders -> RowState \cup {None}]
  /\ traded'    \in [Orders -> Nat]
  /\ cancelled' \in [Orders -> Nat]
  /\ processed' \subseteq Orders \cup Cancels
  /\ mem'       \in [Orders -> RowState \cup {None}]
  /\ replaced'  \in [Orders -> Nat]
  /\ \A m \in Orders :
       /\ row[m] # None => row'[m] # None
       /\ m \in processed' => row'[m] # None
       /\ mem'[m] # None => row'[m] # None
       /\ mem'[m] = None => replaced'[m] = 0
       /\ replaced'[m] # 0 => m \in processed'
       /\ Settled(row'[m]) /\ Settled(mem'[m])

LEMMA GoneTyped == Gone \in RowState /\ Gone # None /\ Settled(Gone) /\ ~ IsOpen(Gone)
<1>1. Gone \in RowState
  BY DEF Gone, RowState, Statuses
<1>2. QED
  BY <1>1, NoneAssumption DEF Gone, Settled, IsOpen

LEMMA DataFacts ==
  ASSUME Base
  PROVE  /\ row       \in [Orders -> RowState \cup {None}]
         /\ traded    \in [Orders -> Nat]
         /\ cancelled \in [Orders -> Nat]
         /\ processed \subseteq Orders \cup Cancels
         /\ mem       \in [Orders -> RowState \cup {None}]
         /\ replaced  \in [Orders -> Nat]
         /\ \A m \in Orders :
              /\ m \in processed => row[m] # None
              /\ mem[m] # None => row[m] # None
              /\ mem[m] = None => replaced[m] = 0
              /\ replaced[m] # 0 => m \in processed
              /\ Settled(row[m]) /\ Settled(mem[m])
  BY DEF Base, TypeOK, Sound

\* A cancellation in the rows and in memory.
LEMMA CancelEffect ==
  ASSUME Base, NEW cmd, Fetched(cmd)
  PROVE  /\ StoreCancel(cmd) =>
              /\ row' \in [Orders -> RowState \cup {None}]
              /\ cancelled' \in [Orders -> Nat]
              /\ traded' = traded /\ processed' = processed \cup {cmd.id}
              /\ \A m \in Orders :
                   /\ row'[m] = IF m = cmd.order /\ IsOpen(row[m]) THEN Gone ELSE row[m]
                   /\ cancelled'[m] = IF m = cmd.order /\ IsOpen(row[m])
                                        THEN cancelled[m] + 1 ELSE cancelled[m]
         /\ CancelInMemory(cmd) =>
              /\ mem' \in [Orders -> RowState \cup {None}] /\ replaced' = replaced
              /\ \A m \in Orders :
                   mem'[m] = IF m = cmd.order /\ IsOpen(row[m]) /\ mem[m] # None
                               THEN Gone ELSE mem[m]
<1>1. cmd.order \in Orders
  BY DEF Fetched
<1>2. /\ row \in [Orders -> RowState \cup {None}] /\ cancelled \in [Orders -> Nat]
      /\ mem \in [Orders -> RowState \cup {None}] /\ Gone \in RowState
  BY DataFacts, GoneTyped
<1>3. ASSUME StoreCancel(cmd)
      PROVE  /\ row' \in [Orders -> RowState \cup {None}]
             /\ cancelled' \in [Orders -> Nat]
             /\ traded' = traded /\ processed' = processed \cup {cmd.id}
             /\ \A m \in Orders :
                  /\ row'[m] = IF m = cmd.order /\ IsOpen(row[m]) THEN Gone ELSE row[m]
                  /\ cancelled'[m] = IF m = cmd.order /\ IsOpen(row[m])
                                       THEN cancelled[m] + 1 ELSE cancelled[m]
  <2>1. traded' = traded /\ processed' = processed \cup {cmd.id}
    BY <1>3 DEF StoreCancel
  <2>2. CASE IsOpen(row[cmd.order])
    <3>1. /\ row' = [row EXCEPT ![cmd.order] = Gone]
          /\ cancelled' = [cancelled EXCEPT ![cmd.order] = @ + 1]
      BY <1>3, <2>2 DEF StoreCancel, Gone
    <3>2. cancelled[cmd.order] + 1 \in Nat
      BY <1>1, <1>2
    <3>3. QED
      BY <1>1, <1>2, <2>1, <2>2, <3>1, <3>2
  <2>3. CASE ~ IsOpen(row[cmd.order])
    <3>1. row' = row /\ cancelled' = cancelled
      BY <1>3, <2>3 DEF StoreCancel
    <3>2. QED
      BY <1>2, <2>1, <2>3, <3>1
  <2>4. QED
    BY <2>2, <2>3
<1>4. ASSUME CancelInMemory(cmd)
      PROVE  /\ mem' \in [Orders -> RowState \cup {None}] /\ replaced' = replaced
             /\ \A m \in Orders :
                  mem'[m] = IF m = cmd.order /\ IsOpen(row[m]) /\ mem[m] # None
                              THEN Gone ELSE mem[m]
  <2>1. /\ mem' = IF IsOpen(row[cmd.order]) /\ mem[cmd.order] # None
                    THEN [mem EXCEPT ![cmd.order] = Gone] ELSE mem
        /\ replaced' = replaced
    BY <1>4 DEF CancelInMemory, Gone
  <2>2. QED
    BY <1>1, <1>2, <2>1
<1>5. QED
  BY <1>3, <1>4

LEMMA RestartEffect ==
  ASSUME Base, Restart
  PROVE  /\ mem' \in [Orders -> RowState \cup {None}] /\ replaced' \in [Orders -> Nat]
         /\ \A m \in Orders : /\ mem'[m] = IF IsOpen(row[m]) THEN row[m] ELSE None
                              /\ replaced'[m] = 0
         /\ "restart" \in faults /\ UNCHANGED <<source, database, committed>>
         /\ position' = committed /\ ack' = FALSE /\ doubted' = {} /\ failed' = failed
<1>1. /\ mem' = [m \in Orders |-> IF IsOpen(row[m]) THEN row[m] ELSE None]
      /\ replaced' = [m \in Orders |-> 0]
      /\ "restart" \in faults /\ UNCHANGED <<source, database, committed>>
      /\ position' = committed /\ ack' = FALSE /\ doubted' = {} /\ failed' = failed
  BY DEF Restart
<1>2. row \in [Orders -> RowState \cup {None}]
  BY DataFacts
<1>3. QED
  BY <1>1, <1>2

LEMMA PlaceEffect ==
  ASSUME Base, NEW o \in Orders, Place(o)
  PROVE  /\ row' \in [Orders -> RowState \cup {None}]
         /\ row[o] = None /\ row'[o] # None
         /\ row'[o].status = "NEW" /\ Settled(row'[o])
         /\ \A m \in Orders \ {o} : row'[m] = row[m]
<1>1. terms[o].qty \in Nat
  BY TermsOf DEF Base, Sound
<1> DEFINE new == [left |-> terms[o].qty, status |-> "NEW"]
<1>2. new \in RowState /\ new # None /\ new.status = "NEW" /\ Settled(new)
  <2>1. new \in RowState
    BY <1>1 DEF RowState, Statuses
  <2>2. QED
    BY <2>1, NoneAssumption DEF Settled
<1>3. row' = [row EXCEPT ![o] = new] /\ row[o] = None
  BY DEF Place
<1> HIDE DEF new
<1>4. QED
  BY <1>2, <1>3, DataFacts

LEMMA DataSteps ==
  ASSUME Base, [Next]_vars
  PROVE  DataStep
<1> USE DataFacts
<1>1. ASSUME NEW o \in Orders, Place(o)
      PROVE  DataStep
  <2>1. UNCHANGED <<faults, terms, traded, cancelled, processed, mem, replaced>>
    BY <1>1 DEF Place, memory
  <2>2. QED
    BY <1>1, <2>1, PlaceEffect DEF DataStep
<1>2. ASSUME UNCHANGED <<faults, terms, row, traded, cancelled, processed, mem, replaced>>
      PROVE  DataStep
  BY <1>2 DEF DataStep
<1>3. ASSUME NEW cmd \in Messages, Fetched(cmd), Unstored(cmd)
      PROVE  DataStep
  <2>1. UNCHANGED <<faults, terms, row, traded, cancelled, processed, mem>>
    BY <1>3 DEF Fetched, Unstored, source, database
  <2>2. replaced' = replaced \/ replaced' = [m \in Orders |-> 0]
    BY <1>3 DEF Unstored
  <2>3. QED
    BY <2>1, <2>2 DEF DataStep
<1>4. ASSUME NEW cmd \in Messages, NEW first \in BOOLEAN,
             Fetched(cmd), MatchStored(cmd, Fill(cmd.order, first))
      PROVE  DataStep
  <2> DEFINE o == cmd.order
  <2>1. faults' = faults /\ terms' = terms /\ o \in Orders /\ row[o] # None
    BY <1>4 DEF Fetched, source
  <2>2. PICK part, result : MatchOf(o, part, result)
    BY <1>4, MatchEffects
  <2>3. \A m \in Orders : replaced[m] \in Nat /\ replaced'[m] \in Nat
    BY <2>2 DEF MatchOf
  <2> HIDE DEF o
  <2>4. /\ row' \in [Orders -> RowState \cup {None}]
        /\ mem' \in [Orders -> RowState \cup {None}]
    BY <2>2 DEF MatchOf
  <2>5. ASSUME NEW m \in Orders
        PROVE  /\ row[m] # None => row'[m] # None
               /\ m \in processed' => row'[m] # None
               /\ mem'[m] # None => row'[m] # None
               /\ mem'[m] = None => replaced'[m] = 0
               /\ replaced'[m] # 0 => m \in processed'
               /\ Settled(row'[m]) /\ Settled(mem'[m])
    <3>1. row'[m] = IF m \in part THEN result[m] ELSE row[m]
      BY <2>2 DEF MatchOf
    <3>2. /\ (row[m] # None => row'[m] # None) /\ Settled(row'[m])
          /\ m \in processed' => row'[m] # None
      BY <2>1, <2>2, <3>1 DEF MatchOf
    <3>3. CASE mem' = mem /\ \A k \in Orders : replaced'[k] = 0
      BY <3>2, <3>3
    <3>4. CASE /\ mem' = [k \in Orders |-> IF k \in part THEN result[k] ELSE mem[k]]
               /\ \A k \in Orders \ {o} : replaced'[k] <= replaced[k]
      <4>1. mem'[m] = IF m \in part THEN result[m] ELSE mem[m]
        BY <3>4
      <4>2. Settled(mem'[m])
        BY <2>2, <4>1 DEF MatchOf
      <4>3. CASE m = o
        BY <2>1, <2>2, <3>2, <4>1, <4>2, <4>3 DEF MatchOf
      <4>4. CASE m # o
        <5>1. replaced'[m] # 0 => replaced[m] # 0
          BY <2>3, <3>4, <4>4
        <5>2. mem'[m] = None => mem[m] = None
          BY <2>2, <4>1 DEF MatchOf
        <5>3. processed \subseteq processed'
          BY <2>2 DEF MatchOf
        <5>4. mem'[m] # None => row'[m] # None
          BY <2>2, <3>1, <4>1 DEF MatchOf
        <5>5. QED
          BY <3>2, <4>2, <5>1, <5>2, <5>3, <5>4
      <4>5. QED
        BY <4>3, <4>4
    <3>5. QED
      BY <2>2, <3>3, <3>4 DEF MatchOf
  <2>6. /\ traded' \in [Orders -> Nat] /\ cancelled' \in [Orders -> Nat]
        /\ processed' \subseteq Orders \cup Cancels /\ replaced' \in [Orders -> Nat]
    BY <2>1, <2>2 DEF MatchOf
  <2>7. QED
    BY <2>1, <2>4, <2>5, <2>6 DEF DataStep
<1>5. ASSUME NEW cmd \in Messages, Fetched(cmd), CancelStored(cmd)
      PROVE  DataStep
  <2>1. faults' = faults /\ terms' = terms /\ cmd.id \in Cancels
    BY <1>5 DEF Fetched, CancelStored, source
  <2>2. StoreCancel(cmd) /\ CancelInMemory(cmd)
    BY <1>5 DEF CancelStored
  <2>3. cmd.id \notin Orders
    BY <2>1, IdsAssumption
  <2>4. QED
    BY <1>5, <2>1, <2>2, <2>3, CancelEffect, GoneTyped DEF DataStep
<1>6. ASSUME NEW cmd \in Messages, Fetched(cmd), CancelUnstored(cmd)
      PROVE  DataStep
  <2>1. UNCHANGED <<faults, terms, row, traded, cancelled, processed>> /\ CancelInMemory(cmd)
    BY <1>6 DEF Fetched, CancelUnstored, source, database
  <2>2. QED
    BY <1>6, <2>1, CancelEffect, GoneTyped DEF DataStep
<1>7. ASSUME Restart
      PROVE  DataStep
  <2>1. UNCHANGED <<faults, terms, row, traded, cancelled, processed>>
    BY <1>7, RestartEffect DEF source, database
  <2>2. \A m \in Orders : Settled(mem'[m])
    BY <1>7, RestartEffect DEF Settled
  <2>3. QED
    BY <1>7, <2>1, <2>2, RestartEffect DEF DataStep
<1>8. ASSUME \/ \E o \in Orders, c \in Cancels : RequestCancel(o, c)
             \/ \E i \in 1 .. Len(outbox), marked \in BOOLEAN : Publish(i, marked)
             \/ Offset
      PROVE  UNCHANGED <<faults, terms, row, traded, cancelled, processed, mem, replaced>>
  BY <1>8 DEF RequestCancel, Publish, Offset, database, memory, source
<1>9. QED
  BY <1>1, <1>2, <1>3, <1>4, <1>5, <1>6, <1>7, <1>8, StepIs

\* What a step does to the commands: the log grows at its end.
QueueStep ==
  /\ outbox' \in Seq(Command) /\ log' \in Seq(Command)
  /\ requested' \subseteq Cancels
  /\ Len(log) <= Len(log') /\ \A i \in 1 .. Len(log) : log'[i] = log[i]
  /\ position' \in 0 .. Len(log') /\ committed' \in 0 .. position' /\ ack' \in BOOLEAN
  /\ \A i \in 1 .. Len(log') : Proper(log[i])'
  /\ \A i \in 1 .. Len(outbox') : Proper(outbox[i])'

LEMMA QueueFacts ==
  ASSUME Base
  PROVE  /\ outbox \in Seq(Command) /\ log \in Seq(Command)
         /\ Len(outbox) \in Nat /\ Len(log) \in Nat
         /\ requested \subseteq Cancels
         /\ position \in Nat /\ committed \in Nat /\ ack \in BOOLEAN
         /\ committed <= position /\ position <= Len(log)
         /\ \A i \in 1 .. Len(log) : log[i] \in Command /\ Proper(log[i])
         /\ \A i \in 1 .. Len(outbox) : outbox[i] \in Command /\ Proper(outbox[i])
<1>1. /\ outbox \in Seq(Command) /\ log \in Seq(Command)
      /\ requested \subseteq Cancels
      /\ position \in 0 .. Len(log) /\ committed \in 0 .. position /\ ack \in BOOLEAN
  BY DEF Base, TypeOK
<1>2. Len(outbox) \in Nat /\ Len(log) \in Nat
  BY <1>1, LenProperties
<1>3. /\ \A i \in 1 .. Len(log) : log[i] \in Command /\ Proper(log[i])
      /\ \A i \in 1 .. Len(outbox) : outbox[i] \in Command /\ Proper(outbox[i])
  BY <1>1, ElementOfSeq DEF Base, Sound
<1>4. QED
  BY <1>1, <1>2, <1>3

LEMMA ProperStays ==
  ASSUME Base, DataStep, NEW cmd \in Command, Proper(cmd)
  PROVE  /\ row'[cmd.order] # None
         /\ IsCreate(cmd) \/ IsCancel(cmd)
  BY DEF Proper, DataStep, Command

LEMMA PlacedCommands ==
  ASSUME NEW o \in Orders
  PROVE  /\ Create(o) \in Command /\ Create(o).order = o /\ Create(o).id = o
         /\ IsCreate(Create(o)) /\ ~ IsCancel(Create(o))
         /\ \A c \in Cancels : /\ Cancel(o, c) \in Command /\ Cancel(o, c).order = o
                               /\ IsCancel(Cancel(o, c)) /\ ~ IsCreate(Cancel(o, c))
  BY DEF Create, Cancel, Command, IsCreate, IsCancel

LEMMA QueueSteps ==
  ASSUME Base, [Next]_vars
  PROVE  QueueStep
<1> USE QueueFacts
<1>0. DataStep
  BY DataSteps
<1>2. ASSUME log' = log, outbox' = outbox, requested' \subseteq Cancels,
             position' \in 0 .. Len(log), committed' \in 0 .. position', ack' \in BOOLEAN
      PROVE  QueueStep
  <2>1. \A i \in 1 .. Len(log) : Proper(log[i])'
    BY <1>0, <1>2, ProperStays DEF Proper, IsCreate, IsCancel
  <2>2. \A i \in 1 .. Len(outbox) : Proper(outbox[i])'
    BY <1>0, <1>2, ProperStays DEF Proper, IsCreate, IsCancel
  <2>3. QED
    BY <1>2, <2>1, <2>2 DEF QueueStep
<1>3. ASSUME NEW cmd \in Command, outbox' = Append(outbox, cmd), row'[cmd.order] # None,
             IsCreate(cmd) \/ IsCancel(cmd), log' = log, requested' \subseteq Cancels,
             position' = position, committed' = committed, ack' = ack
      PROVE  QueueStep
  <2>1. /\ outbox' \in Seq(Command) /\ Len(outbox') = Len(outbox) + 1
        /\ \A i \in 1 .. Len(outbox) : outbox'[i] = outbox[i]
        /\ outbox'[Len(outbox) + 1] = cmd
    BY <1>3
  <2>2. \A i \in 1 .. Len(log) : Proper(log[i])'
    BY <1>0, <1>3, ProperStays DEF Proper, IsCreate, IsCancel
  <2>3. ASSUME NEW i \in 1 .. Len(outbox')
        PROVE  Proper(outbox[i])'
    <3>1. CASE i = Len(outbox) + 1
      <4>1. outbox'[i] = cmd
        BY <2>1, <3>1
      <4>2. QED
        BY <1>3, <4>1 DEF Proper, IsCreate, IsCancel
    <3>2. CASE i # Len(outbox) + 1
      <4>1. i \in 1 .. Len(outbox) /\ outbox'[i] = outbox[i]
        BY <2>1, <3>2
      <4>2. QED
        BY <1>0, <4>1, ProperStays DEF Proper, IsCreate, IsCancel
    <3>3. QED
      BY <3>1, <3>2
  <2>4. QED
    BY <1>3, <2>1, <2>2, <2>3 DEF QueueStep
<1>4. ASSUME NEW o \in Orders, Place(o)
      PROVE  QueueStep
  <2>1. /\ outbox' = Append(outbox, Create(o)) /\ row'[o] # None
        /\ UNCHANGED <<requested, log, position, committed, ack>>
    BY <1>4, PlaceEffect DEF Place
  <2>2. QED
    BY <1>3, <2>1, PlacedCommands
<1>5. ASSUME NEW o \in Orders, NEW c \in Cancels, RequestCancel(o, c)
      PROVE  QueueStep
  <2>1. /\ outbox' = Append(outbox, Cancel(o, c)) /\ row'[o] # None
        /\ requested' \subseteq Cancels
        /\ UNCHANGED <<log, position, committed, ack>>
    BY <1>5 DEF RequestCancel, IsOpen, database
  <2>2. QED
    BY <1>3, <2>1, PlacedCommands
<1>6. ASSUME NEW i \in 1 .. Len(outbox), NEW marked \in BOOLEAN, Publish(i, marked)
      PROVE  QueueStep
  <2>1. UNCHANGED <<requested, position, committed, ack>>
    BY <1>6 DEF Publish
  <2>2. /\ log' \in Seq(Command) /\ Len(log') = Len(log) + 1
        /\ \A j \in 1 .. Len(log) : log'[j] = log[j]
        /\ log'[Len(log) + 1] = outbox[i]
        /\ outbox' \in Seq(Command) /\ Len(outbox') <= Len(outbox)
        /\ \A j \in 1 .. Len(outbox') :
             outbox'[j] = outbox[IF marked /\ ~ (j < i) THEN j + 1 ELSE j]
        /\ marked => Len(outbox') = Len(outbox) - 1
    BY <1>6, PublishEffect
  <2>3. ASSUME NEW j \in 1 .. Len(log')
        PROVE  Proper(log[j])'
    <3>1. log'[j] \in Command /\ Proper(log'[j])
      <4>1. CASE j = Len(log) + 1
        BY <2>2, <4>1
      <4>2. CASE j # Len(log) + 1
        <5>1. j \in 1 .. Len(log)
          BY <2>2, <4>2
        <5>2. QED
          BY <2>2, <5>1
      <4>3. QED
        BY <4>1, <4>2
    <3>2. QED
      BY <1>0, <3>1, ProperStays DEF Proper, IsCreate, IsCancel
  <2>4. ASSUME NEW j \in 1 .. Len(outbox')
        PROVE  Proper(outbox[j])'
    <3>1. PICK k \in 1 .. Len(outbox) : outbox'[j] = outbox[k]
      <4>1. Len(outbox') \in Nat
        BY <2>2, LenProperties
      <4>2. j \in 1 .. Len(outbox) /\ (marked => j + 1 \in 1 .. Len(outbox))
        BY <2>2, <4>1
      <4>3. QED
        BY <2>2, <4>2
    <3>2. QED
      BY <1>0, <3>1, ProperStays DEF Proper, IsCreate, IsCancel
  <2>5. QED
    BY <2>1, <2>2, <2>3, <2>4 DEF QueueStep
<1>7. ASSUME NEW cmd \in Messages, Fetched(cmd)
      PROVE  QueueStep
  <2>1. /\ position + 1 \in 1 .. Len(log) /\ position' = position + 1
        /\ UNCHANGED <<outbox, requested, log, committed>> /\ ack' \in BOOLEAN
    BY <1>7 DEF Fetched, source
  <2>2. position' \in 0 .. Len(log) /\ committed' \in 0 .. position'
    BY <2>1
  <2>3. QED
    BY <1>2, <2>1, <2>2
<1>8. ASSUME Offset
      PROVE  QueueStep
  <2>1. /\ UNCHANGED <<outbox, requested, log>> /\ ack' \in BOOLEAN
        /\ \/ position' = position /\ committed' \in {committed, position}
           \/ position' = committed /\ committed' = committed
    BY <1>8 DEF Offset, source
  <2>2. position' \in 0 .. Len(log) /\ committed' \in 0 .. position'
    BY <2>1
  <2>3. log' = log /\ outbox' = outbox /\ requested' \subseteq Cancels /\ ack' \in BOOLEAN
    BY <2>1
  <2>4. QED
    BY <1>2, <2>2, <2>3
<1>9. ASSUME Restart
      PROVE  QueueStep
  <2>1. UNCHANGED <<outbox, requested, log, committed>> /\ position' = committed /\ ack' = FALSE
    BY <1>9, RestartEffect DEF source
  <2>2. position' \in 0 .. Len(log) /\ committed' \in 0 .. position'
    BY <2>1
  <2>3. /\ log' = log /\ outbox' = outbox /\ requested' \subseteq Cancels
        /\ ack' \in BOOLEAN
    BY <2>1
  <2>4. QED
    BY <1>2, <2>2, <2>3
<1>10. QED
  BY <1>4, <1>5, <1>6, <1>7, <1>8, <1>9, StepIs

\* The history keeps its type, and what has failed stays so.
LEMMA HistorySteps ==
  ASSUME Base, [Next]_vars
  PROVE  /\ failed \subseteq failed' /\ failed' \subseteq Orders \cup Cancels
         /\ doubted' \subseteq Orders
<1>1. failed \subseteq Orders \cup Cancels /\ doubted \subseteq Orders
  BY DEF Base, TypeOK
<1>2. ASSUME NEW cmd, Fetched(cmd)
      PROVE  failed \subseteq failed' /\ failed' \subseteq Orders \cup Cancels
  BY <1>1, <1>2 DEF Fetched, Command
<1>3. ASSUME NEW cmd, NEW first \in BOOLEAN, Fetched(cmd),
             MatchStored(cmd, Fill(cmd.order, first))
      PROVE  doubted' \subseteq Orders
  BY <1>1, <1>3, MatchEffects, Base DEF MatchOf
<1>4. ASSUME NEW cmd, Fetched(cmd), Unstored(cmd) \/ CancelStored(cmd) \/ CancelUnstored(cmd)
      PROVE  doubted' \subseteq Orders
  BY <1>1, <1>4 DEF Fetched, Unstored, CancelStored, CancelUnstored
<1>5. ASSUME Restart
      PROVE  failed' = failed /\ doubted' = {}
  BY <1>5, RestartEffect
<1>6. ASSUME \/ \E o \in Orders : Place(o)
             \/ \E o \in Orders, c \in Cancels : RequestCancel(o, c)
             \/ \E i \in 1 .. Len(outbox), marked \in BOOLEAN : Publish(i, marked)
             \/ Offset
      PROVE  failed' = failed /\ doubted' = doubted
  BY <1>6 DEF Place, RequestCancel, Publish, Offset, memory
<1>7. QED
  BY <1>1, <1>2, <1>3, <1>4, <1>5, <1>6, StepIs

LEMMA BaseSteps ==
  ASSUME Base, [Next]_vars
  PROVE  Base'
<1>1. DataStep /\ QueueStep
  BY DataSteps, QueueSteps
<1>2. faults \subseteq AllFaults /\ terms \in [Orders -> Terms] /\ terms \in Portfolios
  BY DEF Base, TypeOK, Sound
<1>3. TypeOK'
  BY <1>1, <1>2, HistorySteps DEF DataStep, QueueStep, TypeOK
<1>4. Sound'
  BY <1>1, <1>2 DEF DataStep, QueueStep, Sound
<1>5. QED
  BY <1>3, <1>4 DEF Base

-----------------------------------------------------------------------------
(* The book follows the rows *)

\* Whatever Never excludes stays excluded.
LEMMA NeverStays ==
  ASSUME DataStep
  PROVE  \A F : Never(F)' <=> Never(F)
  BY DEF DataStep, Never

LEMMA BookSteps ==
  ASSUME Base, BookFollowsRows, [Next]_vars
  PROVE  BookFollowsRows'
<1> USE DataFacts
<1>0. DataStep /\ faults' = faults
  BY DataSteps DEF DataStep
<1> DEFINE Kept(m)  == m \in processed /\ m \notin doubted /\ IsOpen(row[m]) => mem[m] = row[m]
           Same(m)  == /\ replaced[m] = 0
                       /\ m \notin processed => mem[m] = None
                       /\ m \notin doubted => mem[m] = IF m \in processed THEN row[m] ELSE None
           Reported == Never({"unknown", "cancelfail"})
           Running  == Never({"restart"})
           Follows  == /\ \A m \in Orders : Kept(m)
                       /\ Running => \A m \in Orders : Same(m)
                       /\ Reported => doubted = {}
<1>1. Follows
  BY DEF BookFollowsRows
<1>2. SUFFICES Follows'
  BY DEF BookFollowsRows
<1>3. (Running' <=> Running) /\ (Reported' <=> Reported)
  BY <1>0 DEF Never
<1>4. ASSUME NEW o \in Orders, Place(o)
      PROVE  Follows'
  <2>1. UNCHANGED <<processed, mem, replaced, doubted>>
    BY <1>4 DEF Place, memory
  <2>2. o \notin processed /\ \A m \in Orders \ {o} : row'[m] = row[m]
    BY <1>4, PlaceEffect
  <2>3. QED
    BY <1>1, <1>3, <2>1, <2>2
<1>5. ASSUME UNCHANGED <<row, processed, mem, doubted>>,
             UNCHANGED replaced \/ replaced' = [m \in Orders |-> 0]
      PROVE  Follows'
  BY <1>1, <1>3, <1>5
<1>6. ASSUME NEW cmd \in Messages, NEW first \in BOOLEAN,
             Fetched(cmd), MatchStored(cmd, Fill(cmd.order, first))
      PROVE  Follows'
  <2> DEFINE o == cmd.order
  <2>1. o \in Orders /\ o \notin processed
    BY <1>6 DEF Fetched, MatchStored
  <2>2. PICK part, result : MatchOf(o, part, result)
    BY <1>6, MatchEffects
  <2> HIDE DEF o
  <2>3. /\ row' = [m \in Orders |-> IF m \in part THEN result[m] ELSE row[m]]
        /\ processed' = processed \cup {o} /\ o \in part
        /\ \A m \in part \ {o} : m \in Orders /\ mem[m] # None
        /\ \A m \in Orders : replaced'[m] \in Nat
    BY <2>2 DEF MatchOf
  <2>4. CASE /\ mem' = [m \in Orders |-> IF m \in part THEN result[m] ELSE mem[m]]
             /\ replaced'[o] = Left(<<o, "current">>)
             /\ \A m \in Orders \ {o} : replaced'[m] <= replaced[m]
             /\ doubted' = doubted
    <3>1. \A m \in Orders : Kept(m)'
      BY <1>1, <2>3, <2>4
    <3>2. ASSUME Running, NEW m \in Orders
          PROVE  Same(m)'
      <4>1. Same(m) /\ mem[o] = None
        BY <1>1, <2>1, <3>2
      <4>2. m \in part => m \in processed'
        BY <1>1, <2>3, <3>2
      <4>3. m \notin processed' => mem'[m] = None
        BY <2>3, <2>4, <4>1, <4>2
      <4>4. m \notin doubted' => mem'[m] = IF m \in processed' THEN row'[m] ELSE None
        BY <2>3, <2>4, <4>1, <4>2
      <4>5. Left(<<o, "current">>) = 0
        BY <4>1 DEF Left
      <4>6. replaced'[m] = 0
        BY <2>3, <2>4, <4>1, <4>5
      <4>7. QED
        BY <4>3, <4>4, <4>6
    <3>3. QED
      BY <1>1, <1>3, <2>4, <3>1, <3>2
  <2>5. CASE /\ "unknown" \in faults
             /\ doubted' = doubted \cup part
             /\ mem' = mem
             /\ \A m \in Orders : replaced'[m] = 0
    <3>1. ~ Reported'
      BY <1>0, <2>5 DEF Never
    <3>2. \A m \in Orders : Kept(m)'
      BY <1>1, <2>3, <2>5
    <3>3. Running => \A m \in Orders : Same(m)'
      BY <1>1, <2>3, <2>5
    <3>4. QED
      BY <1>3, <3>1, <3>2, <3>3
  <2>6. QED
    BY <2>2, <2>4, <2>5 DEF MatchOf
<1>7. ASSUME NEW cmd \in Messages, Fetched(cmd), CancelStored(cmd)
      PROVE  Follows'
  <2>1. /\ processed' = processed \cup {cmd.id} /\ cmd.id \notin Orders
        /\ replaced' = replaced /\ doubted' = doubted
        /\ \A m \in Orders :
             /\ row'[m] = IF m = cmd.order /\ IsOpen(row[m]) THEN Gone ELSE row[m]
             /\ mem'[m] = IF m = cmd.order /\ IsOpen(row[m]) /\ mem[m] # None
                            THEN Gone ELSE mem[m]
    BY <1>7, CancelEffect, IdsAssumption DEF CancelStored
  <2>2. ~ IsOpen(Gone)
    BY GoneTyped
  <2>3. \A m \in Orders : m \in processed' <=> m \in processed
    BY <2>1
  <2>4. ASSUME NEW m \in Orders
        PROVE  Kept(m)' /\ (Running => Same(m)')
    BY <1>1, <2>1, <2>2, <2>3
  <2>5. QED
    BY <1>1, <1>3, <2>1, <2>4
<1>8. ASSUME NEW cmd \in Messages, Fetched(cmd), CancelUnstored(cmd)
      PROVE  Follows'
  <2>1. /\ ~ Reported
        /\ UNCHANGED <<row, processed, replaced>>
        /\ doubted' = IF mem' = mem THEN doubted ELSE doubted \cup {cmd.order}
        /\ mem' \in [Orders -> RowState \cup {None}]
        /\ \A m \in Orders :
             mem'[m] = IF m = cmd.order /\ IsOpen(row[m]) /\ mem[m] # None
                         THEN Gone ELSE mem[m]
    BY <1>8, CancelEffect DEF CancelUnstored, database, Never
  <2>2. ASSUME NEW m \in Orders
        PROVE  /\ m \notin doubted' => m \notin doubted /\ mem'[m] = mem[m]
               /\ mem[m] = None => mem'[m] = None
    <3>1. CASE mem' = mem
      BY <2>1, <3>1
    <3>2. CASE mem' # mem
      BY <2>1, <3>2
    <3>3. QED
      BY <3>1, <3>2
  <2>3. ASSUME NEW m \in Orders
        PROVE  Kept(m)' /\ (Running => Same(m)')
    BY <1>1, <2>1, <2>2
  <2>4. QED
    BY <1>3, <2>1, <2>3
<1>9. ASSUME Restart
      PROVE  Follows'
  BY <1>3, <1>9, RestartEffect DEF Never, database
<1>10. ASSUME \/ \E o \in Orders, c \in Cancels : RequestCancel(o, c)
              \/ \E i \in 1 .. Len(outbox), marked \in BOOLEAN : Publish(i, marked)
              \/ \E cmd \in Messages : Fetched(cmd) /\ Unstored(cmd)
              \/ Offset
       PROVE  /\ UNCHANGED <<row, processed, mem, doubted>>
              /\ UNCHANGED replaced \/ replaced' = [m \in Orders |-> 0]
  BY <1>10 DEF RequestCancel, Publish, Offset, Unstored, database, memory
<1>11. QED
  BY <1>4, <1>5, <1>6, <1>7, <1>8, <1>9, <1>10, StepIs

-----------------------------------------------------------------------------
(* What was fetched has taken effect *)

LEMMA ProcessedGrows ==
  ASSUME Base, [Next]_vars
  PROVE  processed \subseteq processed'
<1>1. ASSUME NEW cmd \in Messages, NEW first \in BOOLEAN,
             MatchStored(cmd, Fill(cmd.order, first))
      PROVE  processed \subseteq processed'
  BY <1>1 DEF MatchStored, StoreMatch
<1>2. ASSUME \/ \E o \in Orders : Place(o)
             \/ \E o \in Orders, c \in Cancels : RequestCancel(o, c)
             \/ \E i \in 1 .. Len(outbox), marked \in BOOLEAN : Publish(i, marked)
             \/ \E cmd \in Messages : Unstored(cmd) \/ CancelUnstored(cmd) \/ CancelStored(cmd)
             \/ Offset
             \/ Restart
      PROVE  processed \subseteq processed'
  BY <1>2 DEF Place, RequestCancel, Publish, Unstored, CancelUnstored, CancelStored, StoreCancel,
              Offset, Restart, database
<1>3. QED
  BY <1>1, <1>2, StepIs

LEMMA FetchSteps ==
  ASSUME Base, FetchedIsProcessed, [Next]_vars
  PROVE  FetchedIsProcessed'
<1> USE QueueFacts
<1>0. DataStep /\ QueueStep /\ faults' = faults
  BY DataSteps, QueueSteps DEF DataStep
<1> DEFINE NoDbFail == Never({"dbfail"})
           Done(i)   == log[i].id \in processed
           Failed(i) == log[i].id \in failed
<1>1. /\ \A i \in 1 .. position : Done(i) \/ Failed(i)
      /\ NoDbFail => \A i \in 1 .. position : IsCreate(log[i]) => Done(i)
  BY DEF FetchedIsProcessed
<1>2. SUFFICES /\ \A i \in 1 .. position' : Done(i)' \/ Failed(i)'
               /\ NoDbFail => \A i \in 1 .. position' : IsCreate(log'[i]) => Done(i)'
  BY <1>0 DEF FetchedIsProcessed, Never, IsCreate
<1>3. processed \subseteq processed' /\ failed \subseteq failed'
  BY ProcessedGrows, HistorySteps
<1>4. ASSUME NEW i \in 1 .. position
      PROVE  i \in 1 .. Len(log) /\ log'[i] = log[i]
  <2>1. i \in 1 .. Len(log)
    OBVIOUS
  <2>2. QED
    BY <1>0, <2>1 DEF QueueStep
<1>5. ASSUME position' <= position
      PROVE  /\ \A i \in 1 .. position' : Done(i)' \/ Failed(i)'
             /\ NoDbFail => \A i \in 1 .. position' : IsCreate(log'[i]) => Done(i)'
  <2>1. \A i \in 1 .. position' : i \in 1 .. position
    BY <1>0, <1>5 DEF QueueStep
  <2>2. QED
    BY <1>1, <1>3, <1>4, <2>1
<1>6. ASSUME NEW cmd \in Messages, Fetched(cmd),
             cmd.id \in processed' \/ "dbfail" \in faults \/ ~ IsCreate(cmd)
      PROVE  /\ \A i \in 1 .. position' : Done(i)' \/ Failed(i)'
             /\ NoDbFail => \A i \in 1 .. position' : IsCreate(log'[i]) => Done(i)'
  <2>1. /\ position' = position + 1 /\ log' = log /\ cmd = log[position + 1]
        /\ cmd.id \in processed' \/ cmd.id \in failed'
    BY <1>6 DEF Fetched, source
  <2>2. \A i \in 1 .. position' : i \in 1 .. position \/ i = position + 1
    BY <2>1
  <2>3. NoDbFail /\ IsCreate(cmd) => cmd.id \in processed'
    BY <1>6 DEF Never
  <2>4. QED
    BY <1>1, <1>3, <2>1, <2>2, <2>3
<1>7. ASSUME NEW cmd \in Messages, Unstored(cmd)
      PROVE  cmd.id \in processed' \/ "dbfail" \in faults
  BY <1>7 DEF Unstored, database
<1>8. ASSUME NEW cmd \in Messages, NEW first \in BOOLEAN,
             MatchStored(cmd, Fill(cmd.order, first))
      PROVE  cmd.id \in processed'
  BY <1>8 DEF MatchStored, StoreMatch
<1>9. ASSUME NEW cmd \in Messages, CancelStored(cmd) \/ CancelUnstored(cmd)
      PROVE  ~ IsCreate(cmd)
  BY <1>9 DEF CancelStored, CancelUnstored, IsCancel, IsCreate, Create, Cancel
<1>10. ASSUME \/ \E o \in Orders : Place(o)
              \/ \E o \in Orders, c \in Cancels : RequestCancel(o, c)
              \/ \E i \in 1 .. Len(outbox), marked \in BOOLEAN : Publish(i, marked)
              \/ Offset
       PROVE  position' <= position
  BY <1>10 DEF Place, RequestCancel, Publish, Offset
<1>11. ASSUME Restart
       PROVE  position' <= position
  BY <1>11, RestartEffect
<1>12. QED
  BY <1>5, <1>6, <1>7, <1>8, <1>9, <1>10, <1>11, StepIs

-----------------------------------------------------------------------------
(* Cancellations follow the create command *)

\* Only Place adds a row.
LEMMA RowsAppear ==
  ASSUME Base, [Next]_vars, NEW o \in Orders, row[o] = None, row'[o] # None
  PROVE  Place(o)
<1>1. ASSUME NEW cmd \in Messages, Fetched(cmd), NEW first \in BOOLEAN,
             MatchStored(cmd, Fill(cmd.order, first))
      PROVE  FALSE
  <2> DEFINE p == cmd.order
  <2>1. PICK part, result : MatchOf(p, part, result)
    BY <1>1, MatchEffects
  <2>2. row[p] # None /\ (mem[o] # None => row[o] # None)
    BY <1>1, DataFacts DEF Fetched
  <2> HIDE DEF p
  <2>3. o \in part
    BY <2>1 DEF MatchOf
  <2>4. QED
    BY <2>1, <2>2, <2>3 DEF MatchOf
<1>2. ASSUME NEW cmd \in Messages, Fetched(cmd), CancelStored(cmd)
      PROVE  FALSE
  BY <1>2, CancelEffect DEF CancelStored, IsOpen
<1>3. ASSUME NEW p \in Orders, Place(p)
      PROVE  Place(o)
  BY <1>3, PlaceEffect
<1>4. ASSUME \/ \E p \in Orders, c \in Cancels : RequestCancel(p, c)
             \/ \E i \in 1 .. Len(outbox), marked \in BOOLEAN : Publish(i, marked)
             \/ \E cmd \in Messages : Unstored(cmd) \/ CancelUnstored(cmd)
             \/ Offset
             \/ Restart
      PROVE  row' = row
  BY <1>4 DEF RequestCancel, Publish, Unstored, CancelUnstored, Offset, Restart, database
<1>5. QED
  BY <1>1, <1>2, <1>3, <1>4, StepIs

LEMMA FollowSteps ==
  ASSUME Base, CancelsFollow, [Next]_vars
  PROVE  CancelsFollow'
<1> USE QueueFacts
<1>0. DataStep /\ QueueStep /\ faults' = faults
  BY DataSteps, QueueSteps DEF DataStep
<1> DEFINE Somewhere(m) == \/ \E i \in 1 .. Len(log) : log[i] = Create(m)
                           \/ \E i \in 1 .. Len(outbox) : outbox[i] = Create(m)
           Ordered == Never({"reorder"})
           InLog   == \A i, j \in 1 .. Len(log) :
                        IsCancel(log[i]) /\ i < j => log[j] # Create(log[i].order)
           Between == \A i \in 1 .. Len(log), j \in 1 .. Len(outbox) :
                        IsCancel(log[i]) => outbox[j] # Create(log[i].order)
           Pending == \A i, j \in 1 .. Len(outbox) :
                        IsCancel(outbox[i]) /\ i < j => outbox[j] # Create(outbox[i].order)
<1>1. /\ \A m \in Orders : row[m] # None => Somewhere(m)
      /\ Ordered => InLog /\ Between /\ Pending
  BY DEF CancelsFollow
<1>2. Ordered' <=> Ordered
  BY <1>0 DEF Never
<1>3. SUFFICES /\ \A m \in Orders : row'[m] # None => Somewhere(m)'
               /\ Ordered => InLog' /\ Between' /\ Pending'
  BY <1>2 DEF CancelsFollow
<1>4. ASSUME NEW cmd \in Command, outbox' = Append(outbox, cmd), log' = log,
             \A m \in Orders : row'[m] # None => row[m] # None \/ cmd = Create(m),
             \/ IsCancel(cmd) /\ ~ IsCreate(cmd)
             \/ \E o \in Orders : cmd = Create(o) /\ row[o] = None
      PROVE  /\ \A m \in Orders : row'[m] # None => Somewhere(m)'
             /\ Ordered => InLog' /\ Between' /\ Pending'
  <2>1. /\ Len(outbox') = Len(outbox) + 1
        /\ \A i \in 1 .. Len(outbox) : outbox'[i] = outbox[i]
        /\ outbox'[Len(outbox) + 1] = cmd
    BY <1>4
  <2>2. \A i \in 1 .. Len(outbox') : i \in 1 .. Len(outbox) \/ i = Len(outbox) + 1
    BY <2>1
  <2>3. \A i \in 1 .. Len(outbox) : i \in 1 .. Len(outbox')
    BY <2>1
  <2>4. Len(outbox) + 1 \in 1 .. Len(outbox')
    BY <2>1
  <2>5. ASSUME NEW m \in Orders, row'[m] # None
        PROVE  Somewhere(m)'
    <3>1. CASE cmd = Create(m)
      BY <2>1, <2>4, <3>1 DEF Create
    <3>2. CASE row[m] # None
      <4>1. CASE \E i \in 1 .. Len(log) : log[i] = Create(m)
        BY <1>4, <4>1 DEF Create
      <4>2. CASE \E i \in 1 .. Len(outbox) : outbox[i] = Create(m)
        BY <2>1, <2>3, <4>2 DEF Create
      <4>3. QED
        BY <1>1, <3>2, <4>1, <4>2
    <3>3. QED
      BY <1>4, <2>5, <3>1, <3>2
  <2>6. ASSUME NEW other \in Command, Proper(other)
        PROVE  cmd # Create(other.order)
    <3>1. other.order \in Orders /\ row[other.order] # None
      BY <2>6 DEF Proper, Command
    <3>2. CASE ~ IsCreate(cmd)
      BY <3>1, <3>2, PlacedCommands
    <3>3. CASE \E o \in Orders : cmd = Create(o) /\ row[o] = None
      BY <3>1, <3>3, PlacedCommands
    <3>4. QED
      BY <1>4, <3>2, <3>3
  <2>7. ASSUME Ordered
        PROVE  InLog' /\ Between' /\ Pending'
    <3>1. InLog'
      BY <1>1, <1>4, <2>7 DEF IsCancel, Create, Cancel
    <3>2. Between'
      BY <1>1, <1>4, <2>1, <2>2, <2>6, <2>7 DEF IsCancel, Create, Cancel
    <3>3. ASSUME NEW i \in 1 .. Len(outbox'), NEW j \in 1 .. Len(outbox'),
                 IsCancel(outbox'[i]), i < j
          PROVE  outbox'[j] # Create(outbox'[i].order)
      <4>1. i \in 1 .. Len(outbox) /\ outbox'[i] = outbox[i]
        BY <2>1, <2>2, <3>3
      <4>2. CASE j \in 1 .. Len(outbox)
        BY <1>1, <2>1, <2>7, <3>3, <4>1, <4>2
      <4>3. CASE j = Len(outbox) + 1
        BY <2>1, <2>6, <4>1, <4>3
      <4>4. QED
        BY <2>2, <4>2, <4>3
    <3>4. Pending'
      BY <3>3 DEF IsCancel, Create, Cancel
    <3>5. QED
      BY <3>1, <3>2, <3>4
  <2>8. QED
    BY <2>5, <2>7
<1>5. ASSUME NEW o \in Orders, Place(o)
      PROVE  /\ \A m \in Orders : row'[m] # None => Somewhere(m)'
             /\ Ordered => InLog' /\ Between' /\ Pending'
  <2>1. outbox' = Append(outbox, Create(o)) /\ log' = log /\ row[o] = None
    BY <1>5 DEF Place
  <2>2. \A m \in Orders : row'[m] # None => row[m] # None \/ Create(o) = Create(m)
    BY <1>5, PlaceEffect
  <2>3. Create(o) \in Command
    BY PlacedCommands
  <2>4. QED
    BY <1>4, <2>1, <2>2, <2>3
<1>6. ASSUME NEW o \in Orders, NEW c \in Cancels, RequestCancel(o, c)
      PROVE  /\ \A m \in Orders : row'[m] # None => Somewhere(m)'
             /\ Ordered => InLog' /\ Between' /\ Pending'
  <2>1. outbox' = Append(outbox, Cancel(o, c)) /\ log' = log /\ row' = row
    BY <1>6 DEF RequestCancel, database
  <2>2. /\ Cancel(o, c) \in Command /\ IsCancel(Cancel(o, c)) /\ ~ IsCreate(Cancel(o, c))
    BY PlacedCommands
  <2>3. QED
    BY <1>4, <2>1, <2>2
<1>7. ASSUME NEW i \in 1 .. Len(outbox), NEW marked \in BOOLEAN, Publish(i, marked)
      PROVE  /\ \A m \in Orders : row'[m] # None => Somewhere(m)'
             /\ Ordered => InLog' /\ Between' /\ Pending'
  <2> DEFINE From(j) == IF marked /\ ~ (j < i) THEN j + 1 ELSE j
  <2>1. row' = row /\ (Ordered => i = 1)
    BY <1>7 DEF Publish, database, Never
  <2>2. /\ Len(log') = Len(log) + 1
        /\ \A j \in 1 .. Len(log) : log'[j] = log[j]
        /\ log'[Len(log) + 1] = outbox[i]
        /\ outbox' \in Seq(Command) /\ Len(outbox') <= Len(outbox)
        /\ \A j \in 1 .. Len(outbox') : outbox'[j] = outbox[From(j)]
        /\ marked => Len(outbox') = Len(outbox) - 1
        /\ \A k \in 1 .. Len(outbox) :
              k # i => \E j \in 1 .. Len(outbox') : outbox'[j] = outbox[k]
    BY <1>7, PublishEffect
  <2>3. \A j \in 1 .. Len(outbox') : From(j) \in 1 .. Len(outbox)
    <3>1. Len(outbox') \in Nat
      BY <2>2, LenProperties
    <3>2. QED
      BY <2>2, <3>1
  <2>4. \A j, k \in 1 .. Len(outbox') : j < k => From(j) < From(k)
    OBVIOUS
  <2> HIDE DEF From
  <2>5. /\ \A j \in 1 .. Len(log') : j \in 1 .. Len(log) \/ j = Len(log) + 1
        /\ \A j \in 1 .. Len(log) : j \in 1 .. Len(log')
        /\ Len(log) + 1 \in 1 .. Len(log')
    BY <2>2
  <2>6. ASSUME NEW m \in Orders, row'[m] # None
        PROVE  Somewhere(m)'
    <3>1. Somewhere(m)
      BY <1>1, <2>1, <2>6
    <3>2. CASE \E k \in 1 .. Len(log) : log[k] = Create(m)
      BY <2>2, <2>5, <3>2 DEF Create
    <3>3. CASE \E k \in 1 .. Len(outbox) : outbox[k] = Create(m)
      <4>1. PICK k \in 1 .. Len(outbox) : outbox[k] = Create(m)
        BY <3>3
      <4>2. CASE k = i
        BY <2>2, <2>5, <4>1, <4>2 DEF Create
      <4>3. CASE k # i
        BY <2>2, <4>1, <4>3 DEF Create
      <4>4. QED
        BY <4>2, <4>3
    <3>4. QED
      BY <3>1, <3>2, <3>3
  <2>7. ASSUME Ordered
        PROVE  InLog' /\ Between' /\ Pending'
    <3>1. i = 1 /\ InLog /\ Between /\ Pending
      BY <1>1, <2>1, <2>7
    <3>2. ASSUME NEW j \in 1 .. Len(log'), NEW k \in 1 .. Len(log'),
                 IsCancel(log'[j]), j < k
          PROVE  log'[k] # Create(log'[j].order)
      <4>1. j \in 1 .. Len(log) /\ log'[j] = log[j]
        BY <2>2, <2>5, <3>2
      <4>2. CASE k \in 1 .. Len(log)
        BY <2>2, <3>1, <3>2, <4>1, <4>2
      <4>3. CASE k = Len(log) + 1
        BY <2>2, <3>1, <3>2, <4>1, <4>3
      <4>4. QED
        BY <2>5, <4>2, <4>3
    <3>3. ASSUME NEW j \in 1 .. Len(log'), NEW k \in 1 .. Len(outbox'), IsCancel(log'[j])
          PROVE  outbox'[k] # Create(log'[j].order)
      <4>1. outbox'[k] = outbox[From(k)] /\ From(k) \in 1 .. Len(outbox)
        BY <2>2, <2>3
      <4>2. CASE j \in 1 .. Len(log)
        <5>1. log'[j] = log[j] /\ IsCancel(log[j])
          BY <2>2, <3>3, <4>2
        <5>2. outbox[From(k)] # Create(log[j].order)
          BY <3>1, <4>1, <4>2, <5>1
        <5>3. QED
          BY <4>1, <5>1, <5>2
      <4>3. CASE j = Len(log) + 1
        <5>1. log'[j] = outbox[1] /\ IsCancel(outbox[1])
          BY <2>2, <3>1, <3>3, <4>3
        <5>2. CASE From(k) = 1
          <6>1. ~ IsCreate(outbox[1])
            BY <5>1 DEF IsCancel, IsCreate, Create, Cancel
          <6>2. outbox[1].order \in Orders
            BY <3>1 DEF Command
          <6>3. QED
            BY <4>1, <5>1, <5>2, <6>1, <6>2, PlacedCommands
        <5>3. CASE From(k) # 1
          <6>1. 1 < From(k)
            BY <4>1, <5>3
          <6>2. QED
            BY <3>1, <4>1, <5>1, <6>1
        <5>4. QED
          BY <5>2, <5>3
      <4>4. QED
        BY <2>5, <4>2, <4>3
    <3>4. ASSUME NEW j \in 1 .. Len(outbox'), NEW k \in 1 .. Len(outbox'),
                 IsCancel(outbox'[j]), j < k
          PROVE  outbox'[k] # Create(outbox'[j].order)
      <4>1. /\ outbox'[j] = outbox[From(j)] /\ outbox'[k] = outbox[From(k)]
            /\ From(j) \in 1 .. Len(outbox) /\ From(k) \in 1 .. Len(outbox)
            /\ From(j) < From(k)
        BY <2>2, <2>3, <2>4, <3>4
      <4>2. IsCancel(outbox[From(j)])
        BY <3>4, <4>1
      <4>3. outbox[From(k)] # Create(outbox[From(j)].order)
        BY <3>1, <4>1, <4>2
      <4>4. QED
        BY <4>1, <4>3
    <3>5. QED
      BY <3>2, <3>3, <3>4 DEF IsCancel, Create, Cancel
  <2>8. QED
    BY <2>6, <2>7
<1>8. ASSUME \A m \in Orders : row'[m] # None => row[m] # None, log' = log, outbox' = outbox
      PROVE  /\ \A m \in Orders : row'[m] # None => Somewhere(m)'
             /\ Ordered => InLog' /\ Between' /\ Pending'
  <2>1. \A m \in Orders : Somewhere(m)' <=> Somewhere(m)
    BY <1>8 DEF Create
  <2>2. (InLog' <=> InLog) /\ (Between' <=> Between) /\ (Pending' <=> Pending)
    BY <1>8 DEF IsCancel, Create, Cancel
  <2> HIDE DEF Somewhere, InLog, Between, Pending
  <2>3. QED
    BY <1>1, <1>8, <2>1, <2>2
<1>9. ASSUME \/ \E cmd \in Messages : Fetched(cmd)
             \/ Offset
             \/ Restart
      PROVE  log' = log /\ outbox' = outbox
  BY <1>9 DEF Fetched, Offset, Restart, source
<1>10. CASE \E o \in Orders : Place(o)
  BY <1>5, <1>10
<1>11. CASE ~ \E o \in Orders : Place(o)
  <2>1. \A m \in Orders : row'[m] # None => row[m] # None
    BY <1>11, RowsAppear
  <2>2. QED
    BY <1>6, <1>7, <1>8, <1>9, <1>11, <2>1, StepIs
<1>12. QED
  BY <1>10, <1>11

-----------------------------------------------------------------------------
(* Cancelled rows *)

\* A cancelled order whose create command is still to come was not cancelled
\* by a command of the log.
LEMMA FreshCreate ==
  ASSUME Base, CancelsFollow, CancelledRows, CreatesFirst,
         NEW cmd, Fetched(cmd), cmd = Create(cmd.order), cmd.order \notin processed
  PROVE  ~ RowCancelled(cmd.order)
<1> DEFINE o == cmd.order
<1>1. o \in Orders /\ position + 1 \in 1 .. Len(log) /\ log[position + 1] = Create(o)
  BY DEF Fetched
<1> HIDE DEF o
<1>2. SUFFICES ASSUME RowCancelled(o) PROVE FALSE
  BY DEF o
<1>3. PICK i \in 1 .. position : IsCancel(log[i]) /\ log[i].order = o
  BY <1>1, <1>2 DEF CancelledRows, o
<1>4. i \in 1 .. Len(log) /\ i < position + 1
  BY <1>1, QueueFacts
<1>5. log[position + 1] # Create(log[i].order)
  BY <1>1, <1>3, <1>4 DEF CancelsFollow, CreatesFirst
<1>6. QED
  BY <1>1, <1>3, <1>5

\* Where no transaction fails, the create command comes before the cancellation.
LEMMA CreateSeen ==
  ASSUME Base, FetchedIsProcessed, CancelsFollow, Never({"reorder"}), Never({"dbfail"}),
         NEW cmd, Fetched(cmd), IsCancel(cmd)
  PROVE  cmd.order \in processed
<1> DEFINE o == cmd.order
<1>1. /\ o \in Orders /\ row[o] # None
      /\ position + 1 \in 1 .. Len(log) /\ log[position + 1] = cmd
  BY DEF Fetched
<1>2. ~ IsCreate(cmd)
  BY DEF IsCancel, IsCreate, Create, Cancel
<1>3. \A j \in 1 .. Len(log) : position + 1 < j => log[j] # Create(o)
  BY <1>1 DEF CancelsFollow
<1>4. \A j \in 1 .. Len(outbox) : outbox[j] # Create(o)
  BY <1>1 DEF CancelsFollow
<1>5. PICK k \in 1 .. Len(log) : log[k] = Create(o)
  BY <1>1, <1>4 DEF CancelsFollow
<1>6. k # position + 1
  BY <1>1, <1>2, <1>5, PlacedCommands
<1>7. k \in 1 .. position
  BY <1>3, <1>5, <1>6, QueueFacts
<1>8. IsCreate(log[k]) /\ log[k].id = o
  BY <1>1, <1>5, PlacedCommands
<1>9. QED
  BY <1>7, <1>8 DEF FetchedIsProcessed

\* The engine has seen the create command of m, or a cancellation of m and
\* will not see the log again.
Seen(m) ==
  CreatesFirst => \/ m \in processed
                  \/ /\ Never({"restart", "rebalance"})
                     /\ \E i \in 1 .. position : IsCancel(log[i]) /\ log[i].order = m

LEMMA SeenStays ==
  ASSUME Base, [Next]_vars
  PROVE  /\ CreatesFirst' <=> CreatesFirst
         /\ \A m : Seen(m) => Seen(m)'
<1> USE QueueFacts
<1>0. DataStep /\ QueueStep /\ faults' = faults /\ processed \subseteq processed'
  BY DataSteps, QueueSteps, ProcessedGrows DEF DataStep
<1>1. CreatesFirst' <=> CreatesFirst
  BY <1>0 DEF CreatesFirst, Never
<1>2. Never({"restart", "rebalance"})' <=> Never({"restart", "rebalance"})
  BY <1>0 DEF Never
<1>3. Never({"restart", "rebalance"}) => position <= position'
  <2>1. ASSUME Never({"restart", "rebalance"}), Restart
        PROVE  FALSE
    BY <2>1 DEF Restart, Never
  <2>2. ASSUME NEW cmd \in Messages, Fetched(cmd)
        PROVE  position <= position'
    BY <2>2 DEF Fetched
  <2>3. ASSUME Never({"restart", "rebalance"}),
               \/ \E o \in Orders : Place(o)
               \/ \E o \in Orders, c \in Cancels : RequestCancel(o, c)
               \/ \E i \in 1 .. Len(outbox), marked \in BOOLEAN : Publish(i, marked)
               \/ Offset
        PROVE  position' = position
    BY <2>3 DEF Place, RequestCancel, Publish, Offset, Never
  <2>4. QED
    BY <2>1, <2>2, <2>3, StepIs
<1>4. ASSUME NEW m, Seen(m)
      PROVE  Seen(m)'
  <2>1. SUFFICES ASSUME CreatesFirst, m \notin processed
                 PROVE  Seen(m)'
    BY <1>0, <1>1, <1>4 DEF Seen
  <2>2. PICK i \in 1 .. position : IsCancel(log[i]) /\ log[i].order = m
    BY <1>4, <2>1 DEF Seen
  <2>3. Never({"restart", "rebalance"})
    BY <1>4, <2>1 DEF Seen
  <2>4. i \in 1 .. position' /\ i \in 1 .. Len(log)
    <3>1. position <= position' /\ position' \in Nat
      BY <1>0, <1>3, <2>3 DEF QueueStep
    <3>2. QED
      BY <3>1
  <2>5. log'[i] = log[i]
    BY <1>0, <2>4 DEF QueueStep
  <2>6. QED
    BY <1>2, <2>2, <2>3, <2>4, <2>5 DEF Seen, IsCancel, Cancel
<1>5. QED
  BY <1>1, <1>4

LEMMA CancelledIsGone ==
  ASSUME Base, NEW o \in Orders
  PROVE  /\ RowCancelled(o) => row[o] = Gone /\ ~ IsOpen(row[o])
         /\ MemCancelled(o) => mem[o] = Gone
<1>1. /\ row[o] \in RowState \cup {None} /\ Settled(row[o])
      /\ mem[o] \in RowState \cup {None} /\ Settled(mem[o])
  BY DataFacts
<1>2. \A r \in RowState : r.status = "CANCELLED" /\ Settled(r) /\ r # None => r = Gone
  BY DEF RowState, Settled, Gone
<1>3. QED
  BY <1>1, <1>2, GoneTyped DEF RowCancelled, MemCancelled

LEMMA CancelledSteps ==
  ASSUME Base, FetchedIsProcessed, CancelsFollow, CancelledRows, [Next]_vars
  PROVE  CancelledRows'
<1> USE DataFacts
<1> DEFINE Fine(m) == RowCancelled(m) => row[m] = Gone /\ mem[m] \in {None, Gone} /\ Seen(m)
<1>0. \A m \in Orders : Fine(m)
  BY DEF CancelledRows, Seen
<1>1. SUFFICES \A m \in Orders : Fine(m)'
  BY DEF CancelledRows, Seen
<1>2. ASSUME NEW m \in Orders, row'[m] = row[m], mem'[m] = mem[m]
      PROVE  Fine(m)'
  BY <1>0, <1>2, SeenStays DEF RowCancelled
<1>3. ASSUME NEW o \in Orders, Place(o)
      PROVE  \A m \in Orders : Fine(m)'
  <2>1. mem' = mem
    BY <1>3 DEF Place, memory
  <2>2. row'[o].status # "CANCELLED" /\ \A m \in Orders \ {o} : row'[m] = row[m]
    BY <1>3, PlaceEffect
  <2>3. QED
    BY <1>2, <2>1, <2>2 DEF RowCancelled
<1>4. ASSUME NEW cmd \in Messages, NEW first \in BOOLEAN,
             Fetched(cmd), MatchStored(cmd, Fill(cmd.order, first))
      PROVE  \A m \in Orders : Fine(m)'
  <2> DEFINE o == cmd.order
  <2>1. PICK part, result : MatchOf(o, part, result)
    BY <1>4, MatchEffects
  <2> HIDE DEF o
  <2>2. ASSUME NEW m \in Orders
        PROVE  Fine(m)'
    <3>1. row'[m] = IF m \in part THEN result[m] ELSE row[m]
      BY <2>1 DEF MatchOf
    <3>2. mem'[m] = (IF m \in part THEN result[m] ELSE mem[m]) \/ mem'[m] = mem[m]
      BY <2>1 DEF MatchOf
    <3>3. CASE m \notin part
      BY <1>2, <3>1, <3>2, <3>3
    <3>4. CASE m = o
      BY <2>1, <3>1, <3>4 DEF MatchOf, RowCancelled
    <3>5. CASE m \in part \ {o}
      <4>1. SUFFICES ASSUME RowCancelled(m)'
                     PROVE  row'[m] = Gone /\ mem'[m] \in {None, Gone} /\ Seen(m)'
        OBVIOUS
      <4>2. result[m].status = "CANCELLED"
        BY <3>1, <3>5, <4>1 DEF RowCancelled
      <4>3. MemCancelled(m) /\ result[m] = Gone /\ replaced[m] # 0
        BY <2>1, <3>5, <4>2 DEF MatchOf
      <4>4. row'[m] = Gone /\ mem'[m] = Gone
        BY <3>1, <3>2, <3>5, <4>3, CancelledIsGone
      <4>5. m \in processed
        BY <4>3
      <4>6. Seen(m)
        BY <4>5 DEF Seen
      <4>7. QED
        BY <4>4, <4>6, SeenStays
    <3>6. QED
      BY <3>3, <3>4, <3>5
  <2>3. QED
    BY <2>2
<1>5. ASSUME NEW cmd \in Messages, Fetched(cmd), CancelStored(cmd)
      PROVE  \A m \in Orders : Fine(m)'
  <2> DEFINE o == cmd.order
  <2>1. \A m \in Orders : /\ row'[m] = IF m = o /\ IsOpen(row[m]) THEN Gone ELSE row[m]
                          /\ mem'[m] = IF m = o /\ IsOpen(row[m]) /\ mem[m] # None
                                         THEN Gone ELSE mem[m]
    BY <1>5, CancelEffect DEF CancelStored
  <2>2. Seen(o)'
    <3>1. SUFFICES ASSUME CreatesFirst PROVE Seen(o)'
      BY SeenStays DEF Seen
    <3>2. CASE Never({"restart", "rebalance"})
      <4>1. /\ position' = position + 1 /\ position + 1 \in 1 .. Len(log)
            /\ log' = log /\ faults' = faults /\ cmd = log[position + 1]
        BY <1>5 DEF Fetched, source
      <4>2. IsCancel(cmd)
        BY <1>5 DEF CancelStored
      <4>3. position + 1 \in 1 .. position'
        BY <4>1
      <4>4. QED
        BY <3>2, <4>1, <4>2, <4>3 DEF Seen, IsCancel, Cancel, Never
    <3>3. CASE ~ Never({"restart", "rebalance"})
      <4>1. o \in processed
        BY <1>5, <3>1, <3>3, CreateSeen DEF CreatesFirst, CancelStored
      <4>2. Seen(o)
        BY <4>1 DEF Seen
      <4>3. QED
        BY <4>2, SeenStays
    <3>4. QED
      BY <3>2, <3>3
  <2> HIDE DEF o
  <2>3. ASSUME NEW m \in Orders
        PROVE  Fine(m)'
    <3>1. CASE m = o /\ IsOpen(row[m])
      BY <2>1, <2>2, <3>1
    <3>2. CASE ~ (m = o /\ IsOpen(row[m]))
      BY <1>2, <2>1, <3>2
    <3>3. QED
      BY <3>1, <3>2
  <2>4. QED
    BY <2>3
<1>6. ASSUME NEW cmd \in Messages, Fetched(cmd), CancelUnstored(cmd)
      PROVE  \A m \in Orders : Fine(m)'
  <2>1. row' = row
    BY <1>6 DEF CancelUnstored, database
  <2>2. \A m \in Orders : mem'[m] = IF m = cmd.order /\ IsOpen(row[m]) /\ mem[m] # None
                                      THEN Gone ELSE mem[m]
    BY <1>6, CancelEffect DEF CancelUnstored
  <2>3. ASSUME NEW m \in Orders
        PROVE  Fine(m)'
    BY <1>0, <2>1, <2>2, SeenStays DEF RowCancelled
  <2>4. QED
    BY <2>3
<1>7. ASSUME Restart
      PROVE  \A m \in Orders : Fine(m)'
  <2>1. row' = row /\ \A m \in Orders : mem'[m] = IF IsOpen(row[m]) THEN row[m] ELSE None
    BY <1>7, RestartEffect DEF database
  <2>2. ASSUME NEW m \in Orders
        PROVE  Fine(m)'
    BY <1>0, <2>1, SeenStays, CancelledIsGone DEF RowCancelled
  <2>3. QED
    BY <2>2
<1>8. ASSUME \/ \E o \in Orders, c \in Cancels : RequestCancel(o, c)
             \/ \E i \in 1 .. Len(outbox), marked \in BOOLEAN : Publish(i, marked)
             \/ \E cmd \in Messages : Unstored(cmd)
             \/ Offset
      PROVE  \A m \in Orders : Fine(m)'
  <2>1. row' = row /\ mem' = mem
    BY <1>8 DEF RequestCancel, Publish, Offset, Unstored, database, memory
  <2>2. QED
    BY <1>2, <2>1
<1>9. QED
  BY <1>3, <1>4, <1>5, <1>6, <1>7, <1>8, StepIs

\* A stored cancellation is not taken back by a step.
LEMMA StaysCancelled ==
  ASSUME Base, CancelsFollow, CancelledRows, CreatesFirst, [Next]_vars,
         NEW o \in Orders, RowCancelled(o)
  PROVE  row'[o] = row[o]
<1>1. /\ row[o] = Gone /\ mem[o] \in {None, Gone} /\ ~ IsOpen(row[o]) /\ row[o] # None
  BY CancelledIsGone DEF CancelledRows, RowCancelled
<1>2. ASSUME NEW p \in Orders, Place(p)
      PROVE  row'[o] = row[o]
  BY <1>1, <1>2, PlaceEffect
<1>3. ASSUME NEW cmd \in Messages, NEW first \in BOOLEAN,
             Fetched(cmd), MatchStored(cmd, Fill(cmd.order, first))
      PROVE  row'[o] = row[o]
  <2> DEFINE p == cmd.order
  <2>1. PICK part, result : MatchOf(p, part, result)
    BY <1>3, MatchEffects
  <2>2. o # p
    BY <1>3, FreshCreate DEF MatchStored
  <2> HIDE DEF p
  <2>3. row'[o] = IF o \in part THEN result[o] ELSE row[o]
    BY <2>1 DEF MatchOf
  <2>4. ASSUME o \in part
        PROVE  result[o] = Gone
    <3>1. mem[o] # None
      BY <2>1, <2>2, <2>4 DEF MatchOf
    <3>2. MemCancelled(o)
      BY <1>1, <3>1 DEF MemCancelled, Gone
    <3>3. QED
      BY <2>1, <2>2, <2>4, <3>2 DEF MatchOf
  <2>5. QED
    BY <1>1, <2>3, <2>4
<1>4. ASSUME NEW cmd \in Messages, Fetched(cmd), CancelStored(cmd)
      PROVE  row'[o] = row[o]
  BY <1>1, <1>4, CancelEffect DEF CancelStored
<1>5. ASSUME \/ \E p \in Orders, c \in Cancels : RequestCancel(p, c)
             \/ \E i \in 1 .. Len(outbox), marked \in BOOLEAN : Publish(i, marked)
             \/ \E cmd \in Messages : Unstored(cmd) \/ CancelUnstored(cmd)
             \/ Offset
             \/ Restart
      PROVE  row'[o] = row[o]
  BY <1>5 DEF RequestCancel, Publish, Offset, Unstored, CancelUnstored, Restart, database
<1>6. QED
  BY <1>2, <1>3, <1>4, <1>5, StepIs

LEMMA OnceSteps ==
  ASSUME Base, CancelsFollow, CancelledRows, CancelledOnce, [Next]_vars
  PROVE  CancelledOnce'
<1> USE DataFacts
<1>0. DataStep /\ faults' = faults /\ (CreatesFirst' <=> CreatesFirst)
  BY DataSteps, SeenStays DEF DataStep
<1>1. (Never({"cancelfail"}))' <=> Never({"cancelfail"})
  BY <1>0 DEF Never
<1> DEFINE Fine(m) == /\ MemCancelled(m) => RowCancelled(m)
                      /\ cancelled[m] = IF RowCancelled(m) THEN 1 ELSE 0
<1>2. SUFFICES ASSUME CreatesFirst, Never({"cancelfail"})
               PROVE  \A m \in Orders : Fine(m)'
  <2>1. ASSUME \A m \in Orders : Fine(m)'
        PROVE  \A m \in Orders :
                 /\ (MemCancelled(m) => RowCancelled(m))'
                 /\ cancelled'[m] = IF row'[m] # None /\ row'[m].status = "CANCELLED" THEN 1 ELSE 0
    BY <2>1 DEF RowCancelled
  <2>2. QED
    BY <1>0, <1>1, <2>1 DEF CancelledOnce, OneCancelEvent
<1>3. \A m \in Orders : Fine(m)
  BY <1>2 DEF CancelledOnce, OneCancelEvent, RowCancelled
<1>4. ASSUME NEW m \in Orders, row'[m] = row[m], mem'[m] = mem[m], cancelled'[m] = cancelled[m]
      PROVE  Fine(m)'
  BY <1>3, <1>4 DEF RowCancelled, MemCancelled
<1>5. ASSUME NEW o \in Orders, Place(o)
      PROVE  \A m \in Orders : Fine(m)'
  <2>1. mem' = mem /\ cancelled' = cancelled
    BY <1>5 DEF Place, memory
  <2>2. /\ row[o] = None /\ row'[o].status # "CANCELLED"
        /\ \A m \in Orders \ {o} : row'[m] = row[m]
    BY <1>5, PlaceEffect
  <2>3. Fine(o)'
    BY <1>3, <2>1, <2>2 DEF RowCancelled, MemCancelled
  <2>4. QED
    BY <1>4, <2>1, <2>2, <2>3
<1>6. ASSUME NEW cmd \in Messages, NEW first \in BOOLEAN,
             Fetched(cmd), MatchStored(cmd, Fill(cmd.order, first))
      PROVE  \A m \in Orders : Fine(m)'
  <2> DEFINE o == cmd.order
  <2>1. PICK part, result : MatchOf(o, part, result)
    BY <1>6, MatchEffects
  <2>2. ~ RowCancelled(o)
    BY <1>2, <1>6, FreshCreate DEF MatchStored
  <2> HIDE DEF o
  <2>3. ASSUME NEW m \in Orders
        PROVE  Fine(m)'
    <3>1. row'[m] = IF m \in part THEN result[m] ELSE row[m]
      BY <2>1 DEF MatchOf
    <3>2. mem'[m] = (IF m \in part THEN result[m] ELSE mem[m]) \/ mem'[m] = mem[m]
      BY <2>1 DEF MatchOf
    <3>3. cancelled' = cancelled
      BY <2>1 DEF MatchOf
    <3>4. CASE m \notin part
      BY <1>4, <3>1, <3>2, <3>3, <3>4
    <3>5. CASE m = o
      <4>1. /\ result[o].status # "CANCELLED" /\ row'[o] = result[o]
            /\ mem'[o] = result[o] \/ mem'[o] = mem[o]
        BY <2>1, <3>1, <3>2, <3>5 DEF MatchOf
      <4>2. ~ MemCancelled(o) /\ cancelled[o] = 0
        BY <1>3, <2>2, <3>5
      <4>3. QED
        BY <3>3, <3>5, <4>1, <4>2 DEF RowCancelled, MemCancelled
    <3>6. CASE m \in part \ {o}
      <4>1. /\ result[m] # None /\ row'[m] = result[m]
            /\ result[m].status = "CANCELLED" <=> MemCancelled(m)
            /\ mem[m] # None
            /\ mem'[m] = result[m] \/ mem'[m] = mem[m]
        BY <2>1, <3>1, <3>2, <3>6 DEF MatchOf
      <4>2. RowCancelled(m) => MemCancelled(m)
        BY <4>1 DEF CancelledRows, MemCancelled, Gone
      <4>3. RowCancelled(m)' <=> RowCancelled(m)
        BY <1>3, <4>1, <4>2 DEF RowCancelled
      <4>4. MemCancelled(m)' => RowCancelled(m)'
        BY <4>1 DEF RowCancelled, MemCancelled
      <4>5. QED
        BY <1>3, <3>3, <4>3, <4>4
    <3>7. QED
      BY <3>4, <3>5, <3>6
  <2>4. QED
    BY <2>3
<1>7. ASSUME NEW cmd \in Messages, Fetched(cmd), CancelStored(cmd)
      PROVE  \A m \in Orders : Fine(m)'
  <2>1. \A m \in Orders : /\ row'[m] = IF m = cmd.order /\ IsOpen(row[m]) THEN Gone ELSE row[m]
                          /\ cancelled'[m] = IF m = cmd.order /\ IsOpen(row[m])
                                               THEN cancelled[m] + 1 ELSE cancelled[m]
                          /\ mem'[m] = IF m = cmd.order /\ IsOpen(row[m]) /\ mem[m] # None
                                         THEN Gone ELSE mem[m]
    BY <1>7, CancelEffect DEF CancelStored
  <2>2. ASSUME NEW m \in Orders
        PROVE  Fine(m)'
    <3>1. CASE m = cmd.order /\ IsOpen(row[m])
      <4>1. ~ RowCancelled(m) /\ row'[m] = Gone
        BY <2>1, <3>1, CancelledIsGone
      <4>2. RowCancelled(m)'
        BY <4>1, GoneTyped DEF RowCancelled, Gone
      <4>3. cancelled'[m] = 1
        BY <1>3, <2>1, <3>1, <4>1
      <4>4. QED
        BY <4>2, <4>3
    <3>2. CASE ~ (m = cmd.order /\ IsOpen(row[m]))
      BY <1>4, <2>1, <3>2
    <3>3. QED
      BY <3>1, <3>2
  <2>3. QED
    BY <2>2
<1>8. ASSUME NEW cmd \in Messages, CancelUnstored(cmd)
      PROVE  FALSE
  BY <1>2, <1>8 DEF CancelUnstored, Never
<1>9. ASSUME Restart
      PROVE  \A m \in Orders : Fine(m)'
  <2>1. /\ row' = row /\ cancelled' = cancelled
        /\ \A m \in Orders : mem'[m] = IF IsOpen(row[m]) THEN row[m] ELSE None
    BY <1>9, RestartEffect DEF database
  <2>2. QED
    BY <1>3, <2>1 DEF RowCancelled, MemCancelled
<1>10. ASSUME \/ \E o \in Orders, c \in Cancels : RequestCancel(o, c)
              \/ \E i \in 1 .. Len(outbox), marked \in BOOLEAN : Publish(i, marked)
              \/ \E cmd \in Messages : Unstored(cmd)
              \/ Offset
       PROVE  \A m \in Orders : Fine(m)'
  <2>1. row' = row /\ mem' = mem /\ cancelled' = cancelled
    BY <1>10 DEF RequestCancel, Publish, Offset, Unstored, database, memory
  <2>2. QED
    BY <1>4, <2>1
<1>11. QED
  BY <1>5, <1>6, <1>7, <1>8, <1>9, <1>10, StepIs

-----------------------------------------------------------------------------
(* The theorems *)

LEMMA InitIInv == Init => IInv
<1> SUFFICES ASSUME Init PROVE IInv
  OBVIOUS
<1> USE DEF Init
<1>1. terms \in [Orders -> Terms] /\ faults \subseteq AllFaults
  BY PortfoliosAssumption, FaultsAssumption
<1>2. Len(log) = 0 /\ Len(outbox) = 0 /\ log \in Seq(Command) /\ outbox \in Seq(Command)
  BY EmptySeq
<1>3. TypeOK
  <2>1. position \in 0 .. Len(log) /\ committed \in 0 .. position
    BY <1>2
  <2>2. ack \in BOOLEAN
    OBVIOUS
  <2>3. QED
    BY <1>1, <1>2, <2>1, <2>2 DEF TypeOK
<1>4. Sound
  BY <1>2 DEF Sound, Settled
<1>5. BookFollowsRows
  BY DEF BookFollowsRows
<1>6. FetchedIsProcessed
  BY <1>2 DEF FetchedIsProcessed
<1>7. CancelsFollow
  BY <1>2 DEF CancelsFollow
<1>8. CancelledRows
  BY DEF CancelledRows, RowCancelled
<1>9. CancelledOnce
  BY DEF CancelledOnce, OneCancelEvent, MemCancelled
<1>10. QED
  BY <1>3, <1>4, <1>5, <1>6, <1>7, <1>8, <1>9 DEF IInv, Base

LEMMA NextIInv == IInv /\ [Next]_vars => IInv'
  BY BaseSteps, BookSteps, FetchSteps, FollowSteps, CancelledSteps, OnceSteps DEF IInv

LEMMA EngineInductive == Spec => []IInv
  BY InitIInv, NextIInv, PTL DEF Spec

\* Quantities stay natural numbers: no match takes more than an entry has or the
\* incoming order wants, whichever objects the heaps hold (ProcessOrder).
THEOREM EngineTypes == Spec => []TypeOK
<1>1. IInv => TypeOK
  BY DEF IInv, Base
<1> QED
  BY <1>1, EngineInductive, PTL

\* The book holds the processed open orders with what their rows have left, and
\* nothing else, until the engine restarts: RestoreSymbol undoes every failed
\* match.  A misreported commit or a cancellation that fails late parts memory and
\* rows for the orders of that command alone.
THEOREM BookIsRows == Spec => []BookIsOpenRows
<1>1. IInv => BookIsOpenRows
  <2>1. ASSUME IInv, Never({"restart"}), NEW o \in Orders
        PROVE  replaced[o] = 0
    BY <2>1 DEF IInv, BookFollowsRows
  <2>2. ASSUME IInv, Never({"restart"}), NEW o \in Orders \ doubted
        PROVE  Left(<<o, "current">>) = IF o \in processed /\ IsOpen(row[o]) THEN row[o].left
                                        ELSE 0
    <3>1. mem[o] = IF o \in processed THEN row[o] ELSE None
      BY <2>2 DEF IInv, BookFollowsRows
    <3>2. Base
      BY <2>2 DEF IInv
    <3>3. /\ row[o] # None => /\ row[o].left \in Nat /\ row[o].status \in Statuses
          /\ o \in processed => row[o] # None
          /\ Settled(row[o])
      BY <3>2, DataFacts DEF RowState
    <3>4. Left(<<o, "current">>) = IF mem[o] = None THEN 0 ELSE mem[o].left
      BY DEF Left
    <3>5. CASE o \notin processed
      BY <3>1, <3>4, <3>5
    <3>6. CASE o \in processed
      <4>1. row[o] # None /\ Left(<<o, "current">>) = row[o].left
        BY <3>1, <3>3, <3>4, <3>6
      <4>2. ~ IsOpen(row[o]) => row[o].left = 0
        BY <3>3, <4>1 DEF IsOpen, Settled, Statuses
      <4>3. QED
        BY <3>6, <4>1, <4>2
    <3>7. QED
      BY <3>5, <3>6
  <2>3. QED
    BY <2>1, <2>2 DEF BookIsOpenRows
<1> QED
  BY <1>1, EngineInductive, PTL

\* A processed open order can be matched, restarts included (RestoreOrders),
\* unless a command that parts memory and rows has touched it since.
THEOREM OpenOrdersInBook == Spec => []OpenOrdersKept
<1>1. IInv => OpenOrdersKept
  <2> SUFFICES ASSUME IInv, NEW o \in (processed \cap Orders) \ doubted, IsOpen(row[o])
               PROVE  Left(<<o, "current">>) > 0
    BY DEF OpenOrdersKept
  <2>1. mem[o] = row[o] /\ row[o] # None /\ row[o].left > 0
    BY DEF IInv, BookFollowsRows, IsOpen
  <2>2. QED
    BY <2>1 DEF Left
<1> QED
  BY <1>1, EngineInductive, PTL

\* The committed offset passes no command without effect, unless its handling has
\* returned an error: then the loop of consumeOrders goes on to the next one.
THEOREM NoCommandLost == Spec => []NoCommandLostUnlessFailed
<1>1. IInv => NoCommandLostUnlessFailed
  <2> SUFFICES ASSUME IInv, NEW i \in 1 .. committed
               PROVE  log[i].id \in processed \cup failed
    BY DEF NoCommandLostUnlessFailed
  <2>1. Base
    BY DEF IInv
  <2>2. i \in 1 .. position
    BY <2>1, QueueFacts
  <2>3. QED
    BY <2>2 DEF IInv, FetchedIsProcessed
<1> QED
  BY <1>1, EngineInductive, PTL

\* Every cancelled row has one ORDER_CANCELLED event and no other row has one
\* (PersistCancelledOrderTx), where create commands come first.
THEOREM OneEventPerCancel == Spec => []OneCancelEvent
<1>1. IInv => OneCancelEvent
  BY DEF IInv, CancelledOnce
<1> QED
  BY <1>1, EngineInductive, PTL

\* Trades and cancellations are stored together with the id of a command that
\* was not stored before (MarkEventProcessed in the same transaction).
THEOREM EffectsOnce == Spec => EffectOnce
<1>1. IInv /\ [Next]_vars =>
        [<<traded, cancelled>>' # <<traded, cancelled>>
           => \E cmd \in Messages : cmd.id \notin processed
                                   /\ processed' = processed \cup {cmd.id}]_vars
  <2> SUFFICES ASSUME IInv, [Next]_vars, <<traded, cancelled>>' # <<traded, cancelled>>
               PROVE  \E cmd \in Messages : cmd.id \notin processed
                                           /\ processed' = processed \cup {cmd.id}
    OBVIOUS
  <2>0. Base
    BY DEF IInv
  <2>1. ASSUME NEW cmd \in Messages, NEW first \in BOOLEAN,
               MatchStored(cmd, Fill(cmd.order, first))
        PROVE  cmd.id \notin processed /\ processed' = processed \cup {cmd.id}
    BY <2>1 DEF MatchStored, StoreMatch
  <2>2. ASSUME NEW cmd \in Messages, CancelStored(cmd)
        PROVE  cmd.id \notin processed /\ processed' = processed \cup {cmd.id}
    BY <2>2 DEF CancelStored, StoreCancel
  <2>3. ASSUME \/ \E o \in Orders : Place(o)
               \/ \E o \in Orders, c \in Cancels : RequestCancel(o, c)
               \/ \E i \in 1 .. Len(outbox), marked \in BOOLEAN : Publish(i, marked)
               \/ \E cmd \in Messages : Unstored(cmd) \/ CancelUnstored(cmd)
               \/ Offset
               \/ Restart
        PROVE  FALSE
    BY <2>3 DEF Place, RequestCancel, Publish, Unstored, CancelUnstored, Offset, Restart, database
  <2>4. QED
    BY <2>0, <2>1, <2>2, <2>3, StepIs
<1> QED
  BY <1>1, EngineInductive, PTL DEF Spec, EffectOnce

\* A cancelled row stays as it is: no later match, duplicate or restart revives
\* or fills it, where create commands come first.
THEOREM CancellationsLast == Spec => CancelledStays
<1>1. IInv /\ [Next]_vars =>
        [CreatesFirst => \A o \in Orders : row[o] # None /\ row[o].status = "CANCELLED"
                           => row'[o] = row[o]]_vars
  <2> SUFFICES ASSUME IInv, [Next]_vars, CreatesFirst, NEW o \in Orders,
                      row[o] # None, row[o].status = "CANCELLED"
               PROVE  row'[o] = row[o]
    OBVIOUS
  <2>1. RowCancelled(o)
    BY DEF RowCancelled
  <2>2. QED
    BY <2>1, StaysCancelled DEF IInv
<1> QED
  BY <1>1, EngineInductive, PTL DEF Spec, CancelledStays

-----------------------------------------------------------------------------
(* The stored rows implement Exchange *)

\* What breaks the correspondence of book and rows does not happen.
Quiet == Never({"restart", "unknown", "cancelfail"})

\* An open row has something left, and an order has traded nothing before its
\* create command took effect.
RowsLive ==
  /\ \A m \in Orders : row[m] # None /\ row[m].status \in {"NEW", "PARTIALLY_FILLED"}
                         => row[m].left > 0
  /\ Quiet => \A m \in Orders : m \notin processed => traded[m] = 0

RefInv == IInv /\ RowsLive

LEMMA QuietFacts ==
  ASSUME RefInv
  PROVE  /\ Base /\ terms \in Portfolios
         /\ Quiet => \A m \in Orders : /\ replaced[m] = 0
                                       /\ mem[m] = IF m \in processed THEN row[m] ELSE None
         /\ \A m \in Orders :
              /\ LimitOrder(terms[m]) # None
              /\ terms[m].qty \in Nat \ {0}
              /\ m \in processed => row[m] # None
              /\ row[m] # None => /\ row[m].left \in Nat /\ row[m].status \in Statuses
                                  /\ row[m].left > 0
                                       <=> row[m].status \in {"NEW", "PARTIALLY_FILLED"}
<1>1. Base /\ terms \in Portfolios
  BY DEF RefInv, IInv, Base, Sound
<1>2. Quiet => \A m \in Orders : /\ replaced[m] = 0
                                 /\ mem[m] = IF m \in processed THEN row[m] ELSE None
  BY DEF RefInv, IInv, BookFollowsRows, Quiet, Never
<1>3. ASSUME NEW m \in Orders
      PROVE  /\ LimitOrder(terms[m]) # None
             /\ terms[m].qty \in Nat \ {0}
             /\ m \in processed => row[m] # None
             /\ row[m] # None => /\ row[m].left \in Nat /\ row[m].status \in Statuses
                                 /\ row[m].left > 0
                                      <=> row[m].status \in {"NEW", "PARTIALLY_FILLED"}
  <2>1. LimitOrder(terms[m]) # None
    BY <1>1, NoneAssumption
  <2>2. terms[m].qty \in Nat \ {0}
    BY <1>1, TermsOf
  <2>3. /\ m \in processed => row[m] # None
        /\ row[m] # None => row[m].left \in Nat /\ row[m].status \in Statuses
        /\ Settled(row[m])
    BY <1>1, DataFacts DEF RowState
  <2>4. row[m] # None /\ row[m].status \in {"NEW", "PARTIALLY_FILLED"} => row[m].left > 0
    BY DEF RefInv, RowsLive
  <2>5. QED
    BY <2>1, <2>2, <2>3, <2>4 DEF Settled, Statuses
<1>4. QED
  BY <1>1, <1>2, <1>3

LEMMA InitRows == Init => RowsLive
BY DEF Init, RowsLive

\* What a match stores in the rows.
LEMMA StoredRows ==
  ASSUME Base, NEW cmd, Fetched(cmd), NEW first \in BOOLEAN, NEW fill,
         fill = Fill(cmd.order, first), MatchStored(cmd, fill)
  PROVE  /\ cmd.order \in Orders /\ cmd.order \notin processed
         /\ processed' = processed \cup {cmd.order}
         /\ terms' = terms
         /\ MatchFacts(cmd.order, fill)
         /\ \A m \in Orders :
              /\ row'[m] = IF m \in Changed(cmd.order, fill) THEN Matched(cmd.order, fill)[m]
                           ELSE row[m]
              /\ traded'[m] = IF m = cmd.order THEN traded[m] + Total(fill)
                              ELSE traded[m] + Taken(m, fill)
<1>1. cmd.order \in Orders /\ terms' = terms
  BY DEF Fetched, source
<1>2. MatchFacts(cmd.order, fill)
  BY <1>1, MatchEffect
<1>3. QED
  BY <1>1, <1>2 DEF MatchStored, StoreMatch

LEMMA RowsSteps ==
  ASSUME RefInv, [Next]_vars
  PROVE  RowsLive'
<1>1. Base /\ terms \in Portfolios
  BY QuietFacts
<1>2. Quiet' <=> Quiet
  BY <1>1, DataSteps, NeverStays DEF Quiet
<1>3. ASSUME UNCHANGED <<row, traded, processed>>
      PROVE  RowsLive'
  BY <1>2, <1>3 DEF RefInv, RowsLive
<1>4. ASSUME NEW o \in Orders, Place(o)
      PROVE  RowsLive'
  <2>1. /\ row' = [row EXCEPT ![o] = [left |-> terms[o].qty, status |-> "NEW"]]
        /\ UNCHANGED <<traded, processed>>
    BY <1>4 DEF Place
  <2>2. row \in [Orders -> RowState \cup {None}] /\ terms[o].qty > 0
    BY <1>1, DataFacts, QuietFacts
  <2>3. QED
    BY <1>2, <2>1, <2>2 DEF RefInv, RowsLive
<1>5. ASSUME NEW cmd \in Messages, Fetched(cmd), CancelStored(cmd)
      PROVE  RowsLive'
  <2>1. /\ row' \in {row, [row EXCEPT ![cmd.order] = Gone]}
        /\ traded' = traded /\ processed \subseteq processed'
    BY <1>5 DEF CancelStored, StoreCancel, Gone
  <2>2. row \in [Orders -> RowState \cup {None}]
    BY <1>1, DataFacts
  <2>3. Gone.status = "CANCELLED"
    BY DEF Gone
  <2>4. QED
    BY <1>2, <2>1, <2>2, <2>3 DEF RefInv, RowsLive
<1>6. ASSUME NEW cmd \in Messages, NEW first \in BOOLEAN, Fetched(cmd),
             MatchStored(cmd, Fill(cmd.order, first))
      PROVE  RowsLive'
  <2> DEFINE o == cmd.order
  <2>1. PICK fill : fill = Fill(o, first)
    OBVIOUS
  <2>2. /\ o \in Orders /\ o \notin processed /\ processed' = processed \cup {o}
        /\ MatchFacts(o, fill)
        /\ \A m \in Orders :
             /\ row'[m] = IF m \in Changed(o, fill) THEN Matched(o, fill)[m] ELSE row[m]
             /\ traded'[m] = IF m = o THEN traded[m] + Total(fill)
                             ELSE traded[m] + Taken(m, fill)
    BY <1>1, <1>6, <2>1, StoredRows
  <2> HIDE DEF o
  <2>3. ASSUME NEW m \in Orders, row'[m] # None, row'[m].status \in {"NEW", "PARTIALLY_FILLED"}
        PROVE  row'[m].left > 0
    <3>1. CASE m \notin Changed(o, fill)
      <4>1. row'[m] = row[m]
        BY <2>2, <3>1
      <4>2. QED
        BY <2>3, <4>1 DEF RefInv, RowsLive
    <3>2. CASE m \in Changed(o, fill)
      <4>1. Matched(o, fill)[m] \in RowState
        BY <2>2, <3>2 DEF MatchFacts
      <4>2. \E old : Matched(o, fill)[m].status =
                       StatusAfter(old, Matched(o, fill)[m].left, terms[m].qty)
        BY <3>2 DEF Matched
      <4>3. row'[m] = Matched(o, fill)[m]
        BY <2>2, <3>2
      <4>4. QED
        BY <2>3, <4>1, <4>2, <4>3 DEF RowState, StatusAfter
    <3>3. QED
      BY <3>1, <3>2
  <2>4. ASSUME Quiet, NEW m \in Orders, m \notin processed'
        PROVE  traded'[m] = 0
    <3>1. m # o /\ m \notin processed
      BY <2>2, <2>4
    <3>2. mem[m] = None /\ traded[m] = 0
      BY <2>4, <3>1, QuietFacts DEF RefInv, RowsLive
    <3>3. m \notin Changed(o, fill)
      BY <2>2, <3>1, <3>2 DEF MatchFacts
    <3>4. Taken(m, fill) = 0
      BY <2>2, <3>3 DEF MatchFacts, Taken
    <3>5. QED
      BY <2>2, <3>1, <3>2, <3>4
  <2>5. QED
    BY <1>2, <2>3, <2>4 DEF RowsLive
<1>7. ASSUME \/ \E o \in Orders, c \in Cancels : RequestCancel(o, c)
             \/ \E i \in 1 .. Len(outbox), marked \in BOOLEAN : Publish(i, marked)
             \/ \E cmd \in Messages : Unstored(cmd) \/ CancelUnstored(cmd)
             \/ Offset
             \/ Restart
      PROVE  UNCHANGED <<row, traded, processed>>
  BY <1>7 DEF RequestCancel, Publish, Unstored, CancelUnstored, Offset, Restart, database
<1>8. QED
  BY <1>1, <1>3, <1>4, <1>5, <1>6, <1>7, StepIs

\* The exchange sees the book that the engine has.
LEMMA SameBook ==
  ASSUME RefInv, Quiet, NEW o \in Orders
  PROVE  /\ Candidates(o) = {<<m, "current">> : m \in Rows!Resting(LimitOrder(terms[o]))}
         /\ Rows!Resting(LimitOrder(terms[o])) \subseteq Orders
         /\ \A m \in Rows!Resting(LimitOrder(terms[o])) :
              m \in processed /\ acceptedOrders[m] = LimitOrder(terms[m])
<1> DEFINE order == LimitOrder(terms[o])
           book  == Rows!Resting(order)
<1>1. ASSUME NEW m \in Orders
      PROVE  /\ Left(<<m, "replaced">>) = 0
             /\ Left(<<m, "current">>) > 0 <=> Rows!Open(m)
             /\ Rows!Open(m) => m \in processed /\ acceptedOrders[m] = LimitOrder(terms[m])
  <2>1. Left(<<m, "replaced">>) = 0
    BY QuietFacts DEF Left
  <2>2. CASE m \notin processed
    <3>1. acceptedOrders[m] = None /\ mem[m] = None
      BY <2>2, QuietFacts DEF acceptedOrders
    <3>2. QED
      BY <2>1, <3>1 DEF Left, Rows!Open
  <2>3. CASE m \in processed
    <3>1. /\ acceptedOrders[m] = LimitOrder(terms[m]) /\ acceptedOrders[m] # None
          /\ acceptedStatus[m] = row[m].status
      BY <2>3, QuietFacts DEF acceptedOrders, acceptedStatus
    <3>2. /\ mem[m] = row[m] /\ row[m] # None
          /\ row[m].left > 0 <=> row[m].status \in {"NEW", "PARTIALLY_FILLED"}
      BY <2>3, QuietFacts
    <3>3. QED
      BY <2>1, <2>3, <3>1, <3>2 DEF Left, Rows!Open
  <2>4. QED
    BY <2>2, <2>3
<1>2. /\ order.type = "LIMIT" /\ order.side = terms[o].side /\ order.price = terms[o].price
      /\ \A m \in Orders : /\ LimitOrder(terms[m]).side = terms[m].side
                           /\ LimitOrder(terms[m]).price = terms[m].price
  BY DEF LimitOrder
<1>3. ASSUME NEW m \in Orders
      PROVE  m \in book <=> <<m, "current">> \in Candidates(o)
  <2>1. <<m, "current">> \in Entries
    BY DEF Entries
  <2>2. m \in book <=> /\ Rows!Open(m)
                       /\ terms[m].side # terms[o].side
                       /\ \/ terms[o].side = "BUY" /\ terms[o].price >= terms[m].price
                          \/ terms[o].side = "SELL" /\ terms[o].price <= terms[m].price
    BY <1>1, <1>2 DEF Rows!Resting
  <2>3. QED
    BY <1>1, <2>1, <2>2 DEF Candidates
<1>4. ASSUME NEW e \in Candidates(o)
      PROVE  \E m \in Orders : e = <<m, "current">>
  <2>1. e \in Entries /\ Left(e) > 0
    BY DEF Candidates
  <2>2. PICK m \in Orders, k \in {"current", "replaced"} : e = <<m, k>>
    BY <2>1 DEF Entries
  <2>3. Left(<<m, "replaced">>) = 0
    BY <1>1
  <2>4. k # "replaced"
    BY <2>1, <2>2, <2>3
  <2>5. QED
    BY <2>2, <2>4
<1>5. book \subseteq Orders
  BY DEF Rows!Resting
<1>6. \A m \in book : Rows!Open(m)
  BY DEF Rows!Resting
<1> HIDE DEF book
<1>7. Candidates(o) = {<<m, "current">> : m \in book}
  BY <1>3, <1>4, <1>5
<1>8. QED
  BY <1>1, <1>5, <1>6, <1>7 DEF book

LEMMA SameSum ==
  ASSUME NEW f, NEW S
  PROVE  Rows!SumFunctionOnSet(f, S) = SumFunctionOnSet(f, S)
BY DEF Rows!SumFunctionOnSet, Rows!FoldFunctionOnSet, Rows!MapThenFoldSet,
       SumFunctionOnSet, FoldFunctionOnSet, MapThenFoldSet

\* What the orders give, whichever entry of the heap they give it from.
Given(fill) == [m \in Orders |-> fill[<<m, "current">>]]

\* What a match takes is what price-time priority gives.
LEMMA FillIsFair ==
  ASSUME RefInv, Quiet, NEW o \in Orders, NEW first \in BOOLEAN, NEW fill, fill = Fill(o, first)
  PROVE  /\ Given(fill) \in [Orders -> 0 .. LimitOrder(terms[o]).qty]
         /\ Rows!FairFill(LimitOrder(terms[o]), Given(fill))
         /\ Rows!SumFunctionOnSet(Given(fill), Rows!Resting(LimitOrder(terms[o]))) = Total(fill)
         /\ \A m \in Orders : Taken(m, fill) = Given(fill)[m]
<1> DEFINE order == LimitOrder(terms[o])
           book  == Rows!Resting(order)
           B     == Candidates(o)
           given == Given(fill)
<1>1. Base /\ TypeOK /\ terms \in Portfolios
  BY QuietFacts DEF Base
<1>2. /\ B = {<<m, "current">> : m \in book} /\ book \subseteq Orders
      /\ \A m \in book : m \in processed /\ acceptedOrders[m] = LimitOrder(terms[m])
  BY SameBook
<1>3. /\ IsFiniteSet(B) /\ StrictOrder(B, Priority(o, first))
      /\ Filling(fill, terms[o].qty, Has(o), B, Priority(o, first))
      /\ \A x \in Entries \ B : fill[x] = 0
      /\ \A x \in B : Has(o)[x] = Left(x)
  BY <1>1, FillIsFilling
<1>4. /\ fill \in [Entries -> Nat]
      /\ \A e \in Entries : fill[e] <= Left(e)
      /\ Total(fill) \in Nat /\ Total(fill) <= terms[o].qty
      /\ Total(fill) = SumFunctionOnSet(fill, B)
  BY <1>1, FillTaken
<1>5. terms[o].qty \in Nat /\ order.qty = terms[o].qty
  BY <1>1, TermsOf DEF LimitOrder
<1> HIDE DEF book, B, order, given
<1>6. ASSUME NEW m \in Orders
      PROVE  /\ given[m] = fill[<<m, "current">>] /\ given[m] \in Nat
             /\ m \in book <=> <<m, "current">> \in B
             /\ m \notin book => given[m] = 0
             /\ Taken(m, fill) = given[m]
  <2>1. <<m, "current">> \in Entries /\ <<m, "replaced">> \in Entries
    BY DEF Entries
  <2>2. given[m] = fill[<<m, "current">>] /\ given[m] \in Nat
    BY <1>4, <2>1 DEF given, Given
  <2>3. m \in book <=> <<m, "current">> \in B
    BY <1>2
  <2>4. m \notin book => given[m] = 0
    BY <1>3, <2>1, <2>2, <2>3
  <2>5. fill[<<m, "replaced">>] = 0
    BY <1>2, <1>3, <2>1
  <2>6. QED
    BY <2>2, <2>3, <2>4, <2>5 DEF Taken
<1>7. ASSUME NEW m \in book
      PROVE  /\ m \in Orders /\ <<m, "current">> \in B /\ <<m, "current">> \in Entries
             /\ Has(o)[<<m, "current">>] = acceptedLeft[m]
             /\ given[m] <= acceptedLeft[m]
  <2>1. m \in Orders /\ m \in processed /\ <<m, "current">> \in B
    BY <1>2
  <2>2. <<m, "current">> \in Entries
    BY <2>1 DEF Entries
  <2>3. Left(<<m, "current">>) = row[m].left
    BY <2>1, QuietFacts DEF Left
  <2>4. acceptedLeft[m] = row[m].left
    BY <2>1 DEF acceptedLeft
  <2>5. QED
    BY <1>3, <1>4, <1>6, <2>1, <2>2, <2>3, <2>4
<1>8. Rows!SumFunctionOnSet(given, book) = Total(fill)
  <2>1. IsFiniteSet(book)
    BY <1>2, OrdersAssumption, FS_Subset
  <2>2. ASSUME NEW x \in book
        PROVE  given[x] \in Int /\ fill[<<x, "current">>] = given[x]
    <3>1. x \in Orders
      BY <1>2
    <3>2. given[x] \in Nat /\ fill[<<x, "current">>] = given[x]
      BY <1>6, <3>1
    <3>3. QED
      BY <3>2
  <2>3. SumFunctionOnSet(fill, {<<x, "current">> : x \in book}) = SumFunctionOnSet(given, book)
    BY <2>1, <2>2, SumPairs DEF Values
  <2>4. QED
    BY <1>2, <1>4, <2>3, SameSum
<1>9. given \in [Orders -> 0 .. order.qty]
  <2>1. ASSUME NEW m \in Orders PROVE given[m] <= order.qty
    <3>1. CASE m \notin book
      <4>1. given[m] = 0
        BY <1>6, <3>1
      <4>2. QED
        BY <1>5, <4>1
    <3>2. CASE m \in book
      <4>1. <<m, "current">> \in B /\ \A x \in B : fill[x] \in Nat
        BY <1>2, <1>4, <1>6, <1>7, <3>2
      <4>2. fill[<<m, "current">>] <= SumFunctionOnSet(fill, B)
        BY <1>3, <4>1, SumNat
      <4>3. QED
        BY <1>4, <1>5, <1>6, <4>2
    <3>3. QED
      BY <3>1, <3>2
  <2>2. given = [m \in Orders |-> given[m]]
    BY DEF given, Given
  <2>3. \A m \in Orders : given[m] \in 0 .. order.qty
    <3>1. \A m \in Orders : given[m] \in Nat
      BY <1>6
    <3>2. QED
      BY <1>5, <2>1, <3>1
  <2>4. QED
    BY <2>2, <2>3
<1>10. /\ Total(fill) < order.qty => \A m \in book : given[m] = acceptedLeft[m]
       /\ \A p, m \in book : Rows!Precedes(p, m) /\ given[m] > 0 => given[p] = acceptedLeft[p]
  <2>1. /\ SumFunctionOnSet(fill, B) < terms[o].qty => \A x \in B : fill[x] = Has(o)[x]
        /\ \A x, y \in B : <<x, y>> \in Priority(o, first) /\ fill[y] > 0
                             => fill[x] = Has(o)[x]
    BY <1>3, <1>5, FilledByPriority
  <2>2. ASSUME NEW p \in book, NEW m \in book, Rows!Precedes(p, m)
        PROVE  <<<<p, "current">>, <<m, "current">>>> \in Priority(o, first)
    <3>1. /\ p \in Orders /\ m \in Orders
          /\ acceptedOrders[p] = LimitOrder(terms[p]) /\ acceptedOrders[m] = LimitOrder(terms[m])
      BY <1>2
    <3>2. /\ terms[p].price \in Nat /\ terms[p].at \in Int
          /\ terms[m].price \in Nat /\ terms[m].at \in Int
          /\ terms[m].side \in {"BUY", "SELL"} /\ terms[p].side \in {"BUY", "SELL"}
      BY <1>1, <3>1, TermsOf
    <3>3. Prior(p, m) /\ p # m
      BY <2>2, <3>1, <3>2 DEF Rows!Precedes, LimitOrder, Prior
    <3>4. Before(<<p, "current">>, <<m, "current">>, first)
      BY <1>7, <3>3, BeforeIs
    <3>5. QED
      BY <1>7, <3>4 DEF Priority, B
  <2>3. QED
    BY <1>4, <1>5, <1>6, <1>7, <2>1, <2>2
<1>11. Rows!FairFill(order, given)
  <2>1. /\ \A m \in Orders \ book : given[m] = 0
        /\ \A m \in book : given[m] <= acceptedLeft[m]
        /\ Total(fill) <= order.qty
    BY <1>4, <1>5, <1>6, <1>7
  <2>2. QED
    BY <1>8, <1>10, <2>1 DEF Rows!FairFill, book
<1>12. QED
  BY <1>6, <1>8, <1>9, <1>11 DEF book, order, given

\* A stored create command is an order that executes.
LEMMA MatchExecutes ==
  ASSUME RefInv, Quiet, NEW cmd, Fetched(cmd), NEW first \in BOOLEAN,
         MatchStored(cmd, Fill(cmd.order, first))
  PROVE  Rows!Execute(cmd.order, LimitOrder(terms[cmd.order]))
<1> DEFINE o     == cmd.order
           order == LimitOrder(terms[o])
           book  == Rows!Resting(order)
<1>1. PICK fill : fill = Fill(o, first)
  OBVIOUS
<1> DEFINE given == Given(fill)
           total == Rows!SumFunctionOnSet(given, book)
<1>2. /\ o \in Orders /\ o \notin processed /\ processed' = processed \cup {o} /\ terms' = terms
      /\ MatchFacts(o, fill)
      /\ \A m \in Orders :
           /\ row'[m] = IF m \in Changed(o, fill) THEN Matched(o, fill)[m] ELSE row[m]
           /\ traded'[m] = IF m = o THEN traded[m] + Total(fill)
                           ELSE traded[m] + Taken(m, fill)
  BY <1>1, QuietFacts, StoredRows
<1> HIDE DEF o
<1>3. /\ given \in [Orders -> 0 .. order.qty] /\ Rows!FairFill(order, given)
      /\ total = Total(fill)
      /\ \A m \in Orders : Taken(m, fill) = given[m]
  BY <1>1, <1>2, FillIsFair
<1>4. /\ order.type = "LIMIT" /\ order.qty = terms[o].qty /\ order.qty \in Nat \ {0}
      /\ \A m \in Orders : LimitOrder(terms[m]).qty = terms[m].qty
  BY <1>2, QuietFacts DEF LimitOrder
<1>5. Total(fill) \in Nat /\ Total(fill) <= order.qty
  BY <1>2, <1>4 DEF MatchFacts
<1> HIDE DEF order, book, given, total
<1>6. acceptedOrders[o] = None /\ acceptedOrders' = [acceptedOrders EXCEPT ![o] = order]
  BY <1>2 DEF acceptedOrders, order
<1> DEFINE left == IF order.type = "MARKET" THEN 0 ELSE order.qty - total
<1>7. left = order.qty - Total(fill) /\ left \in Nat
  BY <1>3, <1>4, <1>5
<1>8. ASSUME NEW m \in Orders
      PROVE  /\ acceptedLeft'[m] = IF m = o THEN left ELSE acceptedLeft[m] - given[m]
             /\ acceptedFilled'[m] = IF m = o THEN total ELSE acceptedFilled[m] + given[m]
             /\ acceptedStatus'[m] =
                  IF m = o THEN Rows!StatusOf(order.qty, left)
                  ELSE IF given[m] > 0
                    THEN Rows!StatusOf(acceptedOrders[m].qty, acceptedLeft[m] - given[m])
                  ELSE acceptedStatus[m]
  <2> HIDE DEF left
  <2>1. CASE m = o
    <3>1. /\ acceptedLeft'[m] = row'[m].left /\ acceptedStatus'[m] = row'[m].status
          /\ acceptedFilled'[m] = traded'[m]
      BY <1>2, <2>1 DEF acceptedLeft, acceptedStatus, acceptedFilled
    <3>2. /\ row'[m].left = order.qty - Total(fill)
          /\ row'[m].status = StatusAfter("NEW", order.qty - Total(fill), order.qty)
      <4>1. row'[m] = Matched(o, fill)[m] /\ m \in Changed(o, fill)
        BY <1>2, <2>1 DEF MatchFacts
      <4>2. QED
        BY <1>4, <2>1, <4>1 DEF Matched
    <3>3. traded'[m] = Total(fill)
      <4>1. traded[m] = 0
        BY <1>2, <2>1 DEF RefInv, RowsLive
      <4>2. QED
        BY <1>2, <1>5, <2>1, <4>1
    <3>4. StatusAfter("NEW", left, order.qty) = Rows!StatusOf(order.qty, left)
      BY <1>4, <1>7 DEF StatusAfter, Rows!StatusOf
    <3>5. QED
      BY <1>3, <1>7, <2>1, <3>1, <3>2, <3>3, <3>4
  <2>2. CASE m # o /\ m \notin processed
    <3>1. /\ acceptedLeft'[m] = 0 /\ acceptedStatus'[m] = "NEW" /\ acceptedFilled'[m] = 0
          /\ acceptedLeft[m] = 0 /\ acceptedStatus[m] = "NEW" /\ acceptedFilled[m] = 0
      BY <1>2, <2>2 DEF acceptedLeft, acceptedStatus, acceptedFilled
    <3>2. given[m] = 0
      <4>1. mem[m] = None
        BY <2>2, QuietFacts
      <4>2. m \notin Changed(o, fill)
        BY <1>2, <2>2, <4>1 DEF MatchFacts
      <4>3. Taken(m, fill) = 0
        BY <1>2, <4>2 DEF MatchFacts, Taken
      <4>4. QED
        BY <1>3, <4>3
    <3>3. QED
      BY <2>2, <3>1, <3>2
  <2>3. CASE m # o /\ m \in processed
    <3>1. /\ acceptedLeft'[m] = row'[m].left /\ acceptedStatus'[m] = row'[m].status
          /\ acceptedFilled'[m] = traded'[m]
          /\ acceptedLeft[m] = row[m].left /\ acceptedStatus[m] = row[m].status
          /\ acceptedFilled[m] = traded[m]
          /\ acceptedOrders[m] = LimitOrder(terms[m])
      BY <1>2, <2>3 DEF acceptedLeft, acceptedStatus, acceptedFilled, acceptedOrders
    <3>2. traded'[m] = traded[m] + given[m] /\ given[m] \in Nat
      BY <1>2, <1>3, <1>4, <2>3
    <3>3. mem[m] = row[m] /\ row[m] # None /\ row[m].left \in Nat
      BY <2>3, QuietFacts
    <3>4. CASE m \notin Changed(o, fill)
      <4>1. row'[m] = row[m] /\ Taken(m, fill) = 0
        BY <1>2, <3>4 DEF MatchFacts, Taken
      <4>2. given[m] = 0
        BY <1>3, <4>1
      <4>3. QED
        BY <2>3, <3>1, <3>2, <3>3, <4>1, <4>2
    <3>5. CASE m \in Changed(o, fill)
      <4>1. given[m] > 0 /\ given[m] = fill[<<m, "current">>]
        BY <1>3, <2>3, <3>5 DEF Changed, given, Given
      <4>2. given[m] <= row[m].left
        <5>1. m \in book \/ given[m] = 0
          BY <1>3 DEF Rows!FairFill, book
        <5>2. m \in book => given[m] <= acceptedLeft[m]
          BY <1>3 DEF Rows!FairFill, book
        <5>3. QED
          BY <3>1, <4>1, <5>1, <5>2
      <4>3. row[m].status \in {"NEW", "PARTIALLY_FILLED"}
        BY <3>2, <3>3, <4>1, <4>2, QuietFacts
      <4>4. /\ row'[m].left = row[m].left - given[m]
            /\ row'[m].status = StatusAfter(row[m].status, row[m].left - given[m], terms[m].qty)
        <5>1. row'[m] = Matched(o, fill)[m]
          BY <1>2, <3>5
        <5>2. /\ Matched(o, fill)[m].left = mem[m].left - fill[<<m, "current">>]
              /\ Matched(o, fill)[m].status =
                   StatusAfter(mem[m].status, mem[m].left - fill[<<m, "current">>], terms[m].qty)
          BY <2>3, <3>5 DEF Matched
        <5>3. QED
          BY <3>3, <4>1, <5>1, <5>2
      <4>5. row[m].left - given[m] \in Nat
        BY <3>2, <3>3, <4>2
      <4>6. StatusAfter(row[m].status, row[m].left - given[m], terms[m].qty)
              = Rows!StatusOf(terms[m].qty, row[m].left - given[m])
        BY <4>3, <4>5 DEF StatusAfter, Rows!StatusOf
      <4>7. QED
        BY <1>4, <2>3, <3>1, <3>2, <4>1, <4>4, <4>6
    <3>6. QED
      BY <3>4, <3>5
  <2>4. QED
    BY <2>1, <2>2, <2>3
<1>9. /\ acceptedLeft' = [m \in Orders |-> IF m = o THEN left ELSE acceptedLeft[m] - given[m]]
      /\ acceptedFilled' = [m \in Orders |-> IF m = o THEN total ELSE acceptedFilled[m] + given[m]]
      /\ acceptedStatus' =
           [m \in Orders |->
              IF m = o THEN Rows!StatusOf(order.qty, left)
              ELSE IF given[m] > 0
                THEN Rows!StatusOf(acceptedOrders[m].qty, acceptedLeft[m] - given[m])
              ELSE acceptedStatus[m]]
  <2> HIDE DEF left
  <2>1. /\ acceptedLeft' = [m \in Orders |-> acceptedLeft'[m]]
        /\ acceptedFilled' = [m \in Orders |-> acceptedFilled'[m]]
        /\ acceptedStatus' = [m \in Orders |-> acceptedStatus'[m]]
    BY DEF acceptedLeft, acceptedFilled, acceptedStatus
  <2>2. QED
    BY <1>8, <2>1
<1>10. QED
  BY <1>3, <1>6, <1>9 DEF Rows!Execute, total, book, order, o

\* A stored cancellation of an order the exchange knows is its cancellation.
LEMMA CancelCancels ==
  ASSUME RefInv, NEW cmd, Fetched(cmd), CancelStored(cmd)
  PROVE  Rows!Cancel(cmd.order) \/ UNCHANGED Rows!vars
<1> DEFINE o == cmd.order
<1>1. /\ o \in Orders /\ cmd.id \in Cancels /\ terms' = terms
      /\ processed' = processed \cup {cmd.id} /\ traded' = traded
      /\ row' = IF IsOpen(row[o]) THEN [row EXCEPT ![o] = Gone] ELSE row
  BY DEF Fetched, source, CancelStored, StoreCancel, Gone
<1> HIDE DEF o
<1>2. \A m \in Orders : m \in processed' <=> m \in processed
  BY <1>1, IdsAssumption
<1>3. row \in [Orders -> RowState \cup {None}]
  BY QuietFacts, DataFacts
<1>4. acceptedOrders' = acceptedOrders /\ acceptedFilled' = acceptedFilled
  BY <1>1, <1>2 DEF acceptedOrders, acceptedFilled
<1>5. CASE IsOpen(row[o]) /\ o \in processed
  <2>1. Rows!Open(o)
    <3>1. /\ acceptedOrders[o] = LimitOrder(terms[o]) /\ acceptedOrders[o] # None
          /\ acceptedStatus[o] = row[o].status
      BY <1>1, <1>5, QuietFacts DEF acceptedOrders, acceptedStatus
    <3>2. QED
      BY <1>5, <3>1 DEF IsOpen, Rows!Open
  <2>2. /\ acceptedLeft' = [acceptedLeft EXCEPT ![o] = 0]
        /\ acceptedStatus' = [acceptedStatus EXCEPT ![o] = "CANCELLED"]
    BY <1>1, <1>2, <1>3, <1>5 DEF acceptedLeft, acceptedStatus, Gone
  <2>3. QED
    BY <1>4, <2>1, <2>2 DEF Rows!Cancel, o
<1>6. CASE ~ (IsOpen(row[o]) /\ o \in processed)
  <2>1. \A m \in Orders : m \in processed => row'[m] = row[m]
    BY <1>1, <1>3, <1>6
  <2>2. acceptedLeft' = acceptedLeft /\ acceptedStatus' = acceptedStatus
    BY <1>2, <2>1 DEF acceptedLeft, acceptedStatus
  <2>3. QED
    BY <1>4, <2>2 DEF Rows!vars
<1>7. QED
  BY <1>5, <1>6

LEMMA RowsRefine ==
  ASSUME RefInv, Quiet, [Next]_vars
  PROVE  [Rows!Next]_(Rows!vars)
<1>1. Base /\ terms \in Portfolios
  BY QuietFacts
<1>2. ASSUME UNCHANGED <<terms, row, traded, processed>>
      PROVE  UNCHANGED Rows!vars
  BY <1>2 DEF Rows!vars, acceptedOrders, acceptedLeft, acceptedStatus, acceptedFilled
<1>3. ASSUME \/ \E o \in Orders, c \in Cancels : RequestCancel(o, c)
             \/ \E i \in 1 .. Len(outbox), marked \in BOOLEAN : Publish(i, marked)
             \/ \E cmd \in Messages : Fetched(cmd) /\ (Unstored(cmd) \/ CancelUnstored(cmd))
             \/ Offset
             \/ Restart
      PROVE  UNCHANGED <<terms, row, traded, processed>>
  BY <1>3 DEF RequestCancel, Publish, Fetched, Unstored, CancelUnstored, Offset, Restart,
              database, source
<1>4. ASSUME NEW o \in Orders, Place(o)
      PROVE  UNCHANGED Rows!vars
  <2>1. /\ row[o] = None /\ row' = [row EXCEPT ![o] = [left |-> terms[o].qty, status |-> "NEW"]]
        /\ UNCHANGED <<terms, traded, processed>>
    BY <1>4 DEF Place
  <2>2. o \notin processed
    BY <2>1, QuietFacts
  <2>3. \A m \in Orders : m \in processed => row'[m] = row[m]
    BY <1>1, <2>1, <2>2, DataFacts
  <2>4. QED
    BY <2>1, <2>3
    DEF Rows!vars, acceptedOrders, acceptedLeft, acceptedStatus, acceptedFilled
<1>5. ASSUME NEW cmd \in Messages, NEW first \in BOOLEAN, Fetched(cmd),
             MatchStored(cmd, Fill(cmd.order, first))
      PROVE  Rows!Next
  <2>1. cmd.order \in Orders
    BY <1>5 DEF Fetched
  <2>2. LimitOrder(terms[cmd.order]) \in Rows!Order
    <3>1. terms[cmd.order].side \in {"BUY", "SELL"}
      BY <1>1, <2>1, TermsOf
    <3>2. \A f : terms[cmd.order][f] \in Field(f)
      BY <1>1, <2>1 DEF Field
    <3>3. /\ terms[cmd.order].price \in Field("price")
          /\ terms[cmd.order].qty \in Field("qty")
          /\ terms[cmd.order].at \in Field("at")
      BY <3>2
    <3>4. QED
      BY <3>1, <3>3 DEF LimitOrder, Rows!Order
  <2>3. Rows!Execute(cmd.order, LimitOrder(terms[cmd.order]))
    BY <1>5, MatchExecutes
  <2>4. QED
    BY <2>1, <2>2, <2>3 DEF Rows!Next
<1>6. ASSUME NEW cmd \in Messages, Fetched(cmd), CancelStored(cmd)
      PROVE  [Rows!Next]_(Rows!vars)
  <2>1. cmd.order \in Orders
    BY <1>6 DEF Fetched
  <2>2. QED
    BY <1>6, <2>1, CancelCancels DEF Rows!Next
<1>7. QED
  BY <1>1, <1>2, <1>3, <1>4, <1>5, <1>6, StepIs

\* While the engine does not restart, learns of its commits and completes its
\* cancellations, the stored rows and trades are those of an exchange that
\* executes each order in one step by price-time priority or not at all:
\* ProcessOrder, RestoreSymbol and processed_events together hide every failed
\* transaction and every repeated command.
THEOREM EngineImplementsExchange == Spec /\ Quiet => ImplementsExchange
<1>1. Init => Rows!Init
  BY DEF Init, Rows!Init, acceptedOrders, acceptedLeft, acceptedStatus, acceptedFilled
<1>2. RowsLive /\ IInv /\ [Next]_vars => RowsLive'
  BY RowsSteps DEF RefInv
<1>3. Quiet /\ IInv /\ [Next]_vars => Quiet'
  BY DataSteps, NeverStays DEF Quiet, IInv
<1>4. Quiet /\ RowsLive /\ IInv /\ [Next]_vars => [Rows!Next]_(Rows!vars)
  BY RowsRefine DEF RefInv
<1>5. QED
  BY <1>1, <1>2, <1>3, <1>4, InitRows, EngineInductive, PTL
  DEF Spec, ImplementsExchange, Rows!Spec
=============================================================================
