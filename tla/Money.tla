--------------------------------- MODULE Money ---------------------------------
(***************************************************************************)
(* pkg/money: prices and quantities as 64-bit integers of 10^-Decimals.    *)
(*                                                                         *)
(* A message with a price and a quantity goes from service to service as   *)
(* JSON.  Each one parses both, computes the cost it reserves or settles,  *)
(* and formats them again for the next.  A text is its sign, the digits    *)
(* before the first dot, and those after each dot; spaces around it and    *)
(* the quotes of JSON are gone (decodeJSONDecimal, TrimSpace).             *)
(***************************************************************************)
EXTENDS Integers, Sequences, Functions, SequencesExt

CONSTANTS
  Decimals,   \* digits after the dot
  MaxInt,     \* the largest integer: 2^63 - 1 in the code
  Requests,   \* messages a client may send: [price, quantity]
  MaxHops,    \* bound: services a message goes through
  None,
  Refused     \* an error is returned

\* Powers of ten.
Ten[n \in Nat] == IF n = 0 THEN 1 ELSE 10 * Ten[n - 1]

Scale == Ten[Decimals]

ASSUME DecimalsAssumption == Decimals \in Nat \ {0}
ASSUME WidthAssumption == MaxInt \in Nat /\ MaxInt >= Scale
ASSUME HopsAssumption  == MaxHops \in Nat

MinInt  == -MaxInt - 1
Int64   == MinInt .. MaxInt
Wrap(n) == ((n - MinInt) % (2 * (MaxInt + 1))) + MinInt

Digit == 0..9
Other == 10       \* any character that is not a digit
Signs == {"", "+", "-"}
Texts == [sign : Signs, whole : Seq(Digit \cup {Other}), parts : Seq(Seq(Digit \cup {Other}))]

Fields  == {"price", "quantity"}

ASSUME RequestsAssumption == \A r \in Requests : \A f \in Fields : r[f] \in Texts
ASSUME ResultAssumption ==
  /\ Refused # None
  /\ {None, Refused} \cap Int64 = {} /\ {None, Refused} \cap [Fields -> Int64] = {}

VARIABLES
  request,  \* what the client sent
  wire,     \* the message on its way, or None
  order,    \* the message as its last reader holds it, None or Refused
  cost,     \* CostFor of it: an integer, None or Refused
  hops      \* services that have read it

vars == <<request, wire, order, cost, hops>>

-----------------------------------------------------------------------------
(* parseDecimal *)

Zeros(n) == [i \in 1..n |-> 0]

\* big.Int SetString.
Number(digits) == FoldLeft(LAMBDA n, d : 10 * n + d, 0, digits)

isDigits(s) == \A i \in DOMAIN s : s[i] \in Digit

Fraction(t) == IF t.parts = <<>> THEN <<>> ELSE t.parts[1]

\* Mutant of Combined: the fraction is padded on the left.
CombinedPaddedLeft(t) == t.whole \o Zeros(Decimals - Len(Fraction(t))) \o Fraction(t)

\* The fraction is padded on the right to Decimals digits.
Combined(t) == t.whole \o Fraction(t) \o Zeros(Decimals - Len(Fraction(t)))

\* Nothing before or after the sign is refused, but a lone dot is zero.
WellFormed(t) ==
  /\ t.whole # <<>> \/ t.parts # <<>>
  /\ Len(t.parts) <= 1
  /\ isDigits(t.whole) /\ isDigits(Fraction(t))
  /\ Len(Fraction(t)) <= Decimals

parseDecimal(t) ==
  LET n == IF t.sign = "-" THEN -Number(Combined(t)) ELSE Number(Combined(t)) IN
  IF WellFormed(t) /\ n \in Int64 THEN n ELSE Refused

-----------------------------------------------------------------------------
(* formatDecimal *)

\* Go divides towards zero.
Quo(n, d) == IF n >= 0 THEN n \div d ELSE -((-n) \div d)
Rem(n, d) == n - d * Quo(n, d)

Digits[n \in Nat] == IF n < 10 THEN <<n>> ELSE Append(Digits[n \div 10], n % 10)

\* The verb %d, with a sign when there is one.
Printed(n) == IF n < 0 THEN <<Other>> \o Digits[-n] ELSE Digits[n]

\* The verb %0*d.
Padded(n) == LET s == Printed(n) IN Zeros(Decimals - Len(s)) \o s

\* Sprintf of a sign and an integer that should not be negative.
Written(sign, n) == [sign |-> sign, whole |-> Printed(Quo(n, Scale)),
                     parts |-> <<Padded(Rem(n, Scale))>>]

\* Mutant of formatDecimal: no special case for the smallest integer.
formatDecimalNegating(v) ==
  IF v < 0 THEN Written("-", Wrap(-v)) ELSE Written("", v)

\* The constant text of the smallest integer is written out in the code.
formatDecimal(v) ==
  IF v = MinInt THEN Written("-", MaxInt + 1)
  ELSE IF v < 0 THEN Written("-", Wrap(-v)) ELSE Written("", v)

-----------------------------------------------------------------------------
(* CostFor *)

\* Mutant of multiplyScaled: the product is cut, not refused.
multiplyScaledCutting(l, r) ==
  LET q == Quo(l * r, Scale) IN IF q \in Int64 THEN q ELSE Refused

\* The product is a big integer.
multiplyScaled(l, r) ==
  LET q == Quo(l * r, Scale) IN
  IF Rem(l * r, Scale) = 0 /\ q \in Int64 THEN q ELSE Refused

-----------------------------------------------------------------------------
Init ==
  /\ request \in Requests
  /\ wire = request
  /\ order = None /\ cost = None
  /\ hops = 0

\* UnmarshalJSON of the fields, then the cost.
Receive ==
  LET read == [f \in Fields |-> parseDecimal(wire[f])] IN
  /\ wire # None
  /\ wire' = None
  /\ hops' = hops + 1
  /\ IF \E f \in Fields : read[f] = Refused
     THEN order' = Refused /\ cost' = None
     ELSE order' = read /\ cost' = multiplyScaled(read["price"], read["quantity"])
  /\ UNCHANGED request

\* MarshalJSON of the fields, for the next service.
Send ==
  /\ order \notin {None, Refused} /\ wire = None
  /\ hops < MaxHops
  /\ wire' = [f \in Fields |-> formatDecimal(order[f])]
  /\ UNCHANGED <<request, order, cost, hops>>

Next == Receive \/ Send

Spec == Init /\ [][Next]_vars

-----------------------------------------------------------------------------
(* Properties *)

\* The value of a text, place by place: v * 10^-Decimals.
Places(s) == SumFunction([i \in DOMAIN s |-> s[i] * Ten[Len(s) - i]])
Denotes(t, v) ==
  /\ t.whole # <<>> \/ t.parts # <<>>
  /\ Len(t.parts) <= 1
  /\ \A i \in DOMAIN (t.whole \o Fraction(t)) : (t.whole \o Fraction(t))[i] # Other
  /\ v * Ten[Len(Fraction(t))] =
       (IF t.sign = "-" THEN -1 ELSE 1) * Scale * Places(t.whole \o Fraction(t))

\* A service holds the very numbers the client wrote, as 64-bit integers, however
\* many services the message went through.
OrderIsRequest ==
  order \notin {None, Refused} =>
    \A f \in Fields : order[f] \in Int64 /\ Denotes(request[f], order[f])

\* A message is refused for what the client wrote, and by the first service that
\* reads it: no service refuses what another has written.
RefusedAtFirst ==
  order = Refused =>
    /\ hops = 1
    /\ \E f \in Fields : \/ Len(Fraction(request[f])) > Decimals
                         \/ \A v \in Int64 : ~Denotes(request[f], v)

\* The cost is the product, or there is none of that precision and width.
CostIsExact ==
  order \notin {None, Refused} =>
    LET product == order["price"] * order["quantity"] IN
    IF cost = Refused
    THEN \A v \in Int64 : v * Scale # product
    ELSE cost \in Int64 /\ cost * Scale = product

=============================================================================
