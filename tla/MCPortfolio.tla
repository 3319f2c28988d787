----------------------------- MODULE MCPortfolio -----------------------------
(***************************************************************************)
(* Instances of Portfolio for TLC.                                         *)
(***************************************************************************)
EXTENDS Portfolio, TLC

CONSTANTS o1, o2, o3, o4, u1, u2, u3, u4

Buy(u, p, q)  == [owner |-> u, side |-> "BUY",  price |-> p, qty |-> q]
Sell(u, p, q) == [owner |-> u, side |-> "SELL", price |-> p, qty |-> q]

Book(a, b, c, d) == o1 :> a @@ o2 :> b @@ o3 :> c @@ o4 :> d

\* Three orders, every cost exact: one buy that two sells of one user fill at
\* two prices; two buys of one user that share the user's cash, the sell of
\* another under both; a user who trades with the own order.
Unused == Sell(u2, 2, 1)
TwoBuys  == Book(Buy(u1, 4, 1), Buy(u1, 2, 2), Sell(u2, 2, 2), Unused)
OwnTrade == Book(Buy(u1, 2, 2), Sell(u1, 2, 1), Sell(u2, 2, 2), Unused)
Books ==
  {Book(Buy(u1, 4, 2), Sell(u2, 2, 1), Sell(u2, 4, 1), Unused), TwoBuys, OwnTrade}

\* Two sells that fill a buy in two trades, and a second buy of its user, who can
\* pay for the first.
TwoPairs ==
  {Book(Buy(u3, 2, 2), Sell(u4, 2, 1), Buy(u3, 2, 1), Sell(u4, 2, 2))}

\* Then with two buys the user can pay for; and with prices of which a part of
\* an order has no exact cost when Scale is 2.
ThreeMarkets ==
  TwoPairs \cup
  {Book(Buy(u3, 2, 1), Sell(u4, 2, 1), Buy(u3, 2, 1), Sell(u4, 2, 2)),
   Book(Buy(u3, 1, 2), Sell(u4, 1, 1), Buy(u3, 1, 2), Sell(u4, 1, 2))}

Markets == Books \cup ThreeMarkets

\* u1 and u2 own what their orders need, u3 is short of cash.
MCEndowment ==
  [cash   |-> u1 :> 8 @@ u2 :> 0 @@ u3 :> 4 @@ u4 :> 0,
   shares |-> u1 :> 1 @@ u2 :> 2 @@ u3 :> 0 @@ u4 :> 3]

\* With three orders, every fault but a lost answer to an insert, and the lost
\* answer; with four orders failing inserts only.
Scenario ==
  IF terms \in Books
  THEN /\ "redeliver" \in faults /\ http[o4] = "none"
       /\ "insertunknown" \in faults => terms \in {TwoBuys, OwnTrade}
  ELSE faults = {"insertfail"}
=============================================================================
