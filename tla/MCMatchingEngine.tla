--------------------------- MODULE MCMatchingEngine ---------------------------
(***************************************************************************)
(* Instances of MatchingEngine for TLC.                                    *)
(***************************************************************************)
EXTENDS MatchingEngine

CONSTANTS o1, o2, o3, c1, c2

Buy(p, q, t)  == [side |-> "BUY",  price |-> p, qty |-> q, at |-> t]
Sell(p, q, t) == [side |-> "SELL", price |-> p, qty |-> q, at |-> t]

Book(a, b, c) == [o \in Orders |-> CASE o = o1 -> a [] o = o2 -> b [] o = o3 -> c]

\* A buy that two sells fill; two buys at different prices under one sell; two
\* sells at one price under one buy, the later order placed first or not.
MixedBooks ==
  {Book(Buy(2, 2, 1), Sell(1, 1, 2), Sell(2, 2, 3)),
   Book(Buy(1, 1, 1), Buy(2, 2, 2), Sell(1, 2, 3)),
   Book(Sell(1, 2, 2), Sell(1, 1, 1), Buy(1, 2, 3))}

\* A buy and a sell that trade in part, and a pair that does not cross.
Unused == Sell(2, 1, 3)
Pairs ==
  {Book(Buy(1, 1, 1), Sell(1, 2, 2), Unused),
   Book(Sell(1, 2, 1), Buy(2, 1, 2), Unused),
   Book(Buy(1, 1, 1), Sell(2, 1, 2), Unused)}

AllBooks == Pairs \cup MixedBooks

\* Failures that part memory and rows, with a third order that may meet the
\* orders they touch; with two orders the larger sets of faults.
Parting == {"dbfail", "cancelfail", "unknown"}
Scenario ==
  IF terms \in Pairs THEN faults # Parting /\ row[o3] = None ELSE faults = Parting
=============================================================================
