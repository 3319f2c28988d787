----------------------------- MODULE MCOrderBook -----------------------------
(***************************************************************************)
(* Instances of OrderBook for TLC.                                         *)
(***************************************************************************)
EXTENDS OrderBook

CONSTANTS o1, o2, o3

Three == {o1, o2, o3}

\* Ids are interchangeable: they are used in order.  Every behaviour of OrderBook
\* is one of these up to the names of its orders.
InOrder == /\ orders[o2] # None => orders[o1] # None
           /\ orders[o3] # None => orders[o2] # None

BothTypes == {"LIMIT", "MARKET"}
=============================================================================
