------------------------------ MODULE MCRowLocks ------------------------------
(* Two users with a buy and a sell order each, and all the trades these make. *)
EXTENDS RowLocks, TLC

CONSTANTS b1, s1, b2, s2

MCOwner  == (b1 :> 1) @@ (s1 :> 1) @@ (b2 :> 2) @@ (s2 :> 2)
MCTrades == {[buy |-> b1, sell |-> s2], [buy |-> b2, sell |-> s1], [buy |-> b1, sell |-> s1]}
=============================================================================
