---------------------------- MODULE MCTradeOutbox ----------------------------
(***************************************************************************)
(* Instances of TradeOutbox for TLC: two workers are the relay of one      *)
(* engine process and that of its successor during a rollout.              *)
(***************************************************************************)
EXTENDS TradeOutbox, TLC

CONSTANTS w1, w2

Alike == Permutations(Workers)
=============================================================================
