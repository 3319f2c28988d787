-------------------------------- MODULE MCFeed --------------------------------
(* The relay published one trade twice. *)
EXTENDS Feed, TLC

CONSTANTS trades, orders, t1, t2, o1, o2

Event(id, type) == [id |-> id, type |-> type]

MCTopics == {trades, orders}
MCIds    == {t1, t2, o1, o2}

One(f) ==
  [faults |-> f,
   log |-> (trades :> <<Event(t1, "TRADE"), Event(t1, "TRADE")>>)
           @@ (orders :> <<Event(o1, "ORDER_CANCELLED")>>)]
Two(f) ==
  [faults |-> f,
   log |-> (trades :> <<Event(t1, "TRADE"), Event(t1, "TRADE"), Event(t2, "TRADE")>>)
           @@ (orders :> <<Event(o1, "other"), Event(o2, "ORDER_UPDATE")>>)]

MCScenarios ==
  {One({"leave"}), One({"slow", "restart"}), Two({"rebalance", "nocommit"}),
   One({"markfail", "dbfail", "rebalance"})}
=============================================================================
