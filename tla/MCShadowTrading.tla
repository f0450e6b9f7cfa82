--------------------------- MODULE MCShadowTrading ----------------------------
(* Five rows: a pair of twins of the DEX, and a CEX signal seen twice.      *)
EXTENDS ShadowTrading, TLC

Row(id, at, legs, engine, key, velocity, capital, holding) ==
  [id |-> id, at |-> at, legs |-> legs, engine |-> engine, key |-> key,
   velocity |-> velocity, profit |-> 1, fill |-> Null, capital |-> capital,
   holding |-> holding, old |-> "filled"]

MCOpp ==
  (1 :> Row("c1", 1, "spread", "CEX", "k", 5, 6, 2)) @@
  (2 :> Row("cross", 2, "gap", "DEX", Null, 7, 4, 1)) @@
  (3 :> Row("atomic", 2, "gap", "DEX", Null, 0, 4, 1)) @@
  (4 :> Row("c2", 3, "spread", "CEX", "k", Null, 6, 2)) @@
  (5 :> Row("c1", 5, "spread", "CEX", "k", 5, 6, 2))
=============================================================================
