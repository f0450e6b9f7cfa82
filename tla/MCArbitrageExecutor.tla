------------------------- MODULE MCArbitrageExecutor -------------------------
(* Small instances of ArbitrageExecutor: two exchanges whose lot steps      *)
(* differ, one tradable symbol, both directions, and a call the guard       *)
(* refuses for its notional.                                                *)
EXTENDS ArbitrageExecutor, TLC

CONSTANTS c1, c2, coarse, fine, tok

MCStep == (coarse :> 2) @@ (fine :> 1)

MCRequests ==
  {[symbol |-> tok, buy |-> coarse, sell |-> fine, notional |-> 1],
   [symbol |-> tok, buy |-> fine, sell |-> coarse, notional |-> 1]}

MCRequestsAndOversized ==
  MCRequests \cup {[symbol |-> tok, buy |-> coarse, sell |-> fine, notional |-> 2]}

MCDirections == {<<coarse, fine>>, <<fine, coarse>>}
=============================================================================
