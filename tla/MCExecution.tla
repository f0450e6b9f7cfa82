----------------------------- MODULE MCExecution ------------------------------
(***************************************************************************)
(* The executor, a depth feed and the detection loop in one run: the       *)
(* initial state says which of them runs.                                  *)
(*   "one"        one call, with every quantity the two lot steps tell     *)
(*                apart; the guard refuses the other call's notional;      *)
(*   "two"        two calls that may not overlap, with one quantity;       *)
(*   "feed"       a depth feed;                                            *)
(*   "detection"  the detection loop, which takes the feed's one call,     *)
(*                update_order_book, with any price.                       *)
(***************************************************************************)
EXTENDS MCArbitrageExecutor, DepthFeed, Detection

VARIABLE machine

executionVars == <<machine, vars, feedVars, detectionVars>>

MCOversized == MCRequestsAndOversized \ MCRequests

\* at most one bid, of either quantity, and any of two asks: sides empty and full
MCVenueBooks ==
  {[s \in Sides |-> IF s = "bids" THEN bids ELSE asks] :
     bids \in {NoLevels, [p \in {1} |-> 1], [p \in {1} |-> 2]},
     asks \in UNION {[P -> {1}] : P \in SUBSET {2, 3}}}

\* of two calls' requests only the pair counts, not which call makes which
TwoCalls ==
  /\ req \in [Attempts -> MCRequests]
  /\ req[c1].buy = fine => req[c2].buy = fine

ExecutionInit ==
  /\ machine \in {"one", "two", "feed", "detection"}
  /\ Init /\ FeedInit /\ DetectionInit
  /\ CASE machine = "one" -> req[c2] \in MCOversized
       [] machine = "two" -> TwoCalls
       [] OTHER           -> \A a \in Attempts : req[a] \in MCOversized /\ req[a].buy = coarse
  /\ machine # "feed" => protocol = "full"

\* bound: two calls buy one quantity and are charged one fee; an order of theirs
\* fills wholly or not at all, and all of it is listed
OneQuantity == \A a \in Attempts :
  /\ pc[a] = "quote" /\ pc'[a] = "size" => loc'[a].qty = 4
  /\ order'[a]["buy"].qty \in {0, 4} /\ (order'[a]["buy"].filled > 0 => order'[a]["buy"].fee = 1)
  /\ \A l \in Legs : order'[a][l].filled \in {0, order'[a][l].qty}
  /\ pc'[a] = "sellBalance" => loc'[a].bought = 4 /\ loc'[a].net = 3
  /\ loc'[a].sold > 0 => loc'[a].sold = order[a]["sell"].filled

Executor  == machine \in {"one", "two"}
Others    == <<machine, feedVars, detectionVars>>
Detecting == machine = "detection" /\ UNCHANGED <<machine, vars, feedVars>>

Moves(step) == step /\ UNCHANGED Others /\ (machine = "two" => OneQuantity)

ExecutionNext ==
  \/ Executor /\ Moves(Next)
  \/ machine = "feed" /\ FeedNext /\ UNCHANGED <<machine, vars, detectionVars>>
  \/ Detecting /\ DetectionNext

\* An admitted call is never suspended for ever: every HTTP request has a total timeout
\* and _await_terminal a deadline. The event loop runs a task that can run, and time
\* passes. Exchanges and operators owe nothing, and nothing ends an iteration of the
\* detection loop but its own awaits.
ExecutionSpec ==
  /\ ExecutionInit /\ [][ExecutionNext]_executionVars
  /\ \A a \in Attempts : WF_executionVars(Executor /\ Running(a) /\ Moves(Advance(a)))
  /\ WF_executionVars(Detecting /\ (ScanOnce \/ WaitForUpdate \/ PauseEnds))
  /\ WF_executionVars(Detecting /\ Tick)
=============================================================================
