---------------------------- MODULE InventoryAdvice ----------------------------
(***************************************************************************)
(* What the engine process makes of the scanner's rows: the regime of a    *)
(* direction (reporting/short_term_regime), the best direction of a symbol *)
(* (reporting/altcoin_scan_report), its class, and the inventory to buy or *)
(* to give up (execution/inventory_manager, recommend_rebalance).  The     *)
(* scanner writes the table meanwhile; the report reads what is committed. *)
(***************************************************************************)
EXTENDS AltcoinScan

CONSTANTS
  Situations,        \* the accounts and what the ranker finds blocked, as read for a report
  Confirmations,     \* min_expected_reuse_count
  Window,            \* CONFIRMATION_WINDOW_SECONDS
  Persistent,        \* PERSISTENT_THRESHOLD_SECONDS
  Lookback,          \* DEFAULT_LOOKBACK_MINUTES
  MaxPerAsset, MaxExposure, MaxRebalance,
  NoAdvice

ASSUME AdviceAssumption ==
  /\ {Confirmations, Persistent, Window, Lookback, MaxPerAsset, MaxExposure, MaxRebalance} \subseteq Nat \ {0}
  /\ \A sit \in Situations :
       /\ sit.value \in [Symbols -> Nat] /\ sit.usdt \in [DOMAIN sit.usdt -> Nat]
       /\ \A s \in DOMAIN sit.blocked : sit.blocked[s] \in DOMAIN sit.usdt

VARIABLE advice     \* the last report: what it read and what it recommends

adviceVars == <<scanVars, advice>>

\* _fetch_observations: the committed rows of the live exchanges, by default
RowsOf(k, since) == {r \in table : r.key = k /\ IsLive(k) /\ r.at >= since}
Latest(R) == CHOOSE r \in R : \A x \in R : x.at < r.at \/ (x.at = r.at /\ x.life <= r.life)

\* mutant: one confirmation less is enough
ConfirmedBy(n) == n >= Confirmations - 1

Confirmed(n) == n >= Confirmations

\* compute_short_term_regime, classify_short_term_regime: anchored to the
\* latest row.  PERSISTENT stands for STRONG_PERSISTENT too, which changes
\* no recommendation.
Regime(R) ==
  IF R = {} THEN "NO_DATA"
  ELSE LET last == Latest(R)
           confirmed == {r \in R : r.positive /\ r.at >= last.at - Window}
       IN  IF ~last.positive THEN "NO_EDGE"
           ELSE IF last.persistence >= Persistent THEN "PERSISTENT"
           ELSE IF Confirmed(Cardinality(confirmed)) THEN "CONFIRMED_SHORT_TERM"
           ELSE "FLASH"

\* _best_direction_per_symbol: the greatest mean profit of all the rows;
\* which one of equals is left open.
BestLegs(s) ==
  LET rows(l) == RowsOf(<<s, l>>, 0)
      sum(l) == MapThenSumSet(LAMBDA r : r.net, rows(l))
      known == {l \in LiveLegs : rows(l) # {}}
  IN  {l \in known : \A m \in known : sum(l) * Cardinality(rows(m)) >= sum(m) * Cardinality(rows(l))}

\* is_preposition_eligible of score_direction_for_inventory
Eligible(s, l) == Regime(RowsOf(<<s, l>>, tick - Lookback)) \in {"CONFIRMED_SHORT_TERM", "PERSISTENT"}

\* mutant: what a purchase takes is not taken from what is left
SpendNothing(left, x, size) == left

\* remaining_exposure_capacity and remaining_usdt_by_exchange
Spend(left, x, size) ==
  [exposure |-> left.exposure - size, usdt |-> [left.usdt EXCEPT ![x] = @ - size], buys |-> left.buys]

\* One purchase, if a limit leaves any; on OKX no dollars are counted.
Buy(left, s, sit) ==
  LET x == sit.blocked[s]
      size == Min({MaxRebalance, MaxPerAsset - sit.value[s], left.exposure, left.usdt[x]})
  IN  IF size <= 0 THEN left
      ELSE [Spend(left, x, size) EXCEPT !.buys = @ \cup {[asset |-> s, on |-> x, size |-> size]}]

ValueHeld(sit) == SumFunctionOnSet(sit.value, Symbols)

\* The purchases of recommend_rebalance, in an order of the eligible assets.
Purchases(order, sit) ==
  LET start == [exposure |-> Max({0, MaxExposure - ValueHeld(sit)}), usdt |-> sit.usdt, buys |-> {}]
      after[i \in 0..Len(order)] == IF i = 0 THEN start ELSE Buy(after[i - 1], order[i], sit)
  IN  after[Len(order)].buys

\* build_inventory_report.  blocked names the sell exchange of the ranked
\* opportunity that misses the asset, the last one where several do; the
\* order of total_score is left open.  One that reads what an earlier one read
\* reports nothing new and is left out.
BuildInventoryReport ==
  /\ advice = NoAdvice /\ ~cycle.open
  /\ \E sit \in Situations, best \in [Symbols -> LiveLegs \cup {NoAdvice}] :
       /\ \A s \in Symbols : IF BestLegs(s) = {} THEN best[s] = NoAdvice ELSE best[s] \in BestLegs(s)
       /\ LET eligible == {s \in Symbols : best[s] # NoAdvice /\ Eligible(s, best[s])}
          IN  \E order \in SetToSeqs({s \in eligible : s \in DOMAIN sit.blocked}) :
                advice' = [best |-> best, sit |-> sit, buys |-> Purchases(order, sit),
                           sells |-> {s \in Symbols \ eligible : sit.value[s] > 0}]
  /\ UNCHANGED scanVars

AdviceInit == ScanInit /\ advice = NoAdvice
AdviceNext == (ScanNext /\ advice' = NoAdvice) \/ BuildInventoryReport

AdviceSpec == AdviceInit /\ [][AdviceNext]_adviceVars

-----------------------------------------------------------------------------
(* Properties.                                                             *)

SizeOf(B) == SumFunctionOnSet([b \in B |-> b.size], B)

\* The purchases of a report fit together within every limit: the exposure,
\* what is held of the asset, the size of one and the dollars of each
\* exchange; and what should be given up is not bought.
ExposureWithinLimits ==
  advice # NoAdvice =>
    LET held == ValueHeld(advice.sit)
    IN  /\ SizeOf(advice.buys) + held <= Max({MaxExposure, held})
        /\ \A x \in DOMAIN advice.sit.usdt :
             SizeOf({b \in advice.buys : b.on = x}) <= advice.sit.usdt[x]
        /\ \A b \in advice.buys : /\ b.size <= MaxRebalance
                                  /\ b.size + advice.sit.value[b.asset] <= MaxPerAsset
                                  /\ b.asset \notin advice.sells

\* A spread that was seen once and vanished never makes the report buy: the
\* scanner saw the edge of the asset's best direction at two ticks or more.
NoBuyOnOneSighting ==
  advice # NoAdvice =>
    \A b \in advice.buys :
      Cardinality({o \in seen : o.positive /\ o.key = <<b.asset, advice.best[b.asset]>>}) >= 2
=============================================================================
