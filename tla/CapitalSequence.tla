--------------------------- MODULE CapitalSequence ----------------------------
(***************************************************************************)
(* A sequence of purchases replayed against the reserve floors             *)
(* (capital_rebalancer.simulate_event_sequence): before each one the       *)
(* exchange that pays may sell some of the coin it holds, or the purchase  *)
(* is left out. Coins are counted in 1/Lot, and every price divides Lot,   *)
(* so that a shortfall is a whole number of them.                          *)
(***************************************************************************)
EXTENDS Integers, Rebalancing

CONSTANTS Venues, Lot, TakerDivisor, VenueFloor, FirstUsdt, Notionals, CoinPrices, MaxEvents

ASSUME SequenceAssumption ==
  /\ Lot \in Nat \ {0} /\ TakerDivisor \in Nat \ {0, 1}
  /\ VenueFloor \in Nat /\ FirstUsdt \in Nat /\ FirstUsdt >= VenueFloor
  /\ Notionals \subseteq Nat \ {0} /\ \E n \in Notionals : \A m \in Notionals : m <= n
  /\ CoinPrices \subseteq Nat \ {0} /\ \A p \in CoinPrices : Lot % p = 0
  /\ MaxEvents \in Nat

VARIABLES
  cash,   \* usdt of every exchange
  coins,  \* base: the coin held since the start, below zero where it was held before
  lowest, \* the least cash seen
  interventions,
  replayed

sequenceVars == <<cash, coins, lowest, interventions, replayed>>

SequenceInit ==
  /\ cash = [v \in Venues |-> FirstUsdt]
  /\ coins = [v \in Venues |-> 0]
  /\ lowest = cash
  /\ interventions = 0
  /\ replayed = 0

TakerFee(value) == (value + TakerDivisor - 1) \div TakerDivisor
ValueAt(q, price) == (q * price) \div Lot
QtyFor(value, price) == (value * Lot) \div price

Decision(v, notional, price) ==
  DecideTrade(cash[v], VenueFloor, notional, FALSE, ValueAt(coins[v], price))

\* the purchase itself, after selling q coins; it may come with a sale elsewhere
Proceed(v, notional, price, q, receiver, sold) ==
  LET paid == cash[v] + ValueAt(q, price) - TakerFee(ValueAt(q, price)) - notional
      spent == [cash EXCEPT ![v] = paid]
      bought == [coins EXCEPT ![v] = @ - q + QtyFor(notional, price)]
  IN /\ cash' = IF receiver \in Venues
                THEN [spent EXCEPT ![receiver] = @ + ValueAt(sold, price)] ELSE spent
     /\ coins' = IF receiver \in Venues
                 THEN [bought EXCEPT ![receiver] = @ - sold] ELSE bought

\* min_binance, min_bybit
Lowest == [v \in Venues |-> IF cash'[v] < lowest[v] THEN cash'[v] ELSE lowest[v]]

Replaying == replayed < MaxEvents /\ replayed' = replayed + 1 /\ lowest' = Lowest

Allow(v, notional, price, receiver, sold) ==
  /\ Decision(v, notional, price) = "ALLOW"
  /\ Proceed(v, notional, price, 0, receiver, sold)
  /\ Replaying /\ UNCHANGED interventions

RebalanceFirst(v, notional, price, receiver, sold) ==
  LET wanted == QtyFor(Shortfall(cash[v], VenueFloor, notional), price)
      q == IF wanted <= coins[v] THEN wanted ELSE coins[v]
  IN /\ Decision(v, notional, price) = "REBALANCE_FIRST"
     /\ Proceed(v, notional, price, q, receiver, sold)
     /\ Replaying /\ interventions' = interventions + 1

DoNotTrade(v, notional, price) ==
  /\ Decision(v, notional, price) = "DO_NOT_TRADE"
  /\ UNCHANGED <<cash, coins>>
  /\ Replaying /\ interventions' = interventions + 1

\* a purchase alone (an inventory constitution) is received by nobody
Nobody == "nobody"

SequenceNext ==
  \E v \in Venues, notional \in Notionals, price \in CoinPrices :
    \/ \E r \in (Venues \ {v}) \cup {Nobody} :
         \/ Allow(v, notional, price, r, QtyFor(notional, price))
         \/ RebalanceFirst(v, notional, price, r, QtyFor(notional, price))
    \/ DoNotTrade(v, notional, price)

SequenceSpec == SequenceInit /\ [][SequenceNext]_sequenceVars

-----------------------------------------------------------------------------

LargestNotional == CHOOSE n \in Notionals : \A m \in Notionals : m <= n

(* However the purchases follow one another, no exchange is ever left      *)
(* further below its floor than the taker fee of one rebalancing sale,     *)
(* which its proceeds do not cover and the next sale makes up for: the     *)
(* shortfalls never add up ("never breach the floor to force a trade       *)
(* through", decide_trade_with_reserve_check).                             *)
FloorHeldButForFees ==
  \A v \in Venues : lowest[v] >= VenueFloor - TakerFee(2 * LargestNotional)
=============================================================================
