---------------------------- MODULE SymbolUniverse ----------------------------
(***************************************************************************)
(* Which symbols the engine subscribes to: app/market_data/                *)
(* symbol_discovery.py asks the three exchanges at every start what they   *)
(* list, and _resolve_symbol_universe of main.py turns the answers into    *)
(* the assets the engines scan and the symbols each collector is given.    *)
(*                                                                         *)
(* An answer maps the assets of an exchange, against USDT, to their volume *)
(* of the day: Unreadable where the row cannot be read; Silent when the      *)
(* exchange could not be asked. The other pairs are fixed.                 *)
(***************************************************************************)
EXTENDS Integers, FiniteSets, FiniteSetsExt

CONSTANTS
  VolumeFloor,    \* MIN_QUOTE_VOLUME_USD
  MaxAssets,      \* MAX_DISCOVERED_ASSETS
  LeastAssets,    \* MIN_DISCOVERED_ASSETS
  StaticAssets,   \* CROSS_EXCHANGE_ASSETS
  FixedPairs,     \* STABLECOIN_PAIRS and TRIANGULAR_CROSS_PAIRS
  NotOnBybit,     \* BYBIT_UNLISTED_SYMBOLS
  Unreadable, Silent

ASSUME UniverseAssumption ==
  /\ VolumeFloor \in Nat /\ MaxAssets \in Nat /\ LeastAssets \in Nat
  /\ NotOnBybit \subseteq FixedPairs

\* _fetch_binance, _fetch_okx, _fetch_bybit: rows that cannot be read are left out
Fetched(answer) ==
  IF answer = Silent THEN Silent
  ELSE [a \in {a \in DOMAIN answer : answer[a] # Unreadable} |-> answer[a]]

Reachable(results) == {x \in DOMAIN results : results[x] # Silent}
Degraded(results) == Reachable(results) # DOMAIN results

\* build_discovered_universe: where an asset is confirmed, with enough volume
ListedOn(results, a) ==
  {x \in Reachable(results) : a \in DOMAIN results[x] /\ results[x][a] >= VolumeFloor}

ThinnestVolume(results, a) == Min({results[x][a] : x \in ListedOn(results, a)})

OnTwoOrMore(results) ==
  {a \in UNION {DOMAIN results[x] : x \in Reachable(results)} : Cardinality(ListedOn(results, a)) >= 2}

\* the deepest of them on their thinnest exchange; a tie goes to the rows that came first,
\* which is left open
Discovered(results) ==
  LET found == OnTwoOrMore(results)
      size == Min({Cardinality(found), MaxAssets})
  IN {top \in kSubset(size, found) : \A a \in top, b \in found \ top :
        ThinnestVolume(results, a) >= ThinnestVolume(results, b)}

\* _resolve_symbol_universe: an answer that is suspect is not trusted at all
EffectiveAssets(results, top) ==
  IF Degraded(results) \/ Cardinality(top) < LeastAssets THEN StaticAssets ELSE top

\* one list for everyone, but for what Bybit is known not to list
SpotSymbols(x, assets) ==
  ({<<a, "USDT">> : a \in assets} \cup FixedPairs) \ (IF x = "bybit" THEN NotOnBybit ELSE {})
=============================================================================
