------------------------------ MODULE Incidents ------------------------------
(***************************************************************************)
(* How an incident of the real-money session is classified and what is     *)
(* done about it: app/operations/incident_taxonomy.py, recovery_actions.py *)
(* and incident_knowledge_base.py. An incident type is a text that is      *)
(* matched by the substrings of a rule table, so it is modelled as the set *)
(* of those substrings (its marks) that it contains.                       *)
(***************************************************************************)
EXTENDS Naturals, Sequences, FiniteSets

Rule(mark, category, level, scope) ==
  [mark |-> mark, category |-> category, level |-> level, scope |-> scope]

SafeStop(mark) == Rule(mark, "CRITICAL_SAFETY", 5, "GLOBAL")

\* _RULES: the first rule whose substring occurs in the type wins
Rules == <<
  SafeStop("API PERMISSION CHANGE"),
  SafeStop("NEUTRALIZATION FAILED"),
  SafeStop("COULD NOT RESTORE THE FLOOR"),
  SafeStop("CAPITAL SAFETY VIOLATION"),
  SafeStop("SESSION LOSS LIMIT REACHED"),
  SafeStop("FEE ASSET UNKNOWN"),
  Rule("UNEXPLAINED P&L DISCREPANCY", "CODE_LOGIC_UNKNOWN", 5, "GLOBAL"),
  SafeStop("DOUBLE ALLOCATION"),
  SafeStop("KILL SWITCH ENGAGED"),
  Rule("UNKNOWN ORDER STATE", "AMBIGUOUS_ORDER_STATE", 2, "SYMBOL_DIRECTION"),
  Rule("AMBIGUOUS SUBMISSION ERROR", "AMBIGUOUS_ORDER_STATE", 2, "SYMBOL_DIRECTION"),
  Rule("BALANCE / LEDGER MISMATCH", "RECONCILIATION", 2, "SYMBOL_DIRECTION"),
  Rule("SELL REJECTED AFTER BUY", "ORDER_REJECTED_SAFE", 3, "SYMBOL_DIRECTION"),
  Rule("REBALANCE FAILED", "CAPITAL_REBALANCE", 2, "SYMBOL_DIRECTION"),
  Rule("REPEATED EXECUTION ERROR", "RECOVERABLE_OPERATIONAL", 4, "EXCHANGE"),
  Rule("SCRIPT ERROR", "CODE_LOGIC_UNKNOWN", 5, "GLOBAL") >>

Marks == {Rules[i].mark : i \in DOMAIN Rules}

Unknown == Rule("", "CODE_LOGIC_UNKNOWN", 5, "GLOBAL")

Matching(type) == {i \in DOMAIN Rules : Rules[i].mark \in type}

\* mutant: the last rule that matches wins
ClassifyIncidentLast(type) ==
  IF Matching(type) = {} THEN Unknown
  ELSE Rules[CHOOSE i \in Matching(type) : \A j \in Matching(type) : j <= i]

ClassifyIncident(type) ==
  IF Matching(type) = {} THEN Unknown
  ELSE Rules[CHOOSE i \in Matching(type) : \A j \in Matching(type) : i <= j]

AutoRecoverable(c) == c.level < 5

TransientExceptions ==
  {"ClientConnectionError", "ClientConnectorError", "ClientOSError",
   "ClientPayloadError", "ServerDisconnectedError", "ServerTimeoutError",
   "TimeoutError", "asyncio.TimeoutError", "ConnectionResetError",
   "ConnectionRefusedError"}

\* an exception nothing else classified, before or after an order was sent
ClassifyScriptException(name, submitted) ==
  CASE submitted -> Rule("", "AMBIGUOUS_ORDER_STATE", 5, "GLOBAL")
    [] ~submitted /\ name \in TransientExceptions -> Rule("", "TRANSIENT", 1, "NONE")
    [] OTHER -> Unknown

LevelToAction ==
  [l \in 0..4 |-> <<"CONTINUE", "RETRY", "RECALCULATE_AND_RETRY",
                    "ISOLATE_OPPORTUNITY", "ISOLATE_EXCHANGE">>[l + 1]]

\* known: the incident is in the knowledge base, which never lowers level 5
DecideRecoveryPlan(c, known) ==
  [action |-> IF AutoRecoverable(c) THEN LevelToAction[c.level]
              ELSE IF c.category = "CODE_LOGIC_UNKNOWN" /\ ~known
                   THEN "CODE_FIX_REQUIRED" ELSE "GLOBAL_SAFE_STOP",
   level |-> c.level, scope |-> c.scope, category |-> c.category, known |-> known]

Stops(plan) == plan.action \in {"GLOBAL_SAFE_STOP", "CODE_FIX_REQUIRED"}

-----------------------------------------------------------------------------
\* The knowledge base: how often each known signature has occurred. What the
\* seed says of each is advice for a reader.

SeedSignatures ==
  {"BYBIT_ORDER_LINK_ID_TOO_LONG", "BYBIT_BUY_QUOTE_BASE_COIN_MISMATCH",
   "BINANCE_FEE_REQUIRES_MYTRADES", "FEE_CURRENCY_ASSUMED_USDT",
   "MIN_NOTIONAL_CHECKED_LATE_OR_NOT_AT_ALL",
   "ARBITRAGE_SELL_QTY_EXCEEDS_SELL_SIDE_INVENTORY",
   "NEUTRALIZATION_QTY_EXCEEDS_FREE_BALANCE", "BUY_EXCHANGE_USDT_RESERVE_NOT_CHECKED",
   "RECONCILIATION_MISSING_REBALANCE_EVENT", "CROSS_ASSET_LEDGER_CONTAMINATION",
   "ORDER_LINK_ID_OR_CLIENT_ORDER_ID_COLLISION_RISK"}

\* a missing file is a fresh deployment and gets the seed; FEE_... occurred twice
LoadKnowledge(file) ==
  IF file = {} THEN [s \in SeedSignatures |->
                       IF s = "BINANCE_FEE_REQUIRES_MYTRADES" THEN 2 ELSE 1]
  ELSE CHOOSE kb \in file : TRUE

LookupKnown(kb, signature) == signature \in DOMAIN kb

\* raises for a signature that is not known
RecordOccurrence(kb, signature) == [kb EXCEPT ![signature] = @ + 1]

AddResolvedIncident(kb, signature) ==
  [s \in DOMAIN kb \cup {signature} |-> IF s = signature THEN 1 ELSE kb[s]]
=============================================================================
