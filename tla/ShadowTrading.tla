---------------------------- MODULE ShadowTrading -----------------------------
(***************************************************************************)
(* The shadow orchestrator (shadow_orchestrator.py, app/shadow): a process *)
(* beside the engines that reads the opportunities they persisted, decides *)
(* for each what a common pool of capital would have given it, and records *)
(* the decision beside what the engines did. The ledger and the open       *)
(* positions are memory; what survives a restart is the table of decisions.*)
(*                                                                         *)
(* It runs the same decisions over two tables: the opportunities, ordered  *)
(* by detection, and the CEX scans, ordered by row, in which the same      *)
(* opportunity comes back. They share no state, so the initial state says  *)
(* which of the two is followed.                                           *)
(***************************************************************************)
EXTENDS Integers, FiniteSets, FiniteSetsExt

CONSTANTS
  Rows,          \* rows the engines write, by primary key
  Opp,           \* what each row says: opportunity, at, legs, engine, key, ...
  BatchSize,     \* BATCH_SIZE, CEX_SCAN_BATCH_SIZE
  TotalCapital,  \* SHADOW_TOTAL_CAPITAL_USD
  DefaultHolding, Reentry,  \* DEFAULT_HOLDING_SECONDS, DEFAULT_MIN_REENTRY_DELAY_SECONDS
  Null,          \* a column without a value
  MaxLives, MaxFailures     \* bounds: runs of the process, batches that raise

ASSUME ShadowAssumption ==
  /\ Rows \subseteq Nat /\ IsFiniteSet(Rows)
  /\ BatchSize \in Nat \ {0} /\ TotalCapital \in Nat
  /\ \A r \in Rows : Opp[r].at \in Nat
  /\ \A r \in Rows : Cardinality({s \in Rows : Opp[s].at = Opp[r].at}) <= BatchSize

VARIABLES
  granularity, \* "opportunities" or "scans"
  stored,      \* rows the engines have committed
  decided,     \* the table of decisions: row -> decision
  batch,       \* rows of the batch still to be evaluated
  losers,      \* rows of the batch that duplicate a better one
  pending,     \* decisions of the open transaction
  pnl, reserved, expiry,  \* the ledger and the open positions
  life, failures      \* observers: which run of the process, failed batches

table     == <<stored, decided>>
work      == <<batch, losers, pending>>
memory_   == <<pnl, reserved, expiry>>
shadowVars == <<granularity, table, work, memory_, life, failures>>

Nothing == [x \in {} |-> x]
Keys == {Opp[r].key : r \in Rows} \ {Null}
NeverOpened == [k \in Keys |-> -1]
OrElse(v, default) == IF v = Null THEN default ELSE v

\* compute_expected_value_usd, in hundredths
ExpectedValue(o) == IF o.profit = Null THEN Null ELSE o.profit * OrElse(o.fill, 100)

HoldingOrDefault(o) == IF o.holding \in {Null, 0} THEN DefaultHolding ELSE o.holding

\* compute_master_rank_score
RankScore(o) ==
  IF o.velocity # Null THEN o.velocity
  ELSE IF ExpectedValue(o) = Null \/ o.capital = Null THEN Null
  ELSE IF o.capital <= 0 THEN Null
  ELSE (ExpectedValue(o) * 1000 * DefaultHolding) \div (o.capital * HoldingOrDefault(o))

\* among twins a row without a score, or with score 0, comes last
Above(o, p) ==
  /\ RankScore(o) \notin {Null, 0}
  /\ RankScore(p) \notin {Null, 0} => RankScore(o) > RankScore(p)

\* economic_event_key
SameEvent(r, s) == Opp[r].legs # Null /\ Opp[r].legs = Opp[s].legs /\ Opp[r].at = Opp[s].at

\* fetch_unevaluated_opportunities: the earliest rows, without the last instant
\* of a full batch, so that no event is split
IsEarliest(B, U) ==
  /\ B \subseteq U
  /\ Cardinality(B) = IF Cardinality(U) < BatchSize THEN Cardinality(U) ELSE BatchSize
  /\ IF granularity = "scans" THEN \A r \in B, s \in U \ B : r < s
     ELSE \A r \in B, s \in U \ B : Opp[r].at <= Opp[s].at

BeforeTheLast(B) == {r \in B : \E s \in B : Opp[r].at < Opp[s].at}

\* mutant: the batch is taken as it comes
Untrimmed(B) == B

Trimmed(B) ==
  IF granularity = "scans" \/ Cardinality(B) < BatchSize \/ BeforeTheLast(B) = {} THEN B
  ELSE BeforeTheLast(B)

\* partition_duplicate_economic_events: one representative of every event
AreRepresentatives(W, B) ==
  /\ W \subseteq B
  /\ \A r \in B : r \in W \/ \E w \in W : SameEvent(r, w)
  /\ \A w \in W, r \in B : r # w /\ SameEvent(w, r) => r \notin W /\ ~Above(Opp[r], Opp[w])

FreshMemory(total) == pnl' = total /\ reserved' = Nothing /\ expiry' = NeverOpened
NoWork == batch' = {} /\ losers' = {} /\ pending' = Nothing

ShadowInit ==
  /\ granularity \in {"opportunities", "scans"}
  /\ stored = {} /\ decided = Nothing
  /\ batch = {} /\ losers = {} /\ pending = Nothing
  /\ pnl = 0 /\ reserved = Nothing /\ expiry = NeverOpened
  /\ life = 1 /\ failures = 0

\* only the CEX loop records its scans, in order
Written == IF granularity = "scans" THEN {r \in Rows : Opp[r].engine = "CEX"} ELSE Rows

\* the engines commit what one scan detected; a cycle of the DEX engine does so
\* minutes after rows detected later
Store(r) ==
  LET scan == {s \in Written : Opp[s].at = Opp[r].at}
  IN /\ r \in Written \ stored
     /\ granularity = "scans" => \A s \in Written : Opp[s].at < Opp[r].at => s \in stored
     /\ stored' = stored \cup scan
     /\ UNCHANGED <<granularity, decided, work, memory_, life, failures>>

Idle == batch = {} /\ pending = Nothing

Fetch ==
  LET unevaluated == stored \ DOMAIN decided
  IN /\ Idle
     /\ unevaluated # {}
     /\ \E B \in SUBSET unevaluated :
          /\ IsEarliest(B, unevaluated)
          /\ batch' = Trimmed(B)
          /\ IF granularity = "scans" THEN losers' = {}
             ELSE \E W \in SUBSET Trimmed(B) :
                    AreRepresentatives(W, Trimmed(B)) /\ losers' = Trimmed(B) \ W
     /\ UNCHANGED <<granularity, table, pending, memory_, life, failures>>

\* the ledger at a row's own time: what had expired by then is forgotten
Pruned(now) == [x \in {y \in DOMAIN reserved : reserved[y].until > now} |-> reserved[x]]
Locked(r) == MapThenSumSet(LAMBDA x : r[x].amount, DOMAIN r)
\* a reservation is made under the opportunity, which comes back in every scan
Reservation(r) == IF granularity = "scans" THEN Opp[r].id ELSE r
Available(now) == TotalCapital + pnl - Locked(Pruned(now))
Granted(o) == IF o.capital < Available(o.at) THEN o.capital ELSE Available(o.at)

\* the gate of a CEX opportunity that holds its position
TakesPosition(o) == o.engine = "CEX" /\ o.holding # Null /\ o.key # Null
IsOpen(o) == TakesPosition(o) /\ expiry[o.key] > o.at
Measurable(o) == Null \notin {ExpectedValue(o), o.capital, RankScore(o)}

\* evaluate_shadow_decision, duplicate_economic_event_decision
Outcome(r) ==
  LET o == Opp[r]
  IN IF r \in losers            THEN "duplicate"
     ELSE IF IsOpen(o)          THEN "position_already_open"
     ELSE IF ~Measurable(o)     THEN "missing_data"
     ELSE IF ExpectedValue(o) <= 0 THEN "not_profitable"
     ELSE IF Granted(o) <= 0    THEN "no_capital"
     ELSE "allocate"

\* old_engine_approved, of the trade rows or of the telemetry
OldApproved(o) == o.old \in {"filled", "attempted_not_filled"}

DecisionOn(r) ==
  [outcome |-> Outcome(r), life |-> life,
   agree |-> OldApproved(Opp[r]) = (Outcome(r) = "allocate"),
   gain |-> IF Outcome(r) = "allocate"
            THEN (ExpectedValue(Opp[r]) * Granted(Opp[r])) \div Opp[r].capital ELSE 0]

Allocate(r) ==
  LET o == Opp[r]
  IN /\ reserved' = [x \in DOMAIN Pruned(o.at) \cup {Reservation(r)} |->
                  IF x = Reservation(r) THEN [amount |-> Granted(o), until |-> o.at + HoldingOrDefault(o)]
                  ELSE reserved[x]]
     /\ pnl' = pnl + DecisionOn(r).gain
     /\ expiry' = IF TakesPosition(o) THEN [expiry EXCEPT ![o.key] = o.at + o.holding + Reentry]
                  ELSE expiry

Evaluate(r) ==
  /\ r \in batch
  /\ IF granularity = "scans" THEN \A s \in batch : r <= s
     ELSE \A s \in batch : Opp[r].at <= Opp[s].at
  /\ batch' = batch \ {r}
  /\ pending' = [s \in DOMAIN pending \cup {r} |-> IF s = r THEN DecisionOn(r) ELSE pending[s]]
  /\ IF Outcome(r) = "allocate" THEN Allocate(r)
     ELSE reserved' = Pruned(Opp[r].at) /\ UNCHANGED <<pnl, expiry>>
  /\ UNCHANGED <<granularity, table, losers, life, failures>>

\* ON CONFLICT DO NOTHING: a row decided before keeps its decision
Commit ==
  /\ batch = {} /\ pending # Nothing
  /\ decided' = [r \in DOMAIN decided \cup DOMAIN pending |->
                  IF r \in DOMAIN decided THEN decided[r] ELSE pending[r]]
  /\ NoWork
  /\ UNCHANGED <<granularity, stored, memory_, life, failures>>

\* a statement or the commit raises: the transaction is rolled back, the memory is not
BatchFails ==
  /\ pending # Nothing /\ failures < MaxFailures
  /\ failures' = failures + 1
  /\ NoWork
  /\ UNCHANGED <<granularity, table, memory_, life>>

\* rebuild_shadow_ledger_from_history; the ledger of the scans starts from nothing
History == MapThenSumSet(LAMBDA r : decided[r].gain, DOMAIN decided)
Restart ==
  /\ life < MaxLives
  /\ life' = life + 1
  /\ NoWork
  /\ FreshMemory(IF granularity = "scans" THEN 0 ELSE History)
  /\ UNCHANGED <<granularity, table, failures>>

ShadowNext ==
  \/ \E r \in Rows : Store(r) \/ Evaluate(r)
  \/ Fetch \/ Commit \/ BatchFails \/ Restart

ShadowSpec == ShadowInit /\ [][ShadowNext]_shadowVars

-----------------------------------------------------------------------------
Allocated == {r \in DOMAIN decided : decided[r].outcome = "allocate"}

(* Of the rows that describe one real price gap, one at most is ever        *)
(* recorded as allocated, across batches, failures and restarts, although   *)
(* a batch only sees the rows it fetched (dedup.py:1-27).                   *)
TwinsNeverBothAllocated ==
  granularity = "opportunities" =>
    \A r, s \in Allocated : SameEvent(r, s) => r = s

(* What the pool gained is what the decisions say it gained: every          *)
(* opportunity is evaluated once, ever (reconstruct.py:160-164).            *)
CreditedOnce ==
  granularity = "opportunities" /\ Idle => pnl = History
=============================================================================
