----------------------------- MODULE Rebalancing -----------------------------
(***************************************************************************)
(* When an exchange runs short of dollars: the reserve floors and the      *)
(* decisions taken at them (app/execution/capital_rebalancer.py,           *)
(* dynamic_reserve_floor.py), as operators over whole amounts.             *)
(***************************************************************************)
EXTENDS Integers

LOCAL Lower(x, y)  == IF x <= y THEN x ELSE y
LOCAL Higher(x, y) == IF x >= y THEN x ELSE y

\* compute_reserve_floor: multiplier (in halves) times the cap of a leg, within bounds
ReserveFloor(cap, halves, least, most) == Higher(least, Lower(most, (halves * cap) \div 2))

\* compute_capital_imbalance_score, as a percentage
ImbalanceScore(a, b) ==
  IF a + b <= 0 THEN 0 ELSE (100 * (IF a >= b THEN a - b ELSE b - a)) \div (a + b)

IsRebalanceNeeded(a, b, floorA, floorB) == a < floorA \/ b < floorB

ShortfallNow(usdt, floor, notional)   == Higher(0, floor - usdt)

WouldBreach(usdt, floor, notional) == usdt - notional < floor
Shortfall(usdt, floor, notional)   == Higher(0, floor - (usdt - notional))

\* decide_trade_with_reserve_check
DecideTrade(usdt, floor, notional, oppositeProfitable, reconvertible) ==
  IF ~WouldBreach(usdt, floor, notional) THEN "ALLOW"
  ELSE IF oppositeProfitable THEN "PREFER_OPPOSITE_DIRECTION"
  ELSE IF reconvertible >= Shortfall(usdt, floor, notional) THEN "REBALANCE_FIRST"
  ELSE "DO_NOT_TRADE"

\* classify_inventory_position
ClassifyPosition(value, minNotional, qualifying, belowFloor, largest) ==
  IF value < minNotional THEN "DUST"
  ELSE IF belowFloor /\ largest THEN "SELL_TO_USDT"
  ELSE IF qualifying THEN "REUSE"
  ELSE "KEEP"

-----------------------------------------------------------------------------
\* The floor an exchange's own use calls for (compute_dynamic_reserve_floor)

StructuralMinimum(minNotional) == 2 * minNotional

\* multiplier (in halves) times the cap of a leg times buys per sell, which
\* counts between 1 and its own cap
OperatingBuffer(halves, cap, buys, sells, factorCap) ==
  LET sold == Higher(1, sells)
      weighted == Higher(sold, Lower(factorCap * sold, buys))
  IN (halves * cap * weighted) \div (2 * sold)

\* share (in tenths) of an equal split of the capital
EqualShareCap(total, exchanges, share) == (total * share) \div (10 * Higher(1, exchanges))

DynamicFloor(structural, buffer, cap) ==
  Lower(Higher(structural, buffer), Higher(cap, structural))

BindingComponent(structural, buffer, cap) ==
  LET floor == DynamicFloor(structural, buffer, cap)
  IN IF floor = structural /\ structural >= buffer THEN "STRUCTURAL_MINIMUM"
     ELSE IF floor < buffer THEN "EQUAL_SHARE_CAP"
     ELSE "OPERATING_BUFFER"
=============================================================================
