----------------------------- MODULE PaperRisk -----------------------------
(***************************************************************************)
(* The deterministic risk review of strategy/paper_risk.py: RiskPolicy,    *)
(* the validated RiskInput and evaluate_risk, a pure function of both.     *)
(* All amounts are whole KRW and all rates whole basis points, so that     *)
(* every division rounds down; the risk engine alone turns a target        *)
(* exposure into a number of shares.                                       *)
(*                                                                         *)
(* Whether the source data is stale is one Boolean of the request: it      *)
(* stands for the comparisons of the cutoff and of every feature's time    *)
(* with the policy's max_source_age_seconds.                               *)
(***************************************************************************)
EXTENDS Integers

CONSTANTS
    MaxPositionBps, MaxAggregateBps,   \* caps on exposure, of the NAV
    DailyOrderCap, DailyFillCap,       \* per account and session
    DailyLossStop,                     \* KRW below the session's first NAV
    DrawdownStopBps,                   \* below the high-water NAV
    MinNotional                        \* KRW of one order

ASSUME PolicyAssumption ==
    /\ MaxAggregateBps \in 1 .. 10000 /\ MaxPositionBps \in 1 .. MaxAggregateBps
    /\ DailyOrderCap \in Nat \ {0} /\ DailyFillCap \in Nat \ {0}
    /\ DailyLossStop \in Nat \ {0} /\ DrawdownStopBps \in 1 .. 10000
    /\ MinNotional \in Nat \ {0}

Request ==
    [action : {"ENTER", "HOLD", "REDUCE", "EXIT", "ABSTAIN"},
     target : Nat, price : Nat, cash : Nat, holdings : Nat,
     position_value : Nat, nav : Nat, high_water : Nat, start_nav : Nat,
     orders : Nat, fills : Nat,
     enabled : BOOLEAN, killed : BOOLEAN, duplicate : BOOLEAN, stale : BOOLEAN]

(* What RiskInput.__post_init__ refuses to construct.  position_value is   *)
(* the aggregate over all symbols.                                         *)
RequestValid(r) ==
    /\ r.price >= 1 /\ r.nav >= 1 /\ r.high_water >= 1 /\ r.start_nav >= 1
    /\ r.cash >= 0 /\ r.holdings >= 0 /\ r.orders >= 0 /\ r.fills >= 0
    /\ r.target <= 10000
    /\ r.nav = r.cash + r.position_value
    /\ r.holdings * r.price <= r.position_value
    /\ r.high_water >= r.nav

Reject(reason) == [verdict |-> "REJECT", quantity |-> 0, reason |-> reason]
NoOp           == [verdict |-> "NO_OP",  quantity |-> 0, reason |-> "none"]
Accept(verdict, quantity) ==
    [verdict |-> verdict, quantity |-> quantity, reason |-> "none"]

Accepted(result) == result.verdict \in {"APPROVE", "RESIZE"}

-----------------------------------------------------------------------------
Least(a, b) == IF a < b THEN a ELSE b

SharesForRoundedUp(nav, bps, price) ==  \* mutant: a started share is counted
    ((nav * bps) \div 10000 + price - 1) \div price

(* How many whole shares a share of the NAV in basis points buys.          *)
SharesFor(nav, bps, price) == ((nav * bps) \div 10000) \div price

Buying(r)     == r.action = "ENTER"
Wanted(r)     == IF r.action = "EXIT" THEN 0 ELSE SharesFor(r.nav, r.target, r.price)
OwnValue(r)   == r.holdings * r.price
OtherValue(r) == r.position_value - OwnValue(r)

(* The holdings asked for, after the cash limit, the position cap and the  *)
(* aggregate cap in turn.  The caps lower the target of a SELL as well.    *)
AfterCashWithReserve(r) ==  \* mutant: half of the cash is kept for the costs
    IF Buying(r) THEN Least(Wanted(r), r.holdings + (r.cash \div 2) \div r.price)
                 ELSE Wanted(r)
AfterCash(r) ==
    IF Buying(r) THEN Least(Wanted(r), r.holdings + r.cash \div r.price) ELSE Wanted(r)
PositionCap(r)   == SharesFor(r.nav, MaxPositionBps, r.price)
AfterPosition(r) == Least(AfterCash(r), PositionCap(r))
AggregateCapOfNav(r) ==  \* mutant: the other symbol's value is not deducted
    SharesFor(r.nav, MaxAggregateBps, r.price)
AggregateCap(r)  ==
    LET room == ((r.nav * MaxAggregateBps) \div 10000 - OtherValue(r)) \div r.price
    IN  IF room > 0 THEN room ELSE 0
Desired(r)       == Least(AfterPosition(r), AggregateCap(r))

(* A cap that binds makes the quantity of a SELL negative in the code,     *)
(* which then rejects: a SELL is accepted in full or not at all.           *)
Quantity(r) == IF Buying(r) THEN Desired(r) - r.holdings ELSE r.holdings - Desired(r)

OverPosition(r) == Buying(r) /\ OwnValue(r) * 10000 > r.nav * MaxPositionBps
OverExposure(r) == Buying(r) /\ OtherValue(r) * 10000 > r.nav * MaxAggregateBps
DrawnDown(r)    == (r.high_water - r.nav) * 10000 >= r.high_water * DrawdownStopBps

ActionInvalid(r) ==
    \/ r.action \in {"ENTER", "REDUCE"} /\ r.target = 0
    \/ r.action = "EXIT" /\ r.target # 0
NothingToDo(r) ==
    \/ r.action \in {"HOLD", "ABSTAIN"}
    \/ r.action = "EXIT" /\ r.holdings = 0

(***************************************************************************)
(* The review, in the order the plan fixes: the first condition that holds *)
(* decides.  (The code's test that a SELL exceeds the holdings can not     *)
(* hold here, the wanted holdings being never negative.)                   *)
(***************************************************************************)
EvaluateRisk(r) ==
    IF ~r.enabled THEN Reject("TRADING_DISABLED")
    ELSE IF r.killed THEN Reject("KILL_SWITCH_ACTIVE")
    ELSE IF r.duplicate THEN Reject("DUPLICATE_SESSION")
    ELSE IF r.stale THEN Reject("STALE_DATA")
    ELSE IF ActionInvalid(r) THEN Reject("INVALID_ACTION")
    ELSE IF NothingToDo(r) THEN NoOp
    ELSE IF Buying(r) /\ Wanted(r) <= r.holdings THEN Reject("INVALID_ACTION")
    ELSE IF r.action = "REDUCE" /\ r.holdings = 0 THEN Reject("INSUFFICIENT_POSITION")
    ELSE IF r.action = "REDUCE" /\ Wanted(r) >= r.holdings THEN Reject("INVALID_ACTION")
    ELSE IF Buying(r) /\ AfterCash(r) <= r.holdings THEN Reject("INSUFFICIENT_CASH")
    ELSE IF OverPosition(r) THEN Reject("POSITION_LIMIT")
    ELSE IF PositionCap(r) < AfterCash(r) /\ PositionCap(r) <= r.holdings
         THEN Reject("POSITION_LIMIT")
    ELSE IF OverExposure(r) THEN Reject("EXPOSURE_LIMIT")
    ELSE IF AggregateCap(r) < AfterPosition(r) /\ AggregateCap(r) <= r.holdings
         THEN Reject("EXPOSURE_LIMIT")
    ELSE IF r.orders >= DailyOrderCap \/ r.fills >= DailyFillCap
         THEN Reject("DAILY_FILL_LIMIT")
    ELSE IF r.start_nav - r.nav >= DailyLossStop THEN Reject("DAILY_LOSS_STOP")
    ELSE IF DrawnDown(r) THEN Reject("DRAWDOWN_STOP")
    ELSE IF Quantity(r) * r.price < MinNotional THEN Reject("MIN_NOTIONAL")
    ELSE Accept(IF Desired(r) = Wanted(r) THEN "APPROVE" ELSE "RESIZE", Quantity(r))

-----------------------------------------------------------------------------
(***************************************************************************)
(* Reference definitions: the limits as inequalities, without divisions.   *)
(***************************************************************************)
Affordable(r, q)     == q * r.price <= r.cash
WithinPosition(r, q) == (r.holdings + q) * r.price * 10000 <= r.nav * MaxPositionBps
WithinExposure(r, q) ==
    (r.position_value + q * r.price) * 10000 <= r.nav * MaxAggregateBps
WithinTarget(r, q)   == (r.holdings + q) * r.price * 10000 <= r.nav * r.target
Permitted(r, q) ==
    Affordable(r, q) /\ WithinPosition(r, q) /\ WithinExposure(r, q) /\ WithinTarget(r, q)
=============================================================================
