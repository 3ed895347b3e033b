-------------------------- MODULE PaperRiskProofs --------------------------
(***************************************************************************)
(* For every policy and every valid request: what the risk review accepts  *)
(* is the largest purchase within the limits, or exactly the sale asked    *)
(* for.  PaperProposalProofs and PaperCycleProofs rest on these facts.     *)
(*                                                                         *)
(* The argument has two halves.  Each whole-share number the engine        *)
(* computes by rounding down is characterised by an inequality without     *)
(* division (FloorLemma and its three uses); and the cascade of rejections *)
(* is read once (AcceptedMeans).                                           *)
(***************************************************************************)
EXTENDS PaperRisk, TLAPS

(* Rounding down is the largest solution of an inequality. *)
LEMMA FloorLemma ==
    ASSUME NEW a \in Int, NEW n \in Int, NEW d \in Nat \ {0}
    PROVE  (n <= a \div d) <=> (n * d <= a)
<1>1. /\ a \div d \in Int
      /\ (a \div d) * d <= a
      /\ a < (a \div d) * d + d
  BY Z3
<1> DEFINE q == a \div d
<1>2. CASE n <= q
  BY <1>1, <1>2
<1>3. CASE n >= q + 1
  <2>1. n * d >= (q + 1) * d
    BY <1>1, <1>3
  <2> QED BY <2>1, <1>1, <1>3
<1> QED BY <1>1, <1>2, <1>3

LEMMA SharesLemma ==
    ASSUME NEW nav \in Nat, NEW bps \in Nat, NEW price \in Nat \ {0}, NEW n \in Int
    PROVE  /\ SharesFor(nav, bps, price) \in Int
           /\ (n <= SharesFor(nav, bps, price)) <=> (n * price * 10000 <= nav * bps)
<1> DEFINE room == (nav * bps) \div 10000
<1>1. nav * bps \in Int /\ room \in Int /\ n * price \in Int
  OBVIOUS
<1>2. room \div price \in Int
  BY <1>1, Z3
<1>3. (n <= room \div price) <=> (n * price <= room)
  BY <1>1, FloorLemma
<1>4. (n * price <= room) <=> (n * price * 10000 <= nav * bps)
  BY <1>1, FloorLemma
<1> QED BY <1>2, <1>3, <1>4 DEF SharesFor

(* The amounts of a request; the arithmetic reads nothing else of it. *)
Measured(r) ==
    /\ r.price \in Nat /\ r.nav \in Nat /\ r.holdings \in Nat
    /\ r.cash \in Nat /\ r.position_value \in Nat /\ r.target \in Nat

LEMMA RequestAmounts ==
    ASSUME NEW r \in Request
    PROVE  Measured(r)
  BY DEF Request, Measured

(* The aggregate cap, for a number of shares that is at least one. *)
LEMMA AggregateLemma ==
    ASSUME NEW r, Measured(r), RequestValid(r), NEW n \in Int, n >= 1
    PROVE  /\ AggregateCap(r) \in Int
           /\ (n <= AggregateCap(r)) <=>
                ((n * r.price + OtherValue(r)) * 10000 <= r.nav * MaxAggregateBps)
<1> DEFINE left == (r.nav * MaxAggregateBps) \div 10000 - OtherValue(r)
           room == left \div r.price
<1>1. /\ r.price \in Nat \ {0} /\ r.nav \in Nat /\ r.holdings \in Nat
      /\ r.position_value \in Nat /\ MaxAggregateBps \in Nat
  BY PolicyAssumption DEF Measured, RequestValid
<1>2. OtherValue(r) \in Int
  BY <1>1 DEF OtherValue, OwnValue
<1>3. r.nav * MaxAggregateBps \in Int /\ (r.nav * MaxAggregateBps) \div 10000 \in Int
  BY <1>1
<1>4. left \in Int /\ n * r.price \in Int
  BY <1>1, <1>2, <1>3
<1>5. room \in Int
  BY <1>1, <1>4, Z3
<1>6. (n <= room) <=> (n * r.price <= left)
  <2> HIDE DEF left
  <2> QED BY <1>1, <1>4, FloorLemma
<1>7. (n * r.price + OtherValue(r) <= (r.nav * MaxAggregateBps) \div 10000)
        <=> ((n * r.price + OtherValue(r)) * 10000 <= r.nav * MaxAggregateBps)
  <2> DEFINE limit == r.nav * MaxAggregateBps
             value == n * r.price + OtherValue(r)
  <2>1. limit \in Int /\ value \in Int
    BY <1>2, <1>3, <1>4
  <2> HIDE DEF limit, value
  <2>2. (value <= limit \div 10000) <=> (value * 10000 <= limit)
    BY <2>1, FloorLemma
  <2> QED BY <2>2 DEF limit, value
<1>8. (n * r.price <= left)
        <=> (n * r.price + OtherValue(r) <= (r.nav * MaxAggregateBps) \div 10000)
  BY <1>2, <1>3, <1>4
<1>9. /\ AggregateCap(r) \in Int
      /\ (n <= AggregateCap(r)) <=> (n <= room)
  BY <1>5 DEF AggregateCap
<1> QED BY <1>6, <1>7, <1>8, <1>9

(* What it takes to come through the cascade of rejections. *)
LEMMA AcceptedMeans ==
    ASSUME NEW r, Accepted(EvaluateRisk(r))
    PROVE  /\ ~ActionInvalid(r) /\ ~NothingToDo(r)
           /\ Buying(r) => ~(Wanted(r) <= r.holdings) /\ ~(AfterCash(r) <= r.holdings)
           /\ r.action = "REDUCE" => ~(Wanted(r) >= r.holdings)
           /\ ~(PositionCap(r) < AfterCash(r) /\ PositionCap(r) <= r.holdings)
           /\ ~(AggregateCap(r) < AfterPosition(r) /\ AggregateCap(r) <= r.holdings)
           /\ ~(r.orders >= DailyOrderCap)
           /\ EvaluateRisk(r).quantity = Quantity(r)
  BY DEF EvaluateRisk, Reject, NoOp, Accept, Accepted

LEMMA RequestTypes ==
    ASSUME NEW r, Measured(r), RequestValid(r)
    PROVE  /\ r.price \in Nat \ {0} /\ r.nav \in Nat /\ r.holdings \in Nat
           /\ r.cash \in Nat /\ r.position_value \in Nat /\ r.target \in Nat
           /\ MaxPositionBps \in Nat
           /\ Wanted(r) \in Int /\ AfterCash(r) \in Int /\ PositionCap(r) \in Int
           /\ AfterPosition(r) \in Int /\ AggregateCap(r) \in Int /\ Desired(r) \in Int
<1>1. /\ r.price \in Nat \ {0} /\ r.nav \in Nat /\ r.holdings \in Nat
      /\ r.cash \in Nat /\ r.position_value \in Nat /\ r.target \in Nat
  <2>1. /\ r.price \in Nat /\ r.nav \in Nat /\ r.holdings \in Nat /\ r.cash \in Nat
        /\ r.position_value \in Nat /\ r.target \in Nat
    BY DEF Measured
  <2>2. r.price >= 1
    BY DEF RequestValid
  <2> QED BY <2>1, <2>2
<1>0. MaxPositionBps \in Nat
  BY PolicyAssumption
<1>2. Wanted(r) \in Int
  BY <1>1, SharesLemma DEF Wanted
<1>3. r.cash \div r.price \in Int
  BY <1>1, Z3
<1>4. AfterCash(r) \in Int
  BY <1>1, <1>2, <1>3 DEF AfterCash, Least
<1>5. PositionCap(r) \in Int
  BY <1>0, <1>1, SharesLemma DEF PositionCap
<1>6. AfterPosition(r) \in Int
  BY <1>4, <1>5 DEF AfterPosition, Least
<1>7. AggregateCap(r) \in Int
  BY AggregateLemma
<1>8. Desired(r) \in Int
  BY <1>6, <1>7 DEF Desired, Least
<1> QED BY <1>0, <1>1, <1>2, <1>4, <1>5, <1>6, <1>7, <1>8

(* The four limits on a purchase, each as an inequality. *)
LEMMA LimitsOfPurchase ==
    ASSUME NEW r, Measured(r), RequestValid(r), NEW q \in Int, q >= 1
    PROVE  /\ (q <= r.cash \div r.price) <=> Affordable(r, q)
           /\ (r.holdings + q <= PositionCap(r)) <=> WithinPosition(r, q)
           /\ (r.holdings + q <= AggregateCap(r)) <=> WithinExposure(r, q)
           /\ r.action # "EXIT" =>
                ((r.holdings + q <= Wanted(r)) <=> WithinTarget(r, q))
<1>1. /\ r.price \in Nat \ {0} /\ r.nav \in Nat /\ r.holdings \in Nat
      /\ r.cash \in Nat /\ r.position_value \in Nat /\ r.target \in Nat
      /\ MaxPositionBps \in Nat
  BY RequestTypes
<1>2. r.holdings + q \in Int /\ r.holdings + q >= 1
  BY <1>1
<1> DEFINE price == r.price  nav == r.nav  cash == r.cash  after == r.holdings + q
<1>8. /\ price \in Nat \ {0} /\ nav \in Nat /\ cash \in Int /\ after \in Int
      /\ r.target \in Nat /\ MaxPositionBps \in Nat
  BY <1>1, <1>2
<1>9. /\ (q <= cash \div price) <=> (q * price <= cash)
      /\ (after <= SharesFor(nav, MaxPositionBps, price))
           <=> (after * price * 10000 <= nav * MaxPositionBps)
      /\ (after <= SharesFor(nav, r.target, price))
           <=> (after * price * 10000 <= nav * r.target)
  <2> HIDE DEF price, nav, cash, after
  <2>1. (q <= cash \div price) <=> (q * price <= cash)
    BY <1>8, FloorLemma
  <2>2. \A bps \in Nat : (after <= SharesFor(nav, bps, price))
                            <=> (after * price * 10000 <= nav * bps)
    BY <1>8, SharesLemma
  <2> QED BY <1>8, <2>1, <2>2
<1>3. (q <= r.cash \div r.price) <=> Affordable(r, q)
  BY <1>9 DEF Affordable
<1>4. (r.holdings + q <= PositionCap(r)) <=> WithinPosition(r, q)
  BY <1>9 DEF PositionCap, WithinPosition
<1>5. (r.holdings + q) * r.price + OtherValue(r) = r.position_value + q * r.price
  BY <1>1 DEF OtherValue, OwnValue
<1>6. (r.holdings + q <= AggregateCap(r)) <=> WithinExposure(r, q)
  BY <1>2, <1>5, AggregateLemma DEF WithinExposure
<1>7. r.action # "EXIT" => ((r.holdings + q <= Wanted(r)) <=> WithinTarget(r, q))
  BY <1>9 DEF Wanted, WithinTarget
<1> QED BY <1>3, <1>4, <1>6, <1>7

(* The accepted quantity of a purchase is the largest permitted one. *)
LEMMA PurchaseIsLargestPermitted ==
    ASSUME NEW r, Measured(r), RequestValid(r), Buying(r), Accepted(EvaluateRisk(r))
    PROVE  /\ Quantity(r) \in Int /\ Quantity(r) >= 1
           /\ EvaluateRisk(r).quantity = Quantity(r)
           /\ \A q \in Int : q >= 1 => ((q <= Quantity(r)) <=> Permitted(r, q))
<1> DEFINE cashShares == r.cash \div r.price
<1>1. /\ r.holdings \in Nat /\ r.price \in Nat \ {0} /\ r.cash \in Nat
      /\ Wanted(r) \in Int /\ AfterCash(r) \in Int /\ PositionCap(r) \in Int
      /\ AfterPosition(r) \in Int /\ AggregateCap(r) \in Int /\ Desired(r) \in Int
  BY RequestTypes
<1>2. cashShares \in Int
  BY <1>1, Z3
<1>3. /\ EvaluateRisk(r).quantity = Quantity(r)
      /\ ~(Wanted(r) <= r.holdings) /\ ~(AfterCash(r) <= r.holdings)
      /\ ~(PositionCap(r) < AfterCash(r) /\ PositionCap(r) <= r.holdings)
      /\ ~(AggregateCap(r) < AfterPosition(r) /\ AggregateCap(r) <= r.holdings)
  BY AcceptedMeans
<1>4. Quantity(r) = Desired(r) - r.holdings
  BY DEF Quantity
<1>5. AfterCash(r) = Least(Wanted(r), r.holdings + cashShares)
  BY DEF AfterCash
<1>6. AfterPosition(r) > r.holdings /\ Desired(r) > r.holdings
  BY <1>1, <1>3 DEF AfterPosition, Desired, Least
<1>7. ASSUME NEW q \in Int, q >= 1
      PROVE  (q <= Quantity(r)) <=> Permitted(r, q)
  <2>1. (q <= Quantity(r)) <=> (r.holdings + q <= Desired(r))
    BY <1>1, <1>4
  <2>2. (r.holdings + q <= Desired(r)) <=>
          /\ r.holdings + q <= Wanted(r) /\ q <= cashShares
          /\ r.holdings + q <= PositionCap(r) /\ r.holdings + q <= AggregateCap(r)
    BY <1>1, <1>2, <1>5 DEF Desired, AfterPosition, Least
  <2>3. r.action # "EXIT"
    BY DEF Buying
  <2>4. /\ (q <= cashShares) <=> Affordable(r, q)
        /\ (r.holdings + q <= PositionCap(r)) <=> WithinPosition(r, q)
        /\ (r.holdings + q <= AggregateCap(r)) <=> WithinExposure(r, q)
        /\ (r.holdings + q <= Wanted(r)) <=> WithinTarget(r, q)
    BY <1>7, <2>3, LimitsOfPurchase
  <2> QED BY <2>1, <2>2, <2>4 DEF Permitted
<1> QED BY <1>1, <1>3, <1>4, <1>6, <1>7

(* The accepted quantity of a sale leaves the wanted holdings. *)
LEMMA SaleOfMeasured ==
    ASSUME NEW r, Measured(r), RequestValid(r), r.action \in {"REDUCE", "EXIT"},
           Accepted(EvaluateRisk(r))
    PROVE  /\ Wanted(r) \in Int /\ Wanted(r) >= 0 /\ Wanted(r) < r.holdings
           /\ EvaluateRisk(r).quantity = r.holdings - Wanted(r)
           /\ r.action = "EXIT" => r.target = 0
<1>1. /\ r.holdings \in Nat /\ r.price \in Nat \ {0} /\ r.nav \in Nat /\ r.target \in Nat
      /\ Wanted(r) \in Int /\ AfterCash(r) \in Int /\ PositionCap(r) \in Int
      /\ AfterPosition(r) \in Int /\ AggregateCap(r) \in Int
  BY RequestTypes
<1>2. /\ EvaluateRisk(r).quantity = Quantity(r)
      /\ ~ActionInvalid(r) /\ ~NothingToDo(r)
      /\ r.action = "REDUCE" => ~(Wanted(r) >= r.holdings)
      /\ ~(PositionCap(r) < AfterCash(r) /\ PositionCap(r) <= r.holdings)
      /\ ~(AggregateCap(r) < AfterPosition(r) /\ AggregateCap(r) <= r.holdings)
  BY AcceptedMeans
<1>3. ~Buying(r) /\ (r.action = "EXIT" => r.target = 0)
  BY <1>2 DEF Buying, ActionInvalid
<1>4. Wanted(r) < r.holdings
  BY <1>1, <1>2, <1>3 DEF Wanted, NothingToDo
<1>5. AfterCash(r) = Wanted(r)
  BY <1>3 DEF AfterCash
<1>6. AfterPosition(r) = Wanted(r) /\ Desired(r) = Wanted(r)
  BY <1>1, <1>2, <1>4, <1>5 DEF AfterPosition, Desired, Least
<1>7. 0 <= Wanted(r)
  <2>1. r.nav * r.target \in Nat
    BY <1>1
  <2>2. 0 * r.price * 10000 <= r.nav * r.target
    BY <1>1, <2>1
  <2> DEFINE price == r.price  nav == r.nav  target == r.target
  <2>3. 0 <= SharesFor(nav, target, price)
    <3>1. /\ price \in Nat \ {0} /\ nav \in Nat /\ target \in Nat
          /\ 0 * price * 10000 <= nav * target
      BY <1>1, <2>2
    <3> HIDE DEF price, nav, target
    <3> QED BY <3>1, SharesLemma
  <2> QED BY <2>3 DEF Wanted
<1> QED BY <1>1, <1>2, <1>3, <1>4, <1>6, <1>7 DEF Quantity

LEMMA SaleLeavesWanted ==
    ASSUME NEW r \in Request, RequestValid(r), ~Buying(r), Accepted(EvaluateRisk(r))
    PROVE  /\ r.action \in {"REDUCE", "EXIT"} /\ Wanted(r) \in Int
           /\ Wanted(r) >= 0 /\ Wanted(r) < r.holdings
           /\ EvaluateRisk(r).quantity = r.holdings - Wanted(r)
           /\ r.action = "EXIT" => r.target = 0
<1>1. r.action \in {"REDUCE", "EXIT"}
  BY AcceptedMeans DEF Request, Buying, NothingToDo
<1> QED BY <1>1, RequestAmounts, SaleOfMeasured

(* A sale leaves the most shares the target allows. *)
LEMMA SaleLeavesMost ==
    ASSUME NEW r \in Request, RequestValid(r), ~Buying(r), Accepted(EvaluateRisk(r))
    PROVE  /\ EvaluateRisk(r).quantity \in 1 .. r.holdings
           /\ WithinTarget(r, -EvaluateRisk(r).quantity)
           /\ ~WithinTarget(r, 1 - EvaluateRisk(r).quantity)
<1>1. /\ r.action \in {"REDUCE", "EXIT"} /\ Wanted(r) \in Int
      /\ Wanted(r) >= 0 /\ Wanted(r) < r.holdings
      /\ EvaluateRisk(r).quantity = r.holdings - Wanted(r)
      /\ r.action = "EXIT" => r.target = 0
  BY SaleLeavesWanted
<1>2. /\ r.price \in Nat \ {0} /\ r.nav \in Nat /\ r.target \in Nat /\ r.holdings \in Nat
  BY RequestAmounts, RequestTypes
<1>3. \A n \in Int : (n <= Wanted(r)) <=> (n * r.price * 10000 <= r.nav * r.target)
  <2>1. CASE r.action = "EXIT"
    <3>1. \A n \in Int, p \in Nat \ {0} : (n <= 0) <=> (n * p <= 0)
      <4> SUFFICES ASSUME NEW n \in Int, NEW p \in Nat \ {0} PROVE (n <= 0) <=> (n * p <= 0)
        OBVIOUS
      <4>1. CASE n <= 0
        BY <4>1
      <4>2. CASE n >= 1
        <5>1. n * p >= 1 * p
          BY <4>2
        <5> QED BY <4>2, <5>1
      <4> QED BY <4>1, <4>2
    <3>2. Wanted(r) = 0 /\ r.nav * r.target = 0
      BY <1>1, <1>2, <2>1 DEF Wanted
    <3>3. \A n \in Int : (n * r.price <= 0) <=> (n * r.price * 10000 <= 0)
      <4>1. \A n \in Int : n * r.price \in Int
        BY <1>2
      <4> QED BY <4>1
    <3> QED BY SMTT(40), <1>2, <3>1, <3>2, <3>3
  <2>2. CASE r.action = "REDUCE"
    <3>1. Wanted(r) = SharesFor(r.nav, r.target, r.price)
      BY <2>2 DEF Wanted
    <3> DEFINE price == r.price  nav == r.nav  target == r.target
    <3>2. \A n \in Int : (n <= SharesFor(nav, target, price))
                          <=> (n * price * 10000 <= nav * target)
      <4>1. /\ price \in Nat \ {0} /\ nav \in Nat /\ target \in Nat
        BY <1>2
      <4> HIDE DEF price, nav, target
      <4> TAKE n \in Int
      <4> QED BY <4>1, SharesLemma
    <3> QED BY <3>1, <3>2
  <2> QED BY <1>1, <2>1, <2>2
<1>4. /\ r.holdings + (-EvaluateRisk(r).quantity) = Wanted(r)
      /\ r.holdings + (1 - EvaluateRisk(r).quantity) = Wanted(r) + 1
      /\ EvaluateRisk(r).quantity \in 1 .. r.holdings
  BY <1>1, <1>2
<1>5. Wanted(r) + 1 \in Int /\ ~(Wanted(r) + 1 <= Wanted(r)) /\ Wanted(r) <= Wanted(r)
  BY <1>1
<1>6. Wanted(r) * r.price * 10000 <= r.nav * r.target
  BY <1>1, <1>3, <1>5
<1>7. ~((Wanted(r) + 1) * r.price * 10000 <= r.nav * r.target)
  BY <1>3, <1>5
<1>8. WithinTarget(r, -EvaluateRisk(r).quantity)
  BY <1>4, <1>6 DEF WithinTarget
<1>9. ~WithinTarget(r, 1 - EvaluateRisk(r).quantity)
  BY <1>4, <1>7 DEF WithinTarget
<1> QED BY <1>4, <1>8, <1>9

(* What the three rejections of a purchase say of the book. *)
LEMMA RefusalMeans ==
    ASSUME NEW r, Buying(r),
           EvaluateRisk(r).reason \in {"INSUFFICIENT_CASH", "POSITION_LIMIT", "EXPOSURE_LIMIT"}
    PROVE  /\ ~(Wanted(r) <= r.holdings)
           /\ \/ AfterCash(r) <= r.holdings
              \/ OverPosition(r) \/ PositionCap(r) <= r.holdings
              \/ OverExposure(r) \/ AggregateCap(r) <= r.holdings
  BY DEF EvaluateRisk, Reject, NoOp, Accept

LEMMA RefusalLeavesNoShare ==
    ASSUME NEW r \in Request, RequestValid(r), Buying(r),
           EvaluateRisk(r).reason \in {"INSUFFICIENT_CASH", "POSITION_LIMIT", "EXPOSURE_LIMIT"}
    PROVE  ~Permitted(r, 1)
<1> SUFFICES ASSUME Permitted(r, 1) PROVE FALSE
  OBVIOUS
<1>1. /\ r.price \in Nat \ {0} /\ r.nav \in Nat /\ r.holdings \in Nat
      /\ r.cash \in Nat /\ r.position_value \in Nat /\ MaxPositionBps \in Nat
      /\ Wanted(r) \in Int /\ PositionCap(r) \in Int /\ AggregateCap(r) \in Int
  BY RequestAmounts, RequestTypes
<1>2. r.cash \div r.price \in Int
  BY <1>1, Z3
<1>7. AfterCash(r) \in Int
  BY RequestAmounts, RequestTypes
<1>3. /\ 1 <= r.cash \div r.price /\ r.holdings + 1 <= PositionCap(r)
      /\ r.holdings + 1 <= AggregateCap(r)
      /\ WithinPosition(r, 1) /\ WithinExposure(r, 1)
  BY RequestAmounts, LimitsOfPurchase DEF Permitted
<1>4. AfterCash(r) > r.holdings
  BY <1>1, <1>2, <1>3, RefusalMeans DEF AfterCash, Least
<1>5. ~OverPosition(r)
  <2>1. \A h \in Nat, p \in Nat : (h + 1) * p >= h * p /\ h * p \in Nat /\ (h + 1) * p \in Nat
    OBVIOUS
  <2>2. OwnValue(r) * 10000 <= (r.holdings + 1) * r.price * 10000
    BY <1>1, <2>1 DEF OwnValue
  <2>3. OwnValue(r) \in Int /\ (r.holdings + 1) * r.price \in Int /\ r.nav * MaxPositionBps \in Int
    BY <1>1 DEF OwnValue
  <2> QED BY <1>3, <2>2, <2>3 DEF OverPosition, WithinPosition
<1>6. ~OverExposure(r)
  <2>1. OwnValue(r) \in Nat /\ r.nav * MaxAggregateBps \in Int
    BY <1>1, PolicyAssumption DEF OwnValue
  <2>2. OtherValue(r) <= r.position_value + 1 * r.price /\ OtherValue(r) \in Int
    BY <1>1, <2>1 DEF OtherValue
  <2> QED BY <1>1, <1>3, <2>1, <2>2 DEF OverExposure, WithinExposure
<1> QED BY <1>1, <1>3, <1>4, <1>5, <1>6, <1>7, RefusalMeans
=============================================================================
