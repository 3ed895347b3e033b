------------------------ MODULE PaperProposalProofs ------------------------
(***************************************************************************)
(* For every snapshot, every book, every policy and whatever the model     *)
(* answers: the model is asked only about sound data, no answer passes     *)
(* itself off as a data problem, and what the review accepts is what the   *)
(* proposal asks for to half a basis point.                                *)
(*                                                                         *)
(* The argument: a data reason is derived from the rows (GoodData,         *)
(* EngineStructure); a validated answer has the target its action needs    *)
(* (ValidatedOK); rounding moves it by at most half a basis point          *)
(* (NearestFacts).  ProposalInv carries the three from step to step, and   *)
(* the reviews are PaperRiskProofs'.                                       *)
(***************************************************************************)
EXTENDS PaperProposal, PaperRiskProofs

-----------------------------------------------------------------------------
(***************************************************************************)
(* The review gate by itself: executions leave valid books and satisfy a   *)
(* standing proposal.                                                      *)
(***************************************************************************)
(* An execution leaves a valid book: what was bought was affordable, what  *)
(* was sold was held.                                                      *)
Book(r, bought) ==
    [r EXCEPT !.holdings = @ + bought,
              !.cash = @ - bought * r.price,
              !.position_value = @ + bought * r.price]

LEMMA BookFields ==
    ASSUME NEW r \in Request, NEW bought
    PROVE  /\ Book(r, bought).holdings = r.holdings + bought
           /\ Book(r, bought).cash = r.cash - bought * r.price
           /\ Book(r, bought).position_value = r.position_value + bought * r.price
           /\ Book(r, bought).price = r.price /\ Book(r, bought).nav = r.nav
           /\ Book(r, bought).target = r.target /\ Book(r, bought).action = r.action
           /\ Book(r, bought).high_water = r.high_water
           /\ Book(r, bought).start_nav = r.start_nav
           /\ Book(r, bought).orders = r.orders /\ Book(r, bought).fills = r.fills
  BY DEF Book, Request

LEMMA ExecutionKeepsBook ==
    ASSUME NEW r \in Request, RequestValid(r), Accepted(EvaluateRisk(r))
    PROVE  LET s == Book(r, Signed(r, EvaluateRisk(r).quantity))
           IN  s \in Request /\ RequestValid(s)
<1> DEFINE bought == Signed(r, EvaluateRisk(r).quantity)
           s == Book(r, bought)
<1>1. /\ r.price \in Nat \ {0} /\ r.holdings \in Nat
      /\ r.cash \in Nat /\ r.position_value \in Nat /\ r.nav \in Nat
  BY RequestAmounts, RequestTypes
<1>2. /\ bought \in Int /\ r.holdings + bought >= 0
      /\ bought * r.price <= r.cash
  <2>1. CASE Buying(r)
    <3>1. /\ bought = Quantity(r) /\ Quantity(r) \in Int /\ Quantity(r) >= 1
          /\ Permitted(r, Quantity(r))
      BY <2>1, RequestAmounts, PurchaseIsLargestPermitted DEF Signed
    <3> QED BY <1>1, <3>1 DEF Permitted, Affordable
  <2>2. CASE ~Buying(r)
    <3>1. bought = Wanted(r) - r.holdings /\ Wanted(r) \in Nat /\ Wanted(r) < r.holdings
      <4>1. /\ Wanted(r) \in Int /\ Wanted(r) >= 0 /\ Wanted(r) < r.holdings
            /\ EvaluateRisk(r).quantity = r.holdings - Wanted(r)
        BY <2>2, SaleLeavesWanted
      <4> QED BY <1>1, <2>2, <4>1 DEF Signed
    <3>2. bought \in Int /\ bought <= 0
      BY <1>1, <3>1
    <3>3. bought * r.price <= 0
      BY <1>1, <3>2
    <3> QED BY <1>1, <3>1, <3>2, <3>3
  <2> QED BY <2>1, <2>2
<1> HIDE DEF bought
<1>3. bought * r.price \in Int
  BY <1>1, <1>2
<1>4. r.holdings * r.price + bought * r.price = (r.holdings + bought) * r.price
  BY <1>1, <1>2
<1>5. /\ r.nav = r.cash + r.position_value /\ r.holdings * r.price <= r.position_value
      /\ r.nav >= 1 /\ r.high_water >= 1 /\ r.start_nav >= 1 /\ r.high_water >= r.nav
      /\ r.orders >= 0 /\ r.fills >= 0 /\ r.target <= 10000
  BY DEF RequestValid
<1>6. /\ r.holdings + bought \in Nat /\ r.cash - bought * r.price \in Nat
      /\ (r.holdings + bought) * r.price <= r.position_value + bought * r.price
      /\ r.position_value + bought * r.price \in Nat
  <2>1. (r.holdings + bought) * r.price \in Nat
    BY <1>1, <1>2
  <2>2. r.holdings * r.price \in Nat
    BY <1>1
  <2> QED BY <1>1, <1>2, <1>3, <1>4, <1>5, <2>1, <2>2
<1>7. s \in Request
  BY <1>6 DEF Book, Request
<1>8. RequestValid(s)
  <2>1. r.nav = (r.cash - bought * r.price) + (r.position_value + bought * r.price)
    BY <1>1, <1>3, <1>5
  <2> QED BY <1>1, <1>5, <1>6, <2>1, BookFields DEF RequestValid
<1> QED BY <1>7, <1>8 DEF bought

(* One execution satisfies the proposal. *)
LEMMA SatisfiedOnce ==
    ASSUME NEW r \in Request, RequestValid(r), Accepted(EvaluateRisk(r))
    PROVE  ~Accepted(EvaluateRisk(Book(r, Signed(r, EvaluateRisk(r).quantity))))
<1> DEFINE bought == Signed(r, EvaluateRisk(r).quantity)
           s == Book(r, bought)
<1>1. s \in Request /\ RequestValid(s)
  BY ExecutionKeepsBook
<1>2. /\ r.price \in Nat \ {0} /\ r.holdings \in Nat
      /\ r.cash \in Nat /\ r.position_value \in Nat /\ r.nav \in Nat
  BY RequestAmounts, RequestTypes
<1>3. SUFFICES ASSUME Accepted(EvaluateRisk(s)) PROVE FALSE
  OBVIOUS
<1>4. /\ s.holdings = r.holdings + bought
      /\ s.cash = r.cash - bought * r.price
      /\ s.position_value = r.position_value + bought * r.price
      /\ s.price = r.price /\ s.nav = r.nav /\ s.target = r.target /\ s.action = r.action
  BY BookFields
<1>5. CASE Buying(r)
  <2>1. /\ bought = Quantity(r) /\ Quantity(r) \in Int /\ Quantity(r) >= 1
        /\ \A q \in Int : q >= 1 => ((q <= Quantity(r)) <=> Permitted(r, q))
    BY <1>5, RequestAmounts, PurchaseIsLargestPermitted DEF Signed
  <2>2. Buying(s)
    BY <1>4, <1>5 DEF Buying
  <2>3. Permitted(s, 1)
    BY <1>1, <1>3, <2>2, RequestAmounts, PurchaseIsLargestPermitted
  <2>4. Permitted(r, bought + 1)
    <3> HIDE DEF bought, s
    <3>1. bought \in Int
      BY <2>1
    <3>2. /\ (bought + 1) * r.price = bought * r.price + 1 * r.price
          /\ r.holdings + (bought + 1) = (r.holdings + bought) + 1
          /\ bought * r.price \in Int
      <4>1. \A b, h \in Int, p \in Nat :
              /\ (b + 1) * p = b * p + 1 * p /\ h + (b + 1) = (h + b) + 1
              /\ b * p \in Int
        OBVIOUS
      <4>2. r.price \in Nat /\ r.holdings \in Int
        BY <1>2
      <4> QED BY <3>1, <4>1, <4>2, Zenon
    <3>3. Affordable(s, 1) => Affordable(r, bought + 1)
      BY <1>2, <1>4, <3>2 DEF Affordable
    <3>4. WithinPosition(s, 1) => WithinPosition(r, bought + 1)
      BY <1>4, <3>2 DEF WithinPosition
    <3>5. WithinTarget(s, 1) => WithinTarget(r, bought + 1)
      BY <1>4, <3>2 DEF WithinTarget
    <3>6. WithinExposure(s, 1) => WithinExposure(r, bought + 1)
      <4>1. r.position_value + (bought + 1) * r.price = s.position_value + 1 * s.price
        BY <1>2, <1>4, <3>2
      <4> QED BY <1>4, <4>1 DEF WithinExposure
    <3> QED BY <2>3, <3>3, <3>4, <3>5, <3>6 DEF Permitted
  <2>5. bought + 1 \in Int /\ bought + 1 >= 1 /\ ~(bought + 1 <= Quantity(r))
    BY <2>1
  <2> QED BY <2>1, <2>4, <2>5
<1>6. CASE ~Buying(r)
  <2>1. /\ Wanted(r) \in Int
        /\ EvaluateRisk(r).quantity = r.holdings - Wanted(r)
    BY <1>6, SaleLeavesWanted
  <2>2. s.holdings = Wanted(r)
    BY <1>2, <1>4, <1>6, <2>1 DEF Signed
  <2>3. ~Buying(s) /\ Wanted(s) = Wanted(r)
    BY <1>4, <1>6 DEF Buying, Wanted
  <2>4. Wanted(s) < s.holdings
    BY <1>1, <1>3, <2>3, SaleLeavesWanted
  <2> QED BY <2>1, <2>2, <2>3, <2>4
<1> QED BY <1>5, <1>6

-----------------------------------------------------------------------------
(***************************************************************************)
(* The invariant: the book is valid and the result, once there is one, is  *)
(* the review of the request as it stands.                                 *)
(***************************************************************************)
GateInv ==
    /\ request \in Request /\ RequestValid(request)
    /\ result = NotReviewed \/ result = EvaluateRisk(request)

LEMMA NotReviewedIsNotAccepted == ~Accepted(NotReviewed)
  BY DEF Accepted, NotReviewed

LEMMA GateStep == GateInv /\ [Next]_gate => GateInv'
<1> SUFFICES ASSUME GateInv, [Next]_gate PROVE GateInv'
  OBVIOUS
<1>1. CASE Review
  BY <1>1 DEF Review, GateInv
<1>2. CASE Execute
  <2>1. Accepted(EvaluateRisk(request)) /\ result = EvaluateRisk(request)
    BY <1>2, NotReviewedIsNotAccepted DEF Execute, GateInv
  <2>2. request' = Book(request, Signed(request, EvaluateRisk(request).quantity))
    BY <1>2, <2>1 DEF Execute, Book
  <2>3. request' \in Request /\ RequestValid(request')
    BY <2>1, <2>2, ExecutionKeepsBook DEF GateInv
  <2> QED BY <1>2, <2>3 DEF Execute, GateInv
<1>3. CASE UNCHANGED gate
  BY <1>3 DEF gate, GateInv
<1> QED BY <1>1, <1>2, <1>3 DEF Next

LEMMA GateInvariance == Spec => []GateInv
<1>1. Init => GateInv
  BY RequestsAssumption DEF Init, GateInv
<1> QED BY <1>1, GateStep, PTL DEF Spec

(* No book ever goes negative, for any policy: RiskInput never refuses the *)
(* state that an accepted review leads to.                                 *)
THEOREM BookAlwaysValid == Spec => []BookStaysValid
<1>1. GateInv => BookStaysValid
  BY DEF GateInv, BookStaysValid
<1> QED BY <1>1, GateInvariance, PTL

LEMMA GateBuysWithin == GateInv => BuyWithinLimits
<1> SUFFICES ASSUME GateInv, Accepted(result), Buying(request)
             PROVE  result.quantity >= 1 /\ Permitted(request, result.quantity)
  BY DEF BuyWithinLimits
<1>1. result = EvaluateRisk(request) /\ request \in Request /\ RequestValid(request)
  BY NotReviewedIsNotAccepted DEF GateInv
<1>2. /\ Quantity(request) \in Int /\ Quantity(request) >= 1
      /\ EvaluateRisk(request).quantity = Quantity(request)
      /\ \A q \in Int : q >= 1 => ((q <= Quantity(request)) <=> Permitted(request, q))
  BY <1>1, RequestAmounts, PurchaseIsLargestPermitted
<1> QED BY <1>1, <1>2

(* Every accepted purchase is affordable and within target and caps. *)
THEOREM PurchasesWithinLimits == Spec => []BuyWithinLimits
BY GateBuysWithin, GateInvariance, PTL

LEMMA GateBuysMost == GateInv => BuyIsMaximal
<1> SUFFICES ASSUME GateInv, Buying(request)
             PROVE  /\ Accepted(result) => ~Permitted(request, result.quantity + 1)
                    /\ result.reason \in {"INSUFFICIENT_CASH", "POSITION_LIMIT", "EXPOSURE_LIMIT"}
                         => ~Permitted(request, 1)
  BY DEF BuyIsMaximal
<1>1. request \in Request /\ RequestValid(request)
  BY DEF GateInv
<1>2. Accepted(result) => ~Permitted(request, result.quantity + 1)
  <2> SUFFICES ASSUME Accepted(result) PROVE ~Permitted(request, result.quantity + 1)
    OBVIOUS
  <2>1. result = EvaluateRisk(request)
    BY NotReviewedIsNotAccepted DEF GateInv
  <2>2. /\ Quantity(request) \in Int /\ Quantity(request) >= 1
        /\ EvaluateRisk(request).quantity = Quantity(request)
        /\ \A q \in Int : q >= 1 => ((q <= Quantity(request)) <=> Permitted(request, q))
    BY <1>1, <2>1, RequestAmounts, PurchaseIsLargestPermitted
  <2>3. /\ Quantity(request) + 1 \in Int /\ Quantity(request) + 1 >= 1
        /\ ~(Quantity(request) + 1 <= Quantity(request))
    BY <2>2
  <2> QED BY <2>1, <2>2, <2>3
<1>3. result.reason \in {"INSUFFICIENT_CASH", "POSITION_LIMIT", "EXPOSURE_LIMIT"}
        => ~Permitted(request, 1)
  <2>1. NotReviewed.reason = "none"
    BY DEF NotReviewed
  <2> QED BY <1>1, <2>1, RefusalLeavesNoShare DEF GateInv
<1> QED BY <1>2, <1>3

(* No accepted purchase could be larger, and one refused for cash or a cap *)
(* could not be a single share.                                            *)
THEOREM PurchasesMaximal == Spec => []BuyIsMaximal
BY GateBuysMost, GateInvariance, PTL

(* The risk engine buys as much as the limits permit, and no more. *)
THEOREM PurchasesLargest == Spec => []BuyIsLargestPermitted
BY PurchasesWithinLimits, PurchasesMaximal, PTL DEF BuyIsLargestPermitted

LEMMA GateSellsExactly == GateInv => SellIsExact
  BY NotReviewedIsNotAccepted, SaleLeavesMost DEF GateInv, SellIsExact

(* Every accepted sale sells exactly what the target asks for. *)
THEOREM SalesExact == Spec => []SellIsExact
BY GateSellsExactly, GateInvariance, PTL

LEMMA GateIsSatisfied == GateInv => [Execute => ~Accepted(EvaluateRisk(request'))]_gate
<1> SUFFICES ASSUME GateInv, Execute PROVE ~Accepted(EvaluateRisk(request'))
  OBVIOUS
<1>1. Accepted(EvaluateRisk(request)) /\ result = EvaluateRisk(request)
  BY NotReviewedIsNotAccepted DEF Execute, GateInv
<1>2. request' = Book(request, Signed(request, EvaluateRisk(request).quantity))
  BY <1>1 DEF Execute, Book
<1> QED BY <1>1, <1>2, SatisfiedOnce DEF GateInv

(* A satisfied proposal is never accepted again. *)
THEOREM NoPyramiding == Spec => OneFillSatisfies
BY GateIsSatisfied, GateInvariance, PTL DEF OneFillSatisfies

-----------------------------------------------------------------------------
(***************************************************************************)
(* The boundary, as facts about its operators.                             *)
(***************************************************************************)

(* A reason not to ask the model is one of the data reasons, or none. *)
LEMMA ReasonsOfData ==
    ASSUME NEW s, NEW cutoff
    PROVE  PreModelAbstainReason(s, cutoff) \in DataReasons \cup {"none"}
  BY DEF PreModelAbstainReason, DataReasons

(* If there is none, every required row is there, current and in time. *)
LEMMA GoodData ==
    ASSUME NEW s, NEW cutoff, PreModelAbstainReason(s, cutoff) = "none", NEW n \in Required
    PROVE  /\ n \in DOMAIN s.rows
           /\ s.rows[n].status = "READY" /\ s.rows[n].value # NoValue
           /\ s.rows[n].at <= cutoff
<1>1. /\ StructureCanonical(s) /\ TimesConsistent(s, cutoff)
      /\ s.license_blocked \cap Required = {}
      /\ s.missing_required \ s.license_blocked = {} /\ s.stale_required = {}
  BY DEF PreModelAbstainReason
<1>2. Lists(s) = DerivedLists(s)
  BY <1>1 DEF StructureCanonical
<1>3. /\ s.missing_required = DerivedMissingRequired(s)
      /\ s.stale_required = DerivedStaleRequired(s)
  BY <1>2 DEF Lists, DerivedLists
<1>4. n \notin DerivedMissingRequired(s) /\ n \notin DerivedStaleRequired(s)
  BY <1>1, <1>3
<1>5. Valued(s, n) /\ ~Is(s, n, {"MISSING_REQUIRED", "MISSING_OPTIONAL", "LICENSE_BLOCKED"})
  BY <1>4 DEF DerivedMissingRequired
<1>6. ~Is(s, n, {"STALE"})
  BY <1>4 DEF DerivedStaleRequired
<1>7. n \in DOMAIN s.rows /\ s.rows[n].value # NoValue
  BY <1>5 DEF Valued
<1>8. s.rows[n].status \in Statuses
  BY <1>1, <1>7 DEF StructureCanonical, Is
<1>9. s.rows[n].status = "READY"
  BY <1>5, <1>6, <1>7, <1>8 DEF Is, Statuses
<1> QED BY <1>1, <1>7, <1>9 DEF TimesConsistent

(* The engine's derivations and the boundary's agree on what the engine    *)
(* makes, but for the two kinds of rows the engine handles differently.    *)
RowsWithoutExcuse(selected) ==
    \A n \in DOMAIN selected :
        /\ ~(GroupOf[n] = Unrouted /\ selected[n].status = "LICENSE_BLOCKED")
        /\ ~(n \notin Required \cup Optional /\ selected[n].value = NoValue
               /\ selected[n].status \in {"READY", "STALE"})

LEMMA EngineStructure ==
    ASSUME NEW selected, NEW cutoff, RowsWithoutExcuse(selected),
           \A n \in DOMAIN selected : selected[n].status \in Statuses
    PROVE  LET s == EngineOutput(selected, cutoff)
           IN  StructureCanonical(s) /\ Normalized(s) /\ s.output_id = Payload(s)
<1> DEFINE s == EngineOutput(selected, cutoff)
           routed == {m \in DOMAIN selected : GroupOf[m] # Unrouted}
           lists == EngineLists(selected)
<1>1. s.rows = [n \in routed |-> selected[n]]
  BY DEF EngineOutput, WithId
<1>2. /\ DOMAIN s.rows = routed
      /\ \A n \in routed : s.rows[n] = selected[n]
  BY <1>1
<1>3. /\ s.caps = CapOf /\ s.exact = TRUE
      /\ s.contributions = [g \in Groups |-> ContributionBps(s.rows, g, CapOf[g])]
  BY DEF EngineOutput, WithId
<1>4. /\ s.missing_required = lists.missing_required /\ s.stale_required = lists.stale_required
      /\ s.missing_optional = lists.missing_optional /\ s.license_blocked = lists.license_blocked
      /\ s.state = lists.state /\ s.scoring_allowed = lists.scoring_allowed
  BY DEF EngineOutput, WithId
<1>5. s.output_id = Payload(s)
  BY DEF EngineOutput, WithId, Payload, Lists
<1>6. \A n \in Required \cup Optional : n \in DOMAIN selected <=> n \in DOMAIN s.rows
  BY <1>2, AgentAssumption
<1>7. ASSUME NEW n \in Required \cup Optional, NEW S
      PROVE  /\ Is(s, n, S) <=> (n \in DOMAIN selected /\ selected[n].status \in S)
             /\ Valued(s, n) <=> (n \in DOMAIN selected /\ selected[n].value # NoValue)
  BY <1>2, <1>6 DEF Is, Valued
<1>8. lists.missing_required = DerivedMissingRequired(s)
  BY <1>7 DEF EngineLists, DerivedMissingRequired
<1>9. lists.stale_required = DerivedStaleRequired(s)
  BY <1>7 DEF EngineLists, DerivedStaleRequired
<1>10. lists.missing_optional = DerivedMissingOptional(s)
  BY <1>6, <1>7 DEF EngineLists, DerivedMissingOptional
<1>11. lists.license_blocked = DerivedLicenseBlocked(s)
  BY <1>2 DEF EngineLists, DerivedLicenseBlocked, Is, RowsWithoutExcuse
<1>12. lists.state = DerivedState(s)
  BY <1>8, <1>9, <1>10 DEF EngineLists, DerivedState
<1>13. Lists(s) = DerivedLists(s)
  <2>1. lists.scoring_allowed = (lists.state \in {"READY", "PARTIAL_DATA"})
    BY DEF EngineLists
  <2> QED BY <2>1, <1>4, <1>8, <1>9, <1>10, <1>11, <1>12 DEF Lists, DerivedLists
<1>14. ASSUME NEW n \in DOMAIN s.rows
       PROVE  GroupOf[n] # Unrouted /\ Is(s, n, Statuses)
  BY <1>2 DEF Is
<1>15. ASSUME NEW n \in DOMAIN s.rows, Is(s, n, {"READY", "STALE"}), ~Valued(s, n)
       PROVE  n \in NamedUnavailable(s)
  <2>1. /\ n \in DOMAIN selected /\ selected[n].value = NoValue
        /\ selected[n].status \in {"READY", "STALE"}
    BY <1>2, <1>15 DEF Is, Valued
  <2>2. CASE n \in Required
    <3>1. n \in DerivedMissingRequired(s)
      BY <2>2, <1>15 DEF DerivedMissingRequired
    <3> QED BY <3>1, <1>4, <1>8 DEF NamedUnavailable
  <2>3. CASE n \in Optional
    <3>1. ~Is(s, n, {"LICENSE_BLOCKED"})
      BY <2>1, <1>2 DEF Is
    <3>2. n \in DerivedMissingOptional(s)
      BY <2>3, <3>1, <1>15 DEF DerivedMissingOptional
    <3> QED BY <3>2, <1>4, <1>10 DEF NamedUnavailable
  <2> QED BY <2>1, <2>2, <2>3 DEF RowsWithoutExcuse
<1>16. ASSUME NEW g \in Groups
       PROVE  s.caps[g] = CapOf[g] /\ s.contributions[g] = ContributionBps(s.rows, g, CapOf[g])
  BY <1>3
<1>17. StructureCanonical(s)
  BY <1>13, <1>14, <1>15, <1>16 DEF StructureCanonical
<1> QED BY <1>3, <1>5, <1>17 DEF Normalized

-----------------------------------------------------------------------------
(* What a proposal promises: a reason that tells the truth about called,   *)
(* and a target that fits its action.                                      *)
ProposalOK(p, asked) ==
    /\ p.action = "ABSTAIN" => (p.reason \in DataReasons <=> ~asked)
    /\ p.action \in {"ENTER", "REDUCE"} => p.target \in Nat \ {0} /\ p.target <= 100000
    /\ p.action = "EXIT" => p.target = 0

LEMMA AbstainOK ==
    ASSUME NEW r, NEW reason, NEW asked \in BOOLEAN, reason \in DataReasons <=> ~asked
    PROVE  ProposalOK(Abstain(r, reason), asked)
  BY DEF ProposalOK, Abstain

(* Whatever the model answers: a validated answer keeps the promise. *)
LEMMA ValidatedOK ==
    ASSUME NEW p, NEW r, r.holdings.value \in Nat, r.holdings.total \in Nat
    PROVE  ProposalOK(Validated(p, r), TRUE)
<1>1. CASE ~ValidProposal(p, r, "model")
  <2>1. "MODEL_OUTPUT_INVALID" \notin DataReasons
    BY DEF DataReasons
  <2> QED BY <1>1, <2>1, AbstainOK DEF Validated
<1>2. CASE ValidProposal(p, r, "model")
  <2>1. /\ Validated(p, r).action = p.action /\ Validated(p, r).target = p.target
        /\ Validated(p, r).reason = p.reason
    BY <1>2 DEF Validated
  <2>2. p.target \in Nat /\ p.target <= 100000
    BY <1>2 DEF ValidProposal
  <2>3. CASE p.action = "ABSTAIN"
    <3>1. p.reason \in ModelReasons
      BY <1>2, <2>3 DEF ValidProposal, AbstainValid
    <3> QED BY <2>1, <2>3, <3>1 DEF ProposalOK, ModelReasons, DataReasons
  <2>4. CASE p.action # "ABSTAIN"
    <3>1. ActionValid(p, r)
      BY <1>2, <2>4 DEF ValidProposal
    <3>2. /\ p.action = "ENTER" => p.target * r.holdings.total > r.holdings.value * 100000
          /\ p.action = "REDUCE" => 0 < p.target
          /\ p.action = "EXIT" => p.target = 0
      BY <3>1 DEF ActionValid
    <3>3. p.action = "ENTER" => p.target # 0
      BY <3>2, Z3
    <3>4. p.action \in {"ENTER", "REDUCE"} => p.target \in Nat \ {0}
      BY <2>2, <3>2, <3>3
    <3> QED BY <2>1, <2>2, <2>4, <3>2, <3>4 DEF ProposalOK
  <2> QED BY <2>3, <2>4
<1> QED BY <1>1, <1>2

(* Half a basis point at most, and never beyond the whole of the NAV. *)
LEMMA NearestFacts ==
    ASSUME NEW target \in Nat, target <= 100000, NEW bps \in NearestBps(target)
    PROVE  /\ bps \in Nat /\ bps <= 10000
           /\ 10 * bps <= target + 5 /\ 10 * bps >= target - 5
<1> DEFINE tens == target \div 10
<1>1. tens \in Nat /\ 10 * tens <= target /\ target < 10 * tens + 10
  BY Z3
<1> HIDE DEF tens
<1>2. /\ bps = tens \/ bps = tens + 1
      /\ Clamped(10 * bps - target, 5) = 10 * bps - target
  BY DEF NearestBps, tens
<1>3. bps \in Nat /\ 10 * bps - target \in Int
  BY <1>1, <1>2
<1>4. \A x \in Int : Clamped(x, 5) = x => x <= 5 /\ x >= -5
  BY DEF Clamped
<1>5. 10 * bps - target <= 5 /\ 10 * bps - target >= -5
  BY <1>2, <1>3, <1>4
<1> QED BY <1>1, <1>3, <1>5

-----------------------------------------------------------------------------
(***************************************************************************)
(* The invariant: the reviews' own (GateInv), and how far propose has come *)
(* with what is known of its request and of its proposal.                  *)
(***************************************************************************)
BeforeProposal == stage \in {"build", "ask"}

Asking ==
    /\ model_request = << >> \/ model_request.reason = PreModelAbstainReason(input.snapshot, input.cutoff)
    /\ stage = "build" => model_request = << >>
    /\ stage = "ask" => /\ model_request.reason = PreModelAbstainReason(input.snapshot, input.cutoff)
                        /\ model_request.holdings = Holdings(request)
    /\ stage \in {"build", "ask", "proposed"} => input \in Inputs
    /\ model_request # << >> => input \in Inputs
    /\ called \in BOOLEAN
    /\ called => PreModelAbstainReason(input.snapshot, input.cutoff) = "none"
    /\ BeforeProposal => ~called /\ proposal = << >>

Answered ==
    /\ proposal = << >> \/ ProposalOK(proposal, called)
    /\ stage = "proposed" => ProposalOK(proposal, called)

Deciding ==
    /\ stage \in {"build", "ask", "proposed", "review", "raised", "done"}
    /\ stage # "review" => result = NotReviewed
    /\ (stage = "review" /\ Proposed) =>
          /\ proposal.target \in Nat
          /\ 10 * request.target <= proposal.target + 5
          /\ 10 * request.target >= proposal.target - 5
    /\ OnlyTinyTargetsRaise

ProposalInv == GateInv /\ Asking /\ Answered /\ Deciding

LEMMA ProposalInitially == ProposalInit => ProposalInv
<1> SUFFICES ASSUME ProposalInit PROVE ProposalInv
  OBVIOUS
<1>1. GateInv
  BY RequestsAssumption, BooksAssumption DEF ProposalInit, GateInv
<1>2. Asking
  BY DEF ProposalInit, Asking, BeforeProposal
<1>3. Answered /\ Deciding
  BY DEF ProposalInit, Answered, Deciding, Proposed, OnlyTinyTargetsRaise
<1> QED BY <1>1, <1>2, <1>3 DEF ProposalInv

LEMMA BuildStep == ProposalInv /\ BuildProposalRequest => ProposalInv'
<1> SUFFICES ASSUME ProposalInv, BuildProposalRequest PROVE ProposalInv'
  OBVIOUS
<1> USE DEF ProposalInv
<1>1. GateInv' /\ result = NotReviewed
  BY DEF BuildProposalRequest, gate, GateInv, Deciding
<1>2. Asking'
  BY DEF BuildProposalRequest, gate, Asking, ModelRequest, BeforeProposal
<1>3. Answered' /\ Deciding'
  BY <1>1 DEF BuildProposalRequest, gate, Asking, BeforeProposal, Answered, Deciding, Proposed,
              OnlyTinyTargetsRaise
<1> QED BY <1>1, <1>2, <1>3

LEMMA AbstainStep == ProposalInv /\ AbstainOnData => ProposalInv'
<1> SUFFICES ASSUME ProposalInv, AbstainOnData PROVE ProposalInv'
  OBVIOUS
<1> USE DEF ProposalInv
<1>1. GateInv' /\ result = NotReviewed
  BY DEF AbstainOnData, gate, GateInv, Deciding
<1>2. Asking'
  BY DEF AbstainOnData, gate, Asking, BeforeProposal
<1>3. model_request.reason \in DataReasons /\ called \in BOOLEAN /\ ~called
  BY ReasonsOfData DEF AbstainOnData, Asking, BeforeProposal
<1>4. ProposalOK(Abstain(model_request, model_request.reason), called)
  BY <1>3, AbstainOK
<1>5. Answered' /\ Deciding'
  BY <1>1, <1>4 DEF AbstainOnData, gate, Answered, Deciding, Proposed, OnlyTinyTargetsRaise
<1> QED BY <1>1, <1>2, <1>5

LEMMA AskStep == ProposalInv /\ AskModel => ProposalInv'
<1> SUFFICES ASSUME ProposalInv, AskModel PROVE ProposalInv'
  OBVIOUS
<1> USE DEF ProposalInv
<1>1. GateInv' /\ result = NotReviewed
  BY DEF AskModel, gate, GateInv, Deciding
<1>2. Asking'
  BY DEF AskModel, gate, Asking, BeforeProposal
<1>3. ProposalOK(proposal', TRUE)
  <2>1. CASE \E reason \in {"MODEL_TIMEOUT", "MODEL_PROVIDER_ERROR", "OFFLINE_SHADOW_MODE"} :
                proposal' = Abstain(model_request, reason)
    <3>1. {"MODEL_TIMEOUT", "MODEL_PROVIDER_ERROR", "OFFLINE_SHADOW_MODE"} \cap DataReasons = {}
      BY DEF DataReasons
    <3> QED BY <2>1, <3>1, AbstainOK
  <2>2. CASE \E answer \in Answers(model_request) : proposal' = Validated(answer, model_request)
    <3>1. model_request.holdings = Holdings(request)
      BY DEF AskModel, Asking
    <3>2. /\ request.holdings \in Nat /\ request.price \in Nat /\ request.nav \in Nat
      BY RequestAmounts, RequestTypes DEF GateInv
    <3>3. model_request.holdings.value \in Nat /\ model_request.holdings.total \in Nat
      BY <3>1, <3>2 DEF Holdings
    <3> QED BY <2>2, <3>3, ValidatedOK
  <2> QED BY <2>1, <2>2 DEF AskModel
<1>4. called' = TRUE /\ stage' = "proposed" /\ gate' = gate
  BY DEF AskModel
<1>5. Answered'
  BY <1>3, <1>4 DEF Answered
<1>6. Deciding'
  BY <1>1, <1>4 DEF gate, Deciding, Proposed, OnlyTinyTargetsRaise
<1> QED BY <1>1, <1>2, <1>5, <1>6

LEMMA OverflowStep == ProposalInv /\ AnswerOverflows => ProposalInv'
<1> SUFFICES ASSUME ProposalInv, AnswerOverflows PROVE ProposalInv'
  OBVIOUS
<1> USE DEF ProposalInv
<1>1. GateInv' /\ result = NotReviewed
  BY DEF AnswerOverflows, gate, GateInv, Deciding
<1>2. Asking' /\ proposal = << >> /\ proposal' = << >>
  BY DEF AnswerOverflows, gate, Asking, BeforeProposal
<1>3. Answered' /\ Deciding'
  BY <1>1, <1>2 DEF AnswerOverflows, gate, Answered, Deciding, Proposed, OnlyTinyTargetsRaise
<1> QED BY <1>1, <1>2, <1>3

LEMMA RequestOfProposal ==
    ASSUME NEW r \in Request, NEW action \in {"ENTER", "REDUCE", "EXIT"}, NEW target \in Nat
    PROVE  [r EXCEPT !.action = action, !.target = target] \in Request
  BY DEF Request

LEMMA DecideStep == ProposalInv /\ Decide => ProposalInv'
<1> SUFFICES ASSUME ProposalInv, Decide PROVE ProposalInv'
  OBVIOUS
<1> USE DEF ProposalInv
<1>1. /\ stage = "proposed" /\ result = NotReviewed /\ ProposalOK(proposal, called)
      /\ boundary' = boundary
  BY DEF Decide, Answered, Deciding
<1>2. Answered' /\ Asking'
  BY <1>1 DEF boundary, Decide, Answered, Asking, BeforeProposal
<1>3. CASE proposal.action \notin {"ENTER", "REDUCE", "EXIT"}
  <2>1. stage' = "done" /\ gate' = gate
    BY <1>3 DEF Decide
  <2> QED BY <1>1, <1>2, <2>1 DEF gate, GateInv, Deciding, Proposed, OnlyTinyTargetsRaise
<1>4. CASE proposal.action \in {"ENTER", "REDUCE", "EXIT"}
  <2>1. proposal.target \in Nat /\ proposal.target <= 100000
    BY <1>1, <1>4 DEF ProposalOK
  <2>2. PICK bps \in NearestBps(proposal.target) :
          IF (proposal.action \in {"ENTER", "REDUCE"}) # (bps > 0)
          THEN stage' = "raised" /\ UNCHANGED gate
          ELSE /\ stage' = "review"
               /\ request' = [request EXCEPT !.action = proposal.action, !.target = bps]
               /\ UNCHANGED result
    BY <1>4 DEF Decide
  <2>3. /\ bps \in Nat /\ bps <= 10000
        /\ 10 * bps <= proposal.target + 5 /\ 10 * bps >= proposal.target - 5
    BY <2>1, NearestFacts
  <2>4. CASE (proposal.action \in {"ENTER", "REDUCE"}) # (bps > 0)
    <3>1. stage' = "raised" /\ gate' = gate
      BY <2>2, <2>4
    <3>2. proposal.action # "EXIT"
      BY <1>1, <2>3, <2>4 DEF ProposalOK
    <3>3. proposal.action \in {"ENTER", "REDUCE"} /\ bps = 0
      BY <1>4, <2>3, <2>4, <3>2
    <3>4. proposal.target \in 1 .. 5
      BY <1>1, <2>3, <3>3 DEF ProposalOK
    <3>5. OnlyTinyTargetsRaise'
      BY <1>1, <3>3, <3>4 DEF boundary, OnlyTinyTargetsRaise
    <3> QED BY <1>1, <1>2, <3>1, <3>5 DEF gate, GateInv, Deciding
  <2>5. CASE ~((proposal.action \in {"ENTER", "REDUCE"}) # (bps > 0))
    <3>1. /\ stage' = "review" /\ result' = result
          /\ request' = [request EXCEPT !.action = proposal.action, !.target = bps]
      BY <2>2, <2>5
    <3>2. request \in Request /\ RequestValid(request)
      BY DEF GateInv
    <3>3. request' \in Request
      <4>1. [request EXCEPT !.action = proposal.action, !.target = bps] \in Request
        <5>1. bps \in Nat /\ request \in Request
          BY <2>3, <3>2
        <5> QED BY <5>1, <1>4, RequestOfProposal, Zenon
      <4> QED BY <3>1, <4>1
    <3>4. RequestValid(request')
      BY <2>3, <3>1, <3>2 DEF RequestValid, Request
    <3>5. request'.target = bps
      BY <3>1, <3>2 DEF Request
    <3>6. GateInv'
      BY <1>1, <3>1, <3>3, <3>4 DEF GateInv
    <3>7. Deciding'
      BY <1>1, <2>1, <2>3, <3>1, <3>5 DEF boundary, Deciding, Proposed, OnlyTinyTargetsRaise
    <3> QED BY <1>2, <3>6, <3>7
  <2> QED BY <2>4, <2>5
<1> QED BY <1>3, <1>4

LEMMA ReviewStep == ProposalInv /\ ReviewOrExecute => ProposalInv'
<1> SUFFICES ASSUME ProposalInv, ReviewOrExecute PROVE ProposalInv'
  OBVIOUS
<1> USE DEF ProposalInv
<1>1. /\ stage = "review" /\ stage' = stage /\ boundary' = boundary /\ Next
  BY DEF ReviewOrExecute
<1>2. GateInv'
  BY <1>1, GateStep
<1>3. request'.target = request.target
  <2>1. CASE Review
    BY <2>1 DEF Review
  <2>2. CASE Execute
    BY <2>2 DEF Execute, GateInv, Request
  <2> QED BY <1>1, <2>1, <2>2 DEF Next
<1>4. Asking' /\ Answered'
  BY <1>1 DEF boundary, Asking, Answered, BeforeProposal
<1>5. Deciding'
  BY <1>1, <1>3 DEF boundary, Deciding, Proposed, OnlyTinyTargetsRaise
<1> QED BY <1>2, <1>4, <1>5

LEMMA ProposalInvariance == ProposalSpec => []ProposalInv
<1>1. ProposalInv /\ [ProposalNext]_everything => ProposalInv'
  <2>1. ProposalInv /\ UNCHANGED everything => ProposalInv'
    BY DEF ProposalInv, everything, gate, boundary, GateInv, Asking, BeforeProposal, Answered,
           Deciding, Proposed, OnlyTinyTargetsRaise
  <2> QED
    BY <2>1, BuildStep, AbstainStep, AskStep, OverflowStep, DecideStep, ReviewStep DEF ProposalNext
<1> QED BY <1>1, ProposalInitially, PTL DEF ProposalSpec

-----------------------------------------------------------------------------
(* The model is asked only about required rows that are there, current and *)
(* not newer than the cutoff.                                              *)
THEOREM AskedOnGoodData == ProposalSpec => []TransportOnlyOnGoodData
<1>1. ProposalInv => TransportOnlyOnGoodData
  BY GoodData DEF ProposalInv, Asking, TransportOnlyOnGoodData
<1> QED BY <1>1, ProposalInvariance, PTL

(* The boundary refuses nothing the engine makes, but for the two kinds of *)
(* rows it derives differently.                                            *)
THEOREM EnginesAgree == ProposalSpec => []EngineSnapshotsPass
<1>1. ProposalInv => EngineSnapshotsPass
  <2> SUFFICES ASSUME ProposalInv, model_request # << >>,
                      input.snapshot = EngineOutput(input.selected, input.cutoff),
                      RowsWithoutExcuse(input.selected)
               PROVE  model_request.reason # "DATA_SNAPSHOT_INVALID"
    BY DEF EngineSnapshotsPass, RowsWithoutExcuse
  <2>1. /\ input \in Inputs
        /\ model_request.reason = PreModelAbstainReason(input.snapshot, input.cutoff)
    BY DEF ProposalInv, Asking
  <2>2. \A n \in DOMAIN input.selected : input.selected[n].status \in Statuses
    BY <2>1, InputsAssumption
  <2>3. /\ StructureCanonical(input.snapshot) /\ Normalized(input.snapshot)
        /\ input.snapshot.output_id = Payload(input.snapshot)
    BY <2>2, EngineStructure
  <2> QED BY <2>1, <2>3 DEF PreModelAbstainReason
<1> QED BY <1>1, ProposalInvariance, PTL

(* A proposal blames the data exactly when the model was not asked. *)
THEOREM ReasonsTruthful == ProposalSpec => []ReasonTruthful
<1>1. ProposalInv => ReasonTruthful
  BY DEF ProposalInv, Answered, ProposalOK, ReasonTruthful, Proposed
<1> QED BY <1>1, ProposalInvariance, PTL

(* A validated proposal is recorded, unless its target rounds to nothing. *)
THEOREM OnlyTinyRaise == ProposalSpec => []OnlyTinyTargetsRaise
<1>1. ProposalInv => OnlyTinyTargetsRaise
  BY DEF ProposalInv, Deciding
<1> QED BY <1>1, ProposalInvariance, PTL

(* Rounding the target costs half a basis point of the NAV, whatever it is. *)
LEMMA BoughtNear ==
    ASSUME NEW shares \in Int, NEW price \in Nat, NEW nav \in Nat,
           NEW bps \in Nat, NEW target \in Nat,
           10 * bps <= target + 5, shares * price * 10000 <= nav * bps
    PROVE  shares * price * 100000 <= nav * (target + 5)
<1>1. nav * (10 * bps) <= nav * (target + 5)
  <2> DEFINE tens == 10 * bps  more == target + 5
  <2>1. tens \in Nat /\ more \in Nat /\ tens <= more
    OBVIOUS
  <2> HIDE DEF tens, more
  <2>2. PICK d \in Nat : more = tens + d
    BY <2>1
  <2>3. nav * more = nav * tens + nav * d /\ nav * d >= 0
    BY <2>1, <2>2
  <2>4. nav * more \in Int /\ nav * tens \in Int /\ nav * d \in Int
    BY <2>1, <2>2
  <2> QED BY <2>3, <2>4 DEF tens, more
<1> DEFINE value == shares * price  share == nav * bps
<1>2. value \in Int /\ share \in Int /\ value * 10000 <= share /\ nav * (10 * bps) = 10 * share
  BY Z3
<1> QED BY <1>1, <1>2, Z3

LEMMA SoldNear ==
    ASSUME NEW shares \in Int, NEW price \in Nat, NEW nav \in Nat,
           NEW bps \in Nat, NEW target \in Nat,
           10 * bps >= target - 5, ~(shares * price * 10000 <= nav * bps)
    PROVE  shares * price * 100000 > nav * (target - 5)
<1>1. nav * (10 * bps) >= nav * (target - 5)
  <2> DEFINE tens == 10 * bps  less == target - 5
  <2>1. tens \in Int /\ less \in Int /\ less <= tens
    OBVIOUS
  <2> HIDE DEF tens, less
  <2>2. PICK d \in Nat : tens = less + d
    BY <2>1
  <2>3. nav * tens = nav * less + nav * d /\ nav * d >= 0
    BY <2>1, <2>2
  <2>4. nav * less \in Int /\ nav * tens \in Int /\ nav * d \in Int
    BY <2>1, <2>2
  <2> QED BY <2>3, <2>4 DEF tens, less
<1> DEFINE value == shares * price  share == nav * bps
<1>2. value \in Int /\ share \in Int /\ value * 10000 > share /\ nav * (10 * bps) = 10 * share
  BY Z3
<1> QED BY <1>1, <1>2, Z3

(* What an accepted review leaves is what the proposal asked for, to half  *)
(* a basis point and, for a sale, to a share.                              *)
THEOREM ApprovalsNearTarget == ProposalSpec => []ApprovedNearTarget
<1>1. ProposalInv => ApprovedNearTarget
  <2> SUFFICES ASSUME ProposalInv, Proposed, Accepted(result)
               PROVE  LET after    == request.holdings + Signed(request, result.quantity)
                          Value(q) == q * request.price * 100000
                      IN  /\ Value(after) <= request.nav * (proposal.target + 5)
                          /\ ~Buying(request) => Value(after + 1) > request.nav * (proposal.target - 5)
    BY DEF ApprovedNearTarget
  <2>1. /\ result = EvaluateRisk(request) /\ Accepted(EvaluateRisk(request))
        /\ request \in Request /\ RequestValid(request)
    BY NotReviewedIsNotAccepted DEF ProposalInv, GateInv
  <2>2. /\ proposal.target \in Nat
        /\ 10 * request.target <= proposal.target + 5
        /\ 10 * request.target >= proposal.target - 5
    BY NotReviewedIsNotAccepted DEF ProposalInv, Deciding
  <2>3. /\ request.price \in Nat /\ request.nav \in Nat /\ request.holdings \in Nat
        /\ request.target \in Nat
    BY <2>1, RequestAmounts, RequestTypes
  <2>4. CASE Buying(request)
    <3>1. result.quantity \in Int /\ WithinTarget(request, result.quantity)
      BY <2>1, <2>4, RequestAmounts, PurchaseIsLargestPermitted DEF Permitted
    <3>2. Signed(request, result.quantity) = result.quantity
      BY <2>4 DEF Signed
    <3> QED BY <2>2, <2>3, <2>4, <3>1, <3>2, BoughtNear DEF WithinTarget
  <2>5. CASE ~Buying(request)
    <3>1. /\ result.quantity \in 1 .. request.holdings
          /\ WithinTarget(request, -result.quantity)
          /\ ~WithinTarget(request, 1 - result.quantity)
      BY <2>1, <2>5, SaleLeavesMost
    <3>2. Signed(request, result.quantity) = -result.quantity
      BY <2>5 DEF Signed
    <3> QED BY <2>2, <2>3, <2>5, <3>1, <3>2, BoughtNear, SoldNear DEF WithinTarget
  <2> QED BY <2>4, <2>5
<1> QED BY <1>1, ProposalInvariance, PTL

(* The reviews of proposals are those of PaperRiskProofs, whatever came    *)
(* before them: the largest purchase, the exact sale, one fill.            *)
THEOREM ReviewsOfProposals ==
    ProposalSpec => []BuyIsLargestPermitted /\ []SellIsExact /\ OneFillSatisfies
<1>1. ProposalInv => GateInv
  BY DEF ProposalInv
<1> QED BY <1>1, ProposalInvariance, GateBuysWithin, GateBuysMost, GateSellsExactly,
           GateIsSatisfied, PTL DEF BuyIsLargestPermitted, OneFillSatisfies
=============================================================================
