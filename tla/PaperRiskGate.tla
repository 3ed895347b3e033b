--------------------------- MODULE PaperRiskGate ---------------------------
(***************************************************************************)
(* One symbol of one account, reviewed against a standing proposal and     *)
(* executed at the reference price without costs, again and again: what    *)
(* the numbers of PaperRisk do to a book when nothing else moves it.       *)
(***************************************************************************)
EXTENDS PaperRisk

CONSTANT Requests    \* the requests a review may start from

ASSUME RequestsAssumption ==
    Requests \subseteq {r \in Request : RequestValid(r)}

VARIABLES
    request,   \* the proposal, and the book it is reviewed against
    result     \* of the last review; verdict "NONE" before it

gate == <<request, result>>

NotReviewed == [verdict |-> "NONE", quantity |-> 0, reason |-> "none"]

Init == request \in Requests /\ result = NotReviewed

Review ==
    /\ result = NotReviewed
    /\ result' = EvaluateRisk(request)
    /\ UNCHANGED request

Signed(r, quantity) == IF Buying(r) THEN quantity ELSE -quantity

(* A fill under an ExecutionPolicy whose rates are all 0.  The NAV and its *)
(* history stay; the session counts stay too, as on a later session.       *)
Execute ==
    /\ Accepted(result)
    /\ LET bought == Signed(request, result.quantity)
       IN  request' = [request EXCEPT
             !.holdings = @ + bought,
             !.cash = @ - bought * request.price,
             !.position_value = @ + bought * request.price]
    /\ result' = NotReviewed

Next == Review \/ Execute

Spec == Init /\ [][Next]_gate

-----------------------------------------------------------------------------
(***************************************************************************)
(* Properties                                                              *)
(***************************************************************************)
(* The book of a request never becomes one that RiskInput would refuse: no *)
(* negative cash or holdings, and the NAV stays cash plus positions.       *)
BookStaysValid == RequestValid(request)

(* The risk engine owns the quantity: an accepted purchase is one whole    *)
(* share or more, is paid from cash and stays within the target and within *)
(* both caps.                                                              *)
BuyWithinLimits ==
    (Accepted(result) /\ Buying(request)) =>
        result.quantity >= 1 /\ Permitted(request, result.quantity)

(* It is also never smaller than it need be, and a purchase is refused for *)
(* lack of cash or for a cap only when not one share would be permitted.   *)
BuyIsMaximal ==
    Buying(request) =>
        /\ Accepted(result) => ~Permitted(request, result.quantity + 1)
        /\ result.reason \in {"INSUFFICIENT_CASH", "POSITION_LIMIT", "EXPOSURE_LIMIT"}
             => ~Permitted(request, 1)

(* Both: an accepted purchase is the largest one that the limits permit.   *)
BuyIsLargestPermitted == BuyWithinLimits /\ BuyIsMaximal

(* An accepted sale leaves the most shares that the target allows: it      *)
(* sells what the target asks for, not a share more.                       *)
SellIsExact ==
    (Accepted(result) /\ ~Buying(request)) =>
        /\ result.quantity \in 1 .. request.holdings
        /\ WithinTarget(request, -result.quantity)
        /\ ~WithinTarget(request, 1 - result.quantity)

(* A proposal is satisfied by one fill: after it the same proposal is not  *)
(* accepted again, so a signal repeated on later sessions does not         *)
(* pyramid.                                                                *)
OneFillSatisfies == [][Execute => ~Accepted(EvaluateRisk(request'))]_gate
=============================================================================
