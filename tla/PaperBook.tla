----------------------------- MODULE PaperBook -----------------------------
(***************************************************************************)
(* What the paper cycle promises of an account, whatever happens inside a  *)
(* cycle: a session is one step.  In fills mode it executes every queued   *)
(* order, once, whole, at that session's closing prices and charges, and   *)
(* queues the orders it approves; in shadow mode it moves nothing.  Cash   *)
(* and holdings never become negative.                                     *)
(***************************************************************************)
EXTENDS PaperBroker, FiniteSetsExt

CONSTANTS Symbols, Sessions, Modes, Closes, Deposits

VARIABLES
    sessions,   \* [session -> the mode it was committed in, or "none"]
    cash,       \* KRW
    holdings,   \* [symbol -> shares]
    queue       \* orders that wait: [session, symbol, side, quantity]

book == <<sessions, cash, holdings, queue>>

Init ==
    /\ sessions = [s \in Sessions |-> "none"]
    /\ cash \in Deposits
    /\ holdings = [s \in Symbols |-> 0]
    /\ queue = {}

Gross(o, closes)  == FillPrice(o.side, closes[o.symbol]) * o.quantity
Charge(o, closes) == Fee(Gross(o, closes)) + Tax(o.side, Gross(o, closes))
Moved(o, closes) ==
    IF o.side = "BUY" THEN -Gross(o, closes) - Charge(o, closes)
                      ELSE Gross(o, closes) - Charge(o, closes)
Shares(o, symbol) ==
    IF o.symbol # symbol THEN 0 ELSE IF o.side = "BUY" THEN o.quantity ELSE -o.quantity

ExecuteQueue ==
    /\ \E closes \in [Symbols -> Closes] :
         cash' = cash + MapThenSumSet(LAMBDA o : Moved(o, closes), queue)
    /\ holdings' = [s \in Symbols |->
                      holdings[s] + MapThenSumSet(LAMBDA o : Shares(o, s), queue)]
    /\ cash' >= 0 /\ \A s \in Symbols : holdings'[s] >= 0

Session(s) ==
    /\ sessions[s] = "none"
    /\ \E mode \in Modes :
         /\ sessions' = [sessions EXCEPT ![s] = mode]
         /\ IF mode = "fills"
            THEN ExecuteQueue /\ \A o \in queue' : o.session = s /\ o.quantity >= 1
            ELSE UNCHANGED <<cash, holdings, queue>>

Next == \E s \in Sessions : Session(s)

Spec == Init /\ [][Next]_book
=============================================================================
