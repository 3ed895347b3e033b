\* For the bare reviews, books of up to 73 KRW with prices of 3 and 7: every division is inexact
\* somewhere, and every cap and stop is reached exactly and overstepped.
SPECIFICATION ProposalSpec
CONSTANTS
    MaxPositionBps = 5000
    MaxAggregateBps = 9000
    DailyOrderCap = 2
    DailyFillCap = 1
    DailyLossStop = 4
    DrawdownStopBps = 2500
    MinNotional = 4
    PriceValues = {3, 7}
    CashValues = {0, 2, 3, 7, 11, 26}
    HoldingValues = {0, 1, 2, 3, 5}
    OtherValues = {0, 5, 12}
    Targets = {0, 1000, 3333, 5000, 9000}
    Peaks = {0, 4, 8}
    Requests <- MCRequests
    Required = {"close", "flow"}
    Optional = {"mu"}
    Returns = {"mu", "dram"}
    Flows = {"flow"}
    Unrouted = "no group"
    GroupOf <- MCGroupOf
    CapOf <- MCCapOf
    Inputs <- MCInputs
    Books <- MCBooks
    Answers <- MCAnswers
INVARIANTS BuyIsLargestPermitted SellIsExact
    TransportOnlyOnGoodData EngineSnapshotsPass ReasonTruthful
    OnlyTinyTargetsRaise ApprovedNearTarget
PROPERTIES OneFillSatisfies
CHECK_DEADLOCK FALSE
