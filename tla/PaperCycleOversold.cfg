\* One symbol over three sessions in either mode.
SPECIFICATION CycleSpec
CONSTANTS
    TheAccount = acct
    Accounts = {acct}
    Symbols = {"A"}
    SymbolOrder <- OneSymbol
    MaxSession = 3
    MaxTime <- LastInstant
    ChainTimes = {}
    Modes = {"shadow", "fills"}
    Closes = {10}
    Offsets <- Together
    Answers <- AllAnswers
    EventTimes = {}
    EventIds = {}
    DecisionIds <- CycleIds
    ProposalIds <- CycleIds
    ReviewIds <- CycleIds
    OrderIds <- CycleIds
    FillIds <- CycleIds
    KsfIds <- CycleIds
    Keys <- CycleIds
    NavIds <- CycleNavIds
    Deposits = {100}
    TargetBps = {}
    Quantities = {}
    Prices = {}
    Charges = {}
    MaxPositionBps = 4000
    MaxAggregateBps = 6000
    DailyOrderCap = 2
    DailyFillCap = 2
    DailyLossStop = 30
    DrawdownStopBps = 5000
    MinNotional = 10
    FeeBps = 15
    SellTaxBps = 20
    SlippageBps = 10
INVARIANTS AcceptedSalesHeld
