\* Three symbols share one book and compete for two orders a day over two
\* sessions in either mode, with data cut off at either of two instants.
SPECIFICATION CycleSpec
CONSTANTS
    TheAccount = acct
    Accounts = {acct}
    Symbols = {"A", "B", "C"}
    SymbolOrder <- ThreeSymbols
    MaxSession = 2
    MaxTime <- LastInstant
    ChainTimes = {}
    Modes = {"shadow", "fills"}
    Closes = {10}
    Offsets <- FirstLater
    Answers <- PairAnswers
    EventTimes = {}
    EventIds = {}
    DecisionIds <- CycleIds
    ProposalIds <- CycleIds
    ReviewIds <- CycleIds
    OrderIds <- CycleIds
    FillIds <- CycleIds
    KsfIds <- CycleIds
    Keys <- CycleIds
    NavIds <- CycleNavIds
    Deposits = {100}
    TargetBps = {}
    Quantities = {}
    Prices = {}
    Charges = {}
    MaxPositionBps = 4000
    MaxAggregateBps = 6000
    DailyOrderCap = 2
    DailyFillCap = 2
    DailyLossStop = 30
    DrawdownStopBps = 5000
    MinNotional = 10
    FeeBps = 15
    SellTaxBps = 20
    SlippageBps = 10
INVARIANTS AllOrNothing SessionWithinLimits
