\* An operator flips the switches between the cycles of one symbol, at the
\* instant of the first cycle and after it.
SPECIFICATION CycleSpec
CONSTANTS
    TheAccount = acct
    Accounts = {acct}
    Symbols = {"A"}
    SymbolOrder <- OneSymbol
    MaxSession = 2
    MaxTime <- LastInstant
    ChainTimes = {}
    Modes = {"fills"}
    Closes = {10}
    Offsets <- Together
    Answers <- EnterOnly
    EventTimes = {5, 6}
    EventIds = {e1, e2}
    DecisionIds <- CycleIds
    ProposalIds <- CycleIds
    ReviewIds <- CycleIds
    OrderIds <- CycleIds
    FillIds <- CycleIds
    KsfIds <- CycleIds
    Keys <- CycleIds
    NavIds <- CycleNavIds
    Deposits = {100}
    TargetBps = {}
    Quantities = {}
    Prices = {}
    Charges = {}
    MaxPositionBps = 4000
    MaxAggregateBps = 6000
    DailyOrderCap = 2
    DailyFillCap = 2
    DailyLossStop = 30
    DrawdownStopBps = 5000
    MinNotional = 10
    FeeBps = 15
    SellTaxBps = 20
    SlippageBps = 10
PROPERTIES CommitsAuthorised SwitchHistoryFinal
