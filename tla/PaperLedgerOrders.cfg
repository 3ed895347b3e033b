\* Two complete authority chains compete for one account and one symbol; the
\* deposit pays for one purchase and its charges only.
SPECIFICATION Spec
CONSTANTS
    Accounts = {acct}
    Symbols = {s1}
    DecisionIds = {d1, d2}
    ProposalIds = {p1, p2}
    ReviewIds = {r1, r2}
    OrderIds = {o1, o2}
    FillIds = {f1, f2}
    NavIds = {}
    EventIds = {e1}
    KsfIds = {k1, k2}
    Keys = {i1, i2}
    MaxTime = 1
    ChainTimes = {0}
    Deposits = {6}
    TargetBps = {0, 5000}
    Quantities = {1}
    Prices = {2}
    Charges = {1}
SYMMETRY Symmetry
INVARIANTS TypeOK OneFillPerSignal OrderLifecycle LongOnly
CHECK_DEADLOCK FALSE
