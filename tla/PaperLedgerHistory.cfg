\* Two chains dated at every combination of two instants and filled at 1 or 2,
\* in either order and so also back-dated, with snapshots taken at any instant
\* in between.
SPECIFICATION Spec
CONSTANTS
    Accounts = {acct}
    Symbols = {s1}
    DecisionIds = {d1, d2}
    ProposalIds = {p1, p2}
    ReviewIds = {r1, r2}
    OrderIds = {o1, o2}
    FillIds = {f1, f2}
    NavIds = {n1}
    EventIds = {}
    KsfIds = {k1, k2}
    Keys = {i1, i2}
    MaxTime = 2
    ChainTimes = {0, 1}
    Deposits = {6}
    TargetBps = {0, 5000}
    Quantities = {1}
    Prices = {2}
    Charges = {1}
SYMMETRY Symmetry
INVARIANTS Conservation Replayable AuthorityChain NoLookAhead
CHECK_DEADLOCK FALSE
