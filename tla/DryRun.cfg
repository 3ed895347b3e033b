\* The timer's wrapper and a job of the service, two symbols, two cycles.
SPECIFICATION Spec
CONSTANTS
    Watchlist <- RepeatedSymbol
    Jobs = {"timer", "service"}
    Refreshers = {"timer"}
    Prices = {0, 2, 5}
    DefaultCash = 10
    MinOrderCash = 1
    PctNum = 1
    PctDen = 2
    MaxCycles = 2
INVARIANTS Conserved PurchaseWithinCap
CHECK_DEADLOCK FALSE
