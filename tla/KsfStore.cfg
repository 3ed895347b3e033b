\* A production run before the close and one after it, or two after it, a
\* snapshot and the paper unit, killed and failing anywhere.
SPECIFICATION FairStore
CONSTANTS
    Runners = {"timer"}
    SymbolOrder <- TwoSymbols
    Collections <- OneCollection
    MaxRuns = 2
    MaxProductions = 2
    MaxNow = 3
INVARIANTS StoreTypeOK LedgerExclusive SnapshotComplete
    BundleMatchesHash HandoffCurrent CycleOfItsBundle
PROPERTIES LockWaitEnds
CHECK_DEADLOCK FALSE
