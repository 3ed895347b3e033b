\* Two runs over three days with a holiday, and their decisions settled by
\* any number of calls.
SPECIFICATION DeskSpec
CONSTANTS
    LastDay = 3
    Holidays = {2}
    MaxRuns = 2
    Optional = {"peer", "usdkrw"}
    StaleAfter <- OneDay
    Horizons = {1}
INVARIANTS NoLookAhead RequiredOfItsSession AsOfStable Loadable ReadyIsFresh
    SettledReproducible
PROPERTIES SettledOnce
CHECK_DEADLOCK FALSE
