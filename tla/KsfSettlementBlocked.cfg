\* The calendar does not reach the target of a decision before a second call.
SPECIFICATION DeskSpec
CONSTANTS
    LastDay = 2
    Holidays = {}
    MaxRuns = 1
    Optional = {"peer"}
    StaleAfter <- OneDay
    Horizons = {1}
INVARIANTS BlockedStampsTheRun
CHECK_DEADLOCK FALSE
