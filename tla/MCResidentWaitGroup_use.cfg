CONSTANTS
    Procs = {main, t1, t2, t3}
    Tasks = {t1, t2, t3}
    MaxCount = 2
    Misuse = FALSE
SPECIFICATION FairSpec
INVARIANTS GateNotKept ReuseIsReal
PROPERTIES ZeroReleases CancelReturns
CHECK_DEADLOCK FALSE
