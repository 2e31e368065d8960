CONSTANTS
    Procs = {main, t1}
    Tasks = {t1}
    MaxCount = 1
    Misuse = TRUE
SPECIFICATION FairSpec
PROPERTIES CancelReturns
CHECK_DEADLOCK FALSE
