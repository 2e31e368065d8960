CONSTANTS
    Procs = {main, t1, t2}
    Tasks = {t1, t2}
    MaxReaders = 2
SPECIFICATION FairSpec
INVARIANTS Exclusive CountersExact NoLostWriter
PROPERTIES AdmittedEnters CancelReturns FreeIsTaken
CHECK_DEADLOCK FALSE
