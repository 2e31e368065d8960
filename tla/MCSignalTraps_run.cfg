CONSTANTS
    OsSigs = {24}
    Chld = 17
    Harmless = {17}
    MaxSubs = 2
    MaxSends = 2
    MaxRuns = 2
SPECIFICATION FairSpec
INVARIANTS ReplacedIsOver TrapBeforeNext CancelExplained
PROPERTIES WaitInterrupted OwnerSignalEndsWait CommandsReturn
CHECK_DEADLOCK FALSE
