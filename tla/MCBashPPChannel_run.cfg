CONSTANTS
    sync = sync
    queue = queue
    NilChan = NilChan
    Procs = {main, t1}
    Tasks = {t1}
    Chans = {sync, queue}
    Capacity <- MCCapacity
    Selects <- TwoChanSelects
SPECIFICATION FairSpec
INVARIANTS NoSendOnClosed OneCloser NoLostBroadcast HonestOutcome
PROPERTIES CloseReturns CancelReturns
