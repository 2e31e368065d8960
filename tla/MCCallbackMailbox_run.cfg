CONSTANTS
    Calls = {1, 2}
    NumSlots = 1
    MaxRequests = 2
SPECIFICATION FairSpec
INVARIANTS MappedWhileUsed OwnAnswerOnce
PROPERTY CallbackReturns
CHECK_DEADLOCK FALSE
