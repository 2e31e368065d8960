CONSTANT MaxTasks = 2
SPECIFICATION FairSpec
INVARIANTS SubtreeOver Outcome
PROPERTIES ImplementsGroup RunReturns GoReturns
