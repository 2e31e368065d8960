CONSTANT MaxTasks = 2
SPECIFICATION Spec
INVARIANT PlainOutcome
