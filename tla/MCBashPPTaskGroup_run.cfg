CONSTANTS
    Owner = Owner
    MaxTasks = 2
    Codes = {7, 9}
SPECIFICATION FairSpec
INVARIANTS JoinIsComplete JoinNotForgotten FastFailureSeen FileStatus
PROPERTIES ImplementsGroup JoinReturns LaunchReturns FailureInterruptsOwner
