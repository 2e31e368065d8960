CONSTANTS
    Owner = Owner
    MaxTasks = 1
    Codes = {7}
SPECIFICATION FairSpec
PROPERTIES DeadlockDetected
