SPECIFICATION Spec
CONSTANTS
    MaxTasks = 3
    MaxNest = 2
    PIT_WRAP = 4
PROPERTY EveryTaskRunsAgain
CHECK_DEADLOCK FALSE
