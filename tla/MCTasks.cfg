SPECIFICATION Spec
CONSTANTS
    MaxTasks = 4
    MaxNest = 2
    PIT_WRAP = 4
INVARIANTS
    TypeOK
    ReadyListWhole
    ParkedTasksResumable
    ReturnsAreMatched
    DirectoryFollowsTask
PROPERTIES
    SchedulesRoundRobin
    ForkCompletes
CHECK_DEADLOCK FALSE
