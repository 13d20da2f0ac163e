CONSTANTS
    t1 = t1
    everySecond = everySecond
    NoCron = NoCron
    Task = {t1}
    Repository = {r1}
    Cron = {everySecond}
    NextInstant <- NextOf
    WorkflowTasks = {t1}
    MaxDelay = 2
    EditMayWait = FALSE
    Horizon = 4
    MaxGeneration = 3
    MaxVersion = 2
SPECIFICATION Spec
INVARIANTS
    ScheduleAlive
    OccurrenceRunsOnce
PROPERTIES
    PendingKept
    FrozenSnapshotKept
