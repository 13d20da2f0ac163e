CONSTANTS
    t1 = t1
    everySecond = everySecond
    NoCron = NoCron
    Task = {t1}
    Repository = {r1}
    Cron = {everySecond}
    NextInstant <- NextOf
    WorkflowTasks = {}
    MaxDelay = 2
    EditMayWait = TRUE
    Horizon = 5
    MaxGeneration = 3
    MaxVersion = 1
SPECIFICATION Spec
INVARIANTS
    OccurrenceRunsOnce
