CONSTANTS
    t1 = t1
    t2 = t2
    everyTick = everyTick
    NoCron = NoCron
    Task = {t1, t2}
    Repository = {r1}
    Cron = {everyTick}
    NextInstant <- NextOf
    WorkflowTasks = {}
    MaxDelay = 2
    EditMayWait = TRUE
    Horizon = 2
    MaxGeneration = 1
    MaxVersion = 0
    Batch = 1
    Failing = {t1}
    Shift = 1
SPECIFICATION PollSpec
PROPERTIES
    PendingSettles
    DueClaimed
