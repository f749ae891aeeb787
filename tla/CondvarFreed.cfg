SPECIFICATION CondvarSpec
CONSTANTS
    c1 = c1
    e1 = e1
    Nobody = Nobody
    NoExecutor = NoExecutor
    Callers = {c1}
    MaxThreads = 2
    Generations = 1
    Ranges <- ReducedJob
    MaxJobs = 1
    JobIdModulus = 4
    Executors = {e1}
    FirstExecutors = {e1}
    DontSpinWorkers = FALSE
INVARIANTS
    DecrementIsLastTouch
CHECK_DEADLOCK FALSE
