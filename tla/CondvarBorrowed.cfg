SPECIFICATION CondvarFairSpec
CONSTANTS
    c1 = c1
    e1 = e1
    Nobody = Nobody
    NoExecutor = NoExecutor
    Callers = {c1}
    MaxThreads = 3
    Generations = 1
    Ranges <- ReducedJob
    MaxJobs = 2
    JobIdModulus = 4
    Executors = {e1}
    FirstExecutors = {e1}
    DontSpinWorkers = FALSE
PROPERTIES
    NeverBlocked
CHECK_DEADLOCK FALSE
