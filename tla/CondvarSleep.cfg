SPECIFICATION CondvarFairSpec
CONSTANTS
    c1 = c1
    e1 = e1
    Nobody = Nobody
    NoExecutor = NoExecutor
    Callers = {c1}
    MaxThreads = 3
    Generations = 1
    Ranges <- ReducedJob
    MaxJobs = 1
    JobIdModulus = 4
    Executors = {e1}
    FirstExecutors = {NoExecutor}
    DontSpinWorkers = FALSE
INVARIANTS
    CondvarTypeOK
    NobodySleepsThrough
    CompletionNotified
PROPERTIES
    CallsReturnOwnThreads
CHECK_DEADLOCK FALSE
