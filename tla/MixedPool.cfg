SPECIFICATION Spec
CONSTANTS
    c1 = c1
    e1 = e1
    Nobody = Nobody
    NoExecutor = NoExecutor
    Callers = {c1}
    MaxThreads = 3
    Generations = 2
    Ranges <- EveryJob
    MaxJobs = 1
    JobIdModulus = 2
    Executors = {e1}
    FirstExecutors = {NoExecutor}
INVARIANTS
    UniqueThreadIds
