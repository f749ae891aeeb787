SPECIFICATION Spec
CONSTANTS
    c1 = c1
    e1 = e1
    e2 = e2
    Nobody = Nobody
    NoExecutor = NoExecutor
    Callers = {c1}
    MaxThreads = 3
    Generations = 2
    Ranges <- ReducedJob
    MaxJobs = 2
    JobIdModulus = 4
    Executors = {e1, e2}
    FirstExecutors = {e1}
INVARIANTS
    TypeOK
    ActiveCount
    AssertionsHold
    RecruitedCount
    FreedWhenUnused
    OneThreadPerInfo
