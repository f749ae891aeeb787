SPECIFICATION FairSpec
CONSTANTS
    c1 = c1
    e1 = e1
    Nobody = Nobody
    NoExecutor = NoExecutor
    Callers = {c1}
    MaxThreads = 3
    Generations = 1
    Ranges <- EveryJob
    MaxJobs = 2
    JobIdModulus = 4
    Executors = {e1}
    FirstExecutors = {e1}
INVARIANTS
    UniqueThreadIds
PROPERTIES
    ImplementsContract
    CallsReturn
    ThreadsGoBack
