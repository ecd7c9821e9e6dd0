\* One run, retried twice and redelivered by a lost process, to its end.
CONSTANTS
    Repos = {r1}
    Runs = {a1}
    Workers = {w1}
    MaxRetries = 2
    MaxCrashes = 1
    NoRepo = NoRepo
    NoTask = NoTask
SPECIFICATION FairSpec
INVARIANTS
    NoDuplicateWithoutCrash
    SuccessIsAccountedFor
PROPERTIES
    SearchDocWrittenOnce
    AttemptsAreCounted
    TasksEnd
\* Behaviours end: the requests are used up and the workers idle.
CHECK_DEADLOCK FALSE
