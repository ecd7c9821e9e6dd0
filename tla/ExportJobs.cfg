\* Two jobs, two worker processes, up to two losses of a process or connection.
CONSTANTS
    Jobs = {j1, j2}
    Workers = {w1, w2}
    MaxCrashes = 2
    NoJob = NoJob
SPECIFICATION FairSpec
INVARIANTS
    TypeOK
    UnfinishedJobsHaveACause
    DeliveriesAreBounded
PROPERTIES
    JobsFollowTheLifecycle
    ExportsEnd
\* Behaviours end: the jobs are used up and the workers idle.
CHECK_DEADLOCK FALSE
