\* Two requests on one repository and two worker processes: how two runs of
\* the same repository interleave with each other and with their requests.
CONSTANTS
    Repos = {r1}
    Runs = {a1, a2}
    Workers = {w1, w2}
    MaxRetries = 0
    MaxCrashes = 0
    NoRepo = NoRepo
    NoTask = NoTask
SYMMETRY Symmetry
SPECIFICATION Spec
INVARIANTS
    TypeOK
    ArtefactInv
    CompletedRunHasResults
    OneCompletedRun
    AddedRunReportsInOrder
PROPERTY
    ArtefactsPublishedOnce
\* Behaviours end: the requests are used up and the workers idle.
CHECK_DEADLOCK FALSE
