\* The docstring: never a silent nothing. One run whose task overtakes the commit.
CONSTANTS
    Repos = {r1}
    Runs = {a1}
    Workers = {w1}
    MaxRetries = 0
    MaxCrashes = 0
    NoRepo = NoRepo
    NoTask = NoTask
SPECIFICATION Spec
INVARIANT
    NoSilentNothing
\* Behaviours end: the requests are used up and the workers idle.
CHECK_DEADLOCK FALSE
