\* Three tokens of one user, two concurrent requests, two sweeps, both schemas.
CONSTANTS
    Tokens = {t1, t2, t3}
    Requests = {r1, r2}
    Schemas <- BothSchemas
    MaxSweeps = 2
    NoToken = NoToken
SYMMETRY Symmetry
SPECIFICATION Spec
INVARIANTS
    TypeOK
    RotationInv
    OneLiveTokenPerLogin
    SweepEndsEveryLogin
    NoHiddenLogin
PROPERTY
    EndedLoginsStayEnded
