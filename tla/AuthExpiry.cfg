\* The docstring of _db_now, on the schema the migrations end with.
CONSTANTS
    Tokens = {t1, t2, t3}
    Requests = {r1, r2}
    Schemas <- MigratedSchema
    MaxSweeps = 1
    NoToken = NoToken
SYMMETRY Symmetry
SPECIFICATION Spec
INVARIANT
    ExpiryCanBeCompared
