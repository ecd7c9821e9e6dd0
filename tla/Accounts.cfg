\* Two users, two addresses, two identities, a login that fits its column and
\* one that fills it, two secrets, two concurrent requests, the schema migrated both ways.
CONSTANTS
    Users = {u1, u2}
    Emails = {e1, e2}
    Logins = {short, long}
    LongLogins = {long}
    Passwords = {p1, p2}
    Identities = {i1, i2}
    MaxSecrets = 2
    Requests = {r1, r2}
    None = None
SYMMETRY Symmetry
SPECIFICATION Spec
CHECK_DEADLOCK FALSE
INVARIANTS
    TypeOK
    VerifiedMeansProven
    EveryAccountCanSignIn
PROPERTIES
    AcceptedOnce
    ConflictHasACause
