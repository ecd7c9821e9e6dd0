\* The comment on the usage rollup: the daily row is current. Three answers.
CONSTANTS
    Sends = {s1, s2, s3}
    Providers <- MCProviders
    FallbackOrder <- MCFallbackOrder
    MaxDeltas = 0
    NoProvider = "none"
SYMMETRY Symmetry
SPECIFICATION Spec
INVARIANT
    UsageIsCurrent
\* Behaviours end: every send has come to its end.
CHECK_DEADLOCK FALSE
