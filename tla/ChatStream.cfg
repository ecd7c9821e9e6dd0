\* Two sends into one conversation, two providers, answers of up to two parts.
CONSTANTS
    Sends = {s1, s2}
    Providers <- MCProviders
    FallbackOrder <- MCFallbackOrder
    MaxDeltas = 2
    NoProvider = "none"
SPECIFICATION FairSpec
INVARIANTS
    TypeOK
    UsageNeverAhead
    StrandedAnswersHaveACause
PROPERTIES
    AnswersKeepTheContract
    SendsCountDown
    SendsEnd
\* Behaviours end: every send has come to its end.
CHECK_DEADLOCK FALSE
