\* Nothing fails: an analysis that ends during the audit's LLM call.
SPECIFICATION Spec
CONSTANTS
    u1 = u1  u2 = u2  u3 = u3  b1 = b1  b2 = b2
    Updates = {u1, u2}
    Audits = {b1, b2}
    Verdicts <- TwoVerdicts
    NotableThreshold = 60
    NotableCap = 2
    SampleCap = 2
    FallbackCap = 1
    ApiKey = TRUE
    Histories <- NewTenant
    Faults <- NoFaults
INVARIANTS
    DirtyUntilAudited
CHECK_DEADLOCK FALSE
