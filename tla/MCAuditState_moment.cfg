\* Three analyses and an audit of the whole corpus, new and legacy tenant, faults.
SPECIFICATION Spec
CONSTANTS
    u1 = u1  u2 = u2  u3 = u3  b1 = b1  b2 = b2
    Updates = {u1, u2, u3}
    Audits = {b1}
    Verdicts <- SomeVerdicts
    NotableThreshold = 60
    NotableCap = 2
    SampleCap = 0
    FallbackCap = 1
    ApiKey = TRUE
    Histories <- NewOrLegacy
    Faults <- AllFaults
SYMMETRY Symmetry
INVARIANTS
    TypeOK
    NotableIsWorst
    AuditTellsOneMoment
    DegradedMeansReduced
CHECK_DEADLOCK FALSE
