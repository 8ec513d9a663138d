SPECIFICATION Spec
CONSTANTS
    u1 = u1
    u2 = u2
    p1 = p1
    p2 = p2
    f1 = f1
    f2 = f2
    f3 = f3
    r1 = r1
    r2 = r2
    r3 = r3
    Runs = {r1, r2, r3}
    Manifest <- MCManifest
    OwnerSettings <- MCOwnerSettings
    SyntheticA = sA
    SyntheticB = sB
    UserPlans <- MCUserPlans
    UserFiles = {f1}
    MaxUserActions = 2
SYMMETRY RunSymmetry
INVARIANTS
    TypeOK
    SeedIdempotent
    SeededIsThere
    CleanupSparesUserPlans
    ResidueOnlyInUserPlans
    FreshSeedVerifies
CHECK_DEADLOCK FALSE
