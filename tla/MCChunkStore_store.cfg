SPECIFICATION FairSpec
CONSTANTS
    t1 = t1
    t2 = t2
    t3 = t3
    a1 = a1
    a2 = a2
    a3 = a3
    ten = ten
    p1 = p1
    p2 = p2
    Threads = {t1, t2, t3}
    Attachments = {a1, a2, a3}
    Tenant <- MCTenant
    Plan <- MCPlan
    Size <- MCSize
    Distance <- MCDistance
    Workloads <- MCWorkloads
    Stored <- MCStored
    PageSize = 2
    Limit = 2
    MaxFailures = 1
    e1 = e1
    Earlier = {e1}
    None = None
INVARIANTS
    TypeOK
    OneConnectionPerThread
    OnlyWeaviateRaises
    ReadIsComplete
    NearestSiblingFirst
PROPERTIES
    OperationsEnd
CHECK_DEADLOCK FALSE
