\* Two overlapping calls on one attachment, every fault, one restart; only the
\* clock is fair.
SPECIFICATION FairSpec
CONSTANTS
    r1 = r1  r2 = r2  s1 = s1
    a1 = a1  a2 = a2  c1 = c1  c2 = c2
    None = None
    Requests = {r1, r2}
    Rescans = {}
    Attachments = {a1}
    Contents = {c1, c2}
    Targets <- OnAnyAttachment
    Bytes <- AnyBytes
    ChunkCount <- TextOrScan
    Lows <- AnyScore
    Overlap = TRUE
    Faults <- AllFaults
    MaxCrashes = 1
INVARIANTS
    TypeOK
    FullAnswerIsDurable
    WrittenInOrder
    DegradedLeavesNoTrace
    FullAnswerStaysCached
PROPERTIES
    KeepsItsPromise
    EveryCallAnswered
CHECK_DEADLOCK FALSE
