\* Calls that never overlap on an attachment, with a rescan between them;
\* every fault but the timeout.
SPECIFICATION Spec
CONSTANTS
    r1 = r1  r2 = r2  s1 = s1
    a1 = a1  a2 = a2  c1 = c1  c2 = c2
    None = None
    Requests = {r1, r2}
    Rescans = {s1}
    Attachments = {a1}
    Contents = {c1, c2}
    Targets <- OnAnyAttachment
    Bytes <- AnyBytes
    ChunkCount <- ShortOrLong
    Lows <- GoodScore
    Overlap = FALSE
    Faults <- NoTimeout
    MaxCrashes = 1
SYMMETRY Symmetry
INVARIANTS
    NoDuplicateChunks
    VerdictFromOwnChunks
    RescanForcesRerun
CHECK_DEADLOCK FALSE
