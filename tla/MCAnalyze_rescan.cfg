\* A rescan of two attachments with the same bytes; nothing fails.
SPECIFICATION Spec
CONSTANTS
    r1 = r1  r2 = r2  s1 = s1
    a1 = a1  a2 = a2  c1 = c1  c2 = c2
    None = None
    Requests = {r1, r2}
    Rescans = {s1}
    Attachments = {a1, a2}
    Contents = {c1}
    Targets <- OnAnyAttachment
    Bytes <- AnyBytes
    ChunkCount <- OneChunk
    Lows <- GoodScore
    Overlap = FALSE
    Faults <- NoFaults
    MaxCrashes = 0
SYMMETRY Symmetry
INVARIANTS
    RescanForcesRerun
CHECK_DEADLOCK FALSE
