\* OpenAI fails for a moment, MongoDB and Weaviate are up.
SPECIFICATION Spec
CONSTANTS
    r1 = r1  r2 = r2  s1 = s1
    a1 = a1  a2 = a2  c1 = c1  c2 = c2
    None = None
    Requests = {r1, r2}
    Rescans = {}
    Attachments = {a1}
    Contents = {c1}
    Targets <- OnAnyAttachment
    Bytes <- AnyBytes
    ChunkCount <- OneChunk
    Lows <- GoodScore
    Overlap = TRUE
    Faults <- OnlyOpenAI
    MaxCrashes = 0
SYMMETRY Symmetry
INVARIANTS
    OutageNeverCached
CHECK_DEADLOCK FALSE
