\* A document whose only sibling is identical, nothing fails.
SPECIFICATION Spec
CONSTANTS
    MinChars = 30
    MinCharsGood = 500
    DeepQualities <- Deep
    Files <- TwoFiles
    MaxBlocks = 2
    Tokens <- TwoTokens
    Configs <- OneConfig
    Cosines <- SomeCosines
    NameCosines <- SomeNames
    Siblings <- Identical
    JudgeReplies <- OneReply
    MaxAttempts = 4
    SinglePass = 6
    BatchSize = 4
    Faults <- NoFaults
INVARIANTS
    IdenticalSiblingIsDuplicate
CHECK_DEADLOCK FALSE
