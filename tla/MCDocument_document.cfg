\* One call for each kind of file, every fault, four configurations.
SPECIFICATION FairSpec
CONSTANTS
    MinChars = 30
    MinCharsGood = 500
    DeepQualities <- Deep
    Files <- AllFiles
    MaxBlocks = 2
    Tokens <- AllTokens
    Configs <- AllConfigs
    Cosines <- SomeCosines
    NameCosines <- SomeNames
    Siblings <- SomeSiblings
    JudgeReplies <- SomeReplies
    MaxAttempts = 2
    SinglePass = 6
    BatchSize = 5
    Faults <- AllFaults
INVARIANTS
    TypeOK
    OnlyWholeFiles
    NoTextNeverCompliant
    OutageNeverCompliant
    OutageRaisesAtMostDuplication
    FailedJudgeChangesNothing
    WindowsCoverText
    SummaryCoversDocument
    EveryCallLogged
PROPERTIES
    Finishes
CHECK_DEADLOCK FALSE
