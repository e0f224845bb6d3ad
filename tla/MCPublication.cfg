SPECIFICATION Spec
CONSTANTS
    Parts <- MCParts
    Evaluations <- MCEvaluations
    CoreReviewed <- MCCore
    PackKinds <- MCPack
    MaxEvaluations = 4
    MaxCuts = 2
    Absent = Absent
    Torn = Torn
CHECK_DEADLOCK FALSE
INVARIANTS
    PublishedWhole
    ReviewTellsWhatMoved
    FormerKept
    WholeSomewhere
