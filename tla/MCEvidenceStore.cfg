SPECIFICATION Spec
CONSTANTS
    monday = monday
    tuesday = tuesday
    wednesday = wednesday
    shared = shared
    Collections <- MCCollections
    Configs <- MCConfigs
    Evidence <- MCEvidence
    Cycles <- MCCycles
    Plan <- MCPlan
    CycleOf <- MCCycleOf
    Overlapping = FALSE
    MaxCrashes = 2
CHECK_DEADLOCK FALSE
INVARIANTS
    CorpusClosed
    CyclesClosed
    CommittedKept
    RefusedSavesNothing
    OrderlyVerifies
PROPERTIES
    LedgerKept
