SPECIFICATION Spec
CONSTANTS
    monday = monday
    tuesday = tuesday
    wednesday = wednesday
    shared = shared
    Collections <- TwoCollections
    Configs <- MCConfigs
    Evidence <- MCEvidence
    Cycles <- MCCycles
    Plan <- MCPlan
    CycleOf <- MCCycleOf
    Overlapping = TRUE
    MaxCrashes = 0
CHECK_DEADLOCK FALSE
INVARIANTS
    CommittedKept
