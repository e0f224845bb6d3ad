SPECIFICATION Spec
CONSTANTS
    fix = fix
    feature = feature
    alice = alice
    bob = bob
    carol = carol
    Pulls <- MCPulls
    Actors <- MCActors
    Author = alice
    Counts = {0, 2}
    MaxTime = 2
    Bounds <- DeepWideOrAgain
SYMMETRY Symmetry
CHECK_DEADLOCK FALSE
INVARIANTS
    ReleaseAnswersTrue
    FullExportsDecide
