SPECIFICATION Spec
CONSTANTS
    fix = fix
    feature = feature
    alice = alice
    bob = bob
    repo = repo
    main = main
    mutations = mutations
    reviewsOf = reviewsOf
    NoScope = NoScope
    NoPull = NoPull
    Time <- MCTime
    Subjects <- MCSubjects
    Propositions <- MCPropositions
    Branches <- MCBranches
    Changes <- MCChanges
    Actors <- MCActors
    Repository = repo
    Branch = main
    Mutations = mutations
    Reviews = reviewsOf
    Author = alice
    MaxTime = 2
    Retention = 1
    Requests <- Whole
    PageLimits = {1, 2}
    Bounds <- DeepOrWide
    Unhurried = FALSE
SYMMETRY Symmetry
CHECK_DEADLOCK FALSE
INVARIANTS
    AnswersSound
    ReviewGapHeals
    DirectPushContradicts
