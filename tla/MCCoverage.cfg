SPECIFICATION Spec
CONSTANTS
    main = main
    other = other
    repo = repo
    fork = fork
    review = review
    push = push
    NoScope = NoScope
    imported = imported
    BranchConfiguration = review
    RevisionChecks = push
    Imported = imported
    ImportedAt = 3
    NoInterval = NoInterval
    Freshness = 0
    Answers <- MCAnswers
    Declarations <- MCDeclarations
    Settings <- MCSettings
    Reports <- MCReports
    Time <- MCTime
    Subjects <- MCSubjects
    Propositions <- MCPropositions
    Branches <- MCBranches
    Corpora <- MCCorpora
    Requirements <- MCRequirements
INVARIANTS
    DecisionExact
    CompleteMeansEstablished
    Tiled
    SupportedCovered
    PackAnswersAccepted
    FailuresDecideNothing
