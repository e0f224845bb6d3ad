SPECIFICATION Spec
CONSTANTS
    r1 = r1
    r2 = r2
    o1 = o1
    o2 = o2
    a1 = a1
    a2 = a2
    s1 = s1
    x1 = x1
    NoRun = NoRun
    Runs <- MCRuns
    Observations <- MCObservations
    Acquisitions <- MCAcquisitions
    Sources = {s1}
    Executions = {x1}
    Propositions = {"reviews"}
    Process = {"reviews"}
    Subjects = {"repository"}
    Repository = "repository"
    Contracts = {"activity"}
    MaxTime = 2
    MaxCommands = 2
SYMMETRY Symmetry
CHECK_DEADLOCK FALSE
INVARIANTS
    ViewsClosed
    ViewsExact
    ViewsCompose
    AuthorityCurrent
PROPERTIES
    Conservative
