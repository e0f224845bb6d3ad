SPECIFICATION Spec
CONSTANTS
    Heads <- Two
    Pulls <- Two
    Revisions <- Two
    RevisionsOf <- MCRevisionsOf
    SuiteLimit = 1
    Protected = Protected
    NoRequest = NoRequest
    Unreported = Unreported
    Collected <- Contracts
    Limits = {1, 2}
    Refusals = {"moved", "forbidden"}
    MaxLinks <- MCMaxLinks
CHECK_DEADLOCK FALSE
INVARIANTS
    TypeOK
    CollectorAgrees
    CompleteIsClosed
    TruncatedIsPrefix
