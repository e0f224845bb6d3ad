SPECIFICATION Spec
CONSTANTS
    v1 = v1
    v2 = v2
    v3 = v3
    c1 = c1
    c2 = c2
    c3 = c3
    c4 = c4
    a1 = a1
    a2 = a2
    b2 = b2
    a3 = a3
    d1 = d1
    d2 = d2
    t1 = t1
    t2 = t2
    Nothing = Nothing
    Releases = {v1, v2, v3}
    Commits = {c1, c2, c3, c4}
    Documents = {a1, a2, b2, a3}
    Tools = {t1, t2}
    Diffs = {d1, d2}
    Codes = {0, 2, Nothing}
    Policies = {default, other}
    Default = default
    AncestorsOf <- MCAncestorsOf
    Identifies <- MCIdentifies
    FirstTags <- MCFirstTags
    FirstSboms <- MCFirstSboms
    MaxRuns = 4
    MaxChanges = 1
SYMMETRY Renamed
CHECK_DEADLOCK FALSE
INVARIANTS
    PreparedVerifies
    AnswersBacked
PROPERTIES
    RevisionsKept
    NearestBase
    ForcedCounts
