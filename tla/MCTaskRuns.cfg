CONSTANTS
    q1 = q1 q2 = q2 q3 = q3
    t1 = t1 t2 = t2 r1 = r1
    Posts = {q1, q2, q3}
    Runs = {r1}
    Traces = {t1, t2}
    Requests <- RunRequests
    GraphitiEnabled = TRUE
    Faults = {"refused", "unknown", "absent", "crash"}
    MaxInFlight = 2
    MaxCost = 1
    Null = Null
SPECIFICATION Spec
SYMMETRY PostSymmetry
INVARIANTS
    RunsTypeOK
    CompletionIsKept
    LinksSurvive
    SyncsAreFresh
    FlagsAreTruthful
PROPERTIES
    RecordsAreKept
