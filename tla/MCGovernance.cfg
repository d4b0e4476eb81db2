CONSTANTS
    e1 = e1 e2 = e2 e3 = e3 e4 = e4 e5 = e5
    q1 = q1 q2 = q2 q3 = q3 q4 = q4
    t1 = t1 ws1 = ws1 ws2 = ws2 impl = impl
    Evaluations = {e1, e2, e3, e4, e5}
    RowsFirst = {e5}
    Decisions = {}
    ScopeIds = {ws1, ws2, impl}
    Requests <- SpendRequests
    Policies <- SpendPolicies
    PolicyFaults = {}
    RowsValidate = FALSE
    Posts = {q1, q2, q3, q4}
    Traces = {t1}
    Completions <- RunCompletions
    GraphitiEnabled = FALSE
    LinkFaults = {}
    MaxInFlight = 1
    MaxGrants = 1
    MaxUnsettled = 1
    MaxReopened = 1
    MaxDay = 1
    MaxRepeats = 1
    MaxCost = 1
    Null = Null
SPECIFICATION RepeatSpec
SYMMETRY RunSymmetry
INVARIANTS
    SpendOverrunIsBounded
PROPERTIES
    PolicySpec
    ReportedCostsAreSpent
