CONSTANTS
    e1 = e1 e2 = e2 e3 = e3 e4 = e4
    d1 = d1 d2 = d2 d3 = d3
    ws1 = ws1 ws2 = ws2 impl = impl profile = profile
    Evaluations = {e1, e2, e3}
    Decisions = {}
    ScopeIds = {ws1, ws2, impl, profile}
    Requests <- WorkspaceRequests
    Policies <- WorkspacePolicies
    Faults = {"crash"}
    RowsValidate = TRUE
    MaxGrants = 2
    MaxUnsettled = 1
    MaxReopened = 1
    MaxDay = 2
    MaxCost = 1
    Null = Null
SPECIFICATION Spec
SYMMETRY EvaluationSymmetry
INVARIANTS
    OverrunIsBounded
    RowsFirstNeverFillAScope
