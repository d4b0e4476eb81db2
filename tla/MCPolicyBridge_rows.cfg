CONSTANTS
    e1 = e1 e2 = e2 e3 = e3 e4 = e4
    d1 = d1 d2 = d2 d3 = d3
    ws1 = ws1 ws2 = ws2 impl = impl profile = profile
    Evaluations = {e1, e2}
    Decisions = {d1}
    ScopeIds = {ws1, ws2, impl, profile}
    Requests <- GateRequests
    Policies <- GatePolicies
    Faults = {}
    RowsValidate = FALSE
    MaxGrants = 2
    MaxUnsettled = 1
    MaxReopened = 0
    MaxDay = 1
    MaxCost = 1
    Null = Null
SPECIFICATION Spec
SYMMETRY CallerSymmetry
INVARIANTS
    HumanGateIsAnswered
