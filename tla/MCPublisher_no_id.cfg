CONSTANTS
    c1 = c1 c2 = c2 c3 = c3
    w1 = w1 w2 = w2 t1 = t1 t2 = t2
    d1 = d1 p1 = p1 b1 = b1 b2 = b2 f1 = f1 f2 = f2
    Calls = {c1, c2}
    WorkItems = {w1, w2}
    Rows = {w1}
    TaskRuns = {t1, t2}
    RunRows = {t1}
    Documents = {d1}
    Projects = {p1}
    Branches = {b1, b2}
    Files = {f1, f2}
    BaseFiles = {f2}
    Requests <- HttpRequests
    Faults = {"no_id"}
    MaxInFlight = 2
    WorkerThreads = 2
    NoneString = NoneString
    Null = Null
SPECIFICATION Spec
INVARIANTS
    NoRefWithoutIdentifier
