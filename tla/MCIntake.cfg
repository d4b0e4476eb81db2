CONSTANTS
    r1 = r1 r2 = r2 r3 = r3
    c1 = c1 textA = textA textB = textB
    Requests = {r1, r2, r3}
    Ids = {c1}
    Texts = {textA, textB}
    Title = Title
    Bodies <- AllBodies
    Sends <- AllSends
    Faults = {"refused", "unknown", "crash"}
    MaxInFlight = 2
    Null = Null
SPECIFICATION FairSpec
INVARIANTS
    AnswersAreTrue
    FanOutFollowsRows
    PoolsAreBounded
    SensitiveItemsAreGated
    CriteriaAreOfTheSource
PROPERTIES
    EveryRequestEnds
