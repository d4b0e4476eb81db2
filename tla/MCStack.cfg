CONSTANTS
    Deployed = {"higress", "element", "manager", "intake", "publisher", "nginx"}
    Environment <- CompletedEnvironment
    UrlIsDsn = TRUE
    Moved = {"publisher"}
    Clients = {"higress", "element", "manager", "intake", "publisher", "nginx"}
    Slow = {"intake"}
    Faults = {"manager", "intake", "publisher", "outage"}
    Retries = 1
SPECIFICATION FairSpec
INVARIANTS
    StackTypeOK
    EdgeFollowsBridges
    HealthyStacksPass

    
