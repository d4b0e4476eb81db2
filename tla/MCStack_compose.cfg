CONSTANTS
    Deployed = {"manager", "intake", "publisher", "policy", "observability", "nginx"}
    Environment <- ComposeEnvironment
    UrlIsDsn = TRUE
    Moved = {}
    Clients = {"manager", "intake", "publisher", "policy", "observability", "nginx"}
    Slow = {}
    Faults = {}
    Retries = 1
SPECIFICATION FairSpec
PROPERTIES
    StackComesUp
