SPECIFICATION FairSpec
CONSTANTS
    Events = {e1}
    Replicas = {w1, w2}
    Consumers = {w1}
    MaxOutboxRetries = 2
    MaxAlertRetries = 1
    Faults = {"db", "broker", "crash"}
    MaxCopies = 1
    MaxFailures = 2
    MaxCrashes = 1
    None = None
CHECK_DEADLOCK FALSE
INVARIANTS
    TypeOK
    GivenUpAfterTries
    PublishedWasSent
PROPERTIES
    KeepsPromise
    QueuedComesToAnEnd
