SPECIFICATION FairSpec
CONSTANTS
    Invs = {i1}
    Agents = {a1}
    Replicas = {r1}
    Eligible <- EveryAgent
    Ops = {"supersede","reopen"}
    Lease = 1
    Grace = 1
    ListLimit = 1
    MaxOthers = 1
    MaxConcurrent = 1
    MaxAttempts = 1
    None = None
    NoLease = NoLease
PROPERTY
    RecoveredIsCompleted
