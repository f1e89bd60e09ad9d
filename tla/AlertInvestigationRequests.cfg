SPECIFICATION Spec
CONSTANTS
    Invs = {i1}
    Agents = {a1}
    Replicas = {r1}
    Eligible <- EveryAgent
    Ops = {"cancel", "promote", "finalize", "incident", "reopen"}
    Lease = 1
    Grace = 1
    ListLimit = 1
    MaxOthers = 0
    MaxConcurrent = 1
    MaxAttempts = 1
    None = None
    NoLease = NoLease
INVARIANTS
    TypeOK
    OwnedHasLease
PROPERTIES
    OverStaysOver
    Lifecycle
