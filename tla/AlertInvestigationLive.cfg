SPECIFICATION FairSpec
CONSTANTS
    Invs = {i1}
    Agents = {a1}
    Replicas = {r1}
    Eligible <- EveryAgent
    Ops = {"message", "pause", "assign"}
    Lease = 1
    Grace = 1
    ListLimit = 1
    MaxOthers = 0
    MaxConcurrent = 1
    MaxAttempts = 1
    None = None
    NoLease = NoLease
PROPERTIES
    AssignedMovesOn
    SilenceIsSwept
