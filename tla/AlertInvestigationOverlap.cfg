SPECIFICATION Spec
CONSTANTS
    Invs = {i1}
    Agents = {a1}
    Replicas = {r1, r2}
    Eligible <- EveryAgent
    Ops = {"handoff"}
    Lease = 1
    Grace = 1
    ListLimit = 1
    MaxOthers = 0
    MaxConcurrent = 1
    MaxAttempts = 1
    None = None
    NoLease = NoLease
SYMMETRY Symmetry
INVARIANTS
    AssignedHasLease
    AttemptsBounded
PROPERTY
    Lifecycle
