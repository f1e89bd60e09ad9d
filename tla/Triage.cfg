SPECIFICATION Spec
CONSTANTS
  Alerts = {a1, a2}
  Flushers = {f1, f2}
  Modes <- MCModes
  MaxTriageRetries = 1
  MaxInvs = 2
  MaxFaults = 1
  None = None
INVARIANTS TypeOK NothingVanishes PopsItsBatch
SYMMETRY MCSymmetry
CHECK_DEADLOCK FALSE
