SPECIFICATION Spec
CONSTANTS
  Threads = {t1, t2}
  Ops = {"firing", "manual", "resolved", "acknowledge", "resolve", "reopen", "delete", "silence", "purge", "investigate"}
  MaxAlerts = 2
  MaxOps = 4
  MaxFaults = 1
INVARIANTS TypeOK OneOpen ResolvedOnce
PROPERTY FiringIsRecorded
SYMMETRY MCSymmetry
CHECK_DEADLOCK FALSE
