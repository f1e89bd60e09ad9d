CONSTANTS
  c1 = c1
  c2 = c2
  s1 = s1
  s2 = s2
  w1 = w1
  w2 = w2
  Callers = {c1, c2}
  Sweepers = {s1, s2}
  Workers = {w1, w2}
  Requests = {"acknowledge", "resolve", "reopen", "escalate", "silence", "delete", "set-priority"}
  MaxLevel = 2
  RepeatCount = 0
  MaxQueue = 2
  MaxRetries = 1
  MaxRequests = 2
  MaxFaults = 1
SPECIFICATION FairSpec
INVARIANTS TypeOK OpenClockRuns
PROPERTIES LegalTransitions LadderIsClimbed EndedGoesQuiet
CHECK_DEADLOCK FALSE
