CONSTANTS
  c1 = c1
  c2 = c2
  s1 = s1
  s2 = s2
  w1 = w1
  w2 = w2
  Callers = {c1}
  Sweepers = {s1}
  Workers = {w1}
  Requests = {"escalate"}
  MaxLevel = 2
  RepeatCount = 1
  MaxQueue = 2
  MaxRetries = 1
  MaxRequests = 1
  MaxFaults = 0
SPECIFICATION FairSpec
PROPERTY GivesUp
CHECK_DEADLOCK FALSE
