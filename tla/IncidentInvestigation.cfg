CONSTANTS
  v1 = v1
  v2 = v2
  a1 = a1
  r1 = r1
  r2 = r2
  Invs = {v1, v2}
  Agents = {a1}
  Replicas = {r1, r2}
  Lease = 1
  Grace = 1
  MaxRequests = 1
  MaxFaults = 1
  None = None
  NoLease = NoLease
SPECIFICATION FairSpec
INVARIANTS TypeOK NamedAgentHasLease
PROPERTIES DispatchMovesOn SilentWorkReturns OpenIncidentIsWorked
