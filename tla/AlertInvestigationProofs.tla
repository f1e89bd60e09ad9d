----------------------- MODULE AlertInvestigationProofs -----------------------
(***************************************************************************)
(* Safety of AlertInvestigation, and that it implements                    *)
(* InvestigationLifecycle, for any numbers of investigations, agents and   *)
(* replicas, any lease, grace and limits.                                  *)
(***************************************************************************)
EXTENDS AlertInvestigation, FiniteSetTheorems, TLAPS

USE NoneAssumption, LeaseAssumption, LimitsAssumption, NoLeaseAssumption

\* A lease that was just granted, by a claim or by a disconnect, is a lease.
LEMMA LeaseTicksType ==
    /\ Lease \in LeaseTicks /\ Grace \in LeaseTicks /\ 0 \in LeaseTicks
    /\ \A n \in LeaseTicks \ {0} : n - 1 \in LeaseTicks
    /\ NoLease \notin LeaseTicks
  BY DEF LeaseTicks

\* The names the writers use are statuses.
LEMMA StatusNames ==
    {"none", "pending", "assigned", "investigating", "paused", "complete",
     "cancelled", "timed_out", "promoted"} \subseteq Statuses
  BY DEF Statuses, L!Statuses, L!Open, L!Working, L!Terminal

\* The pass that goes on after an investigation is a pass between two of them.
LEMMA RestType ==
    ASSUME NEW p \in Passes, NEW i \in Invs, NEW load \in [Agents -> Nat]
    PROVE  /\ Rest(p, i, load) \in Passes
           /\ Rest(p, i, load).pc \in {"idle", "bind"}
  BY DEF Rest, Scan, Passes, IdlePass, NoLoad

\* The load of an agent is a number.
LEMMA HeldType ==
    ASSUME NEW a
    PROVE  Held(a) \in Nat
  <1> DEFINE S == {i \in Invs : agent[i] = a /\ status[i] \in Working \cup {"paused"}}
  <1>1. IsFiniteSet(S)
    BY InvsAssumption, FS_Subset
  <1>2. QED
    BY <1>1, FS_CardinalityType DEF Held

\* A step that leaves a part of the state alone keeps its type.
LEMMA RowKept == ASSUME RowType, UNCHANGED <<row, facts>> PROVE RowType'
  BY DEF RowType, row, facts

LEMMA AroundKept == ASSUME AroundType, UNCHANGED around PROVE AroundType'
  BY DEF AroundType, around

LEMMA PassKept == ASSUME PassType, UNCHANGED <<pass, memory>> PROVE PassType'
  BY DEF PassType, memory

LEMMA RequestKept ==
    ASSUME RequestType, UNCHANGED <<req, reopen, calls>> PROVE RequestType'
  BY DEF RequestType, calls

\* Every step of a scheduler pass keeps the types.
LEMMA PassStepType ==
    ASSUME TypeOK, NEW r \in Replicas, PassStep(r)
    PROVE  TypeOK'
  <1> USE DEF TypeOK
  <1>1. pass[r] \in Passes /\ pass[r].load \in [Agents -> Nat]
    BY DEF PassType, Passes
  <1>2. ASSUME NEW i \in Invs
        PROVE  /\ Rest(pass[r], i, pass[r].load) \in Passes
               /\ Rest(pass[r], i, pass[r].load).pc \in {"idle", "bind"}
    BY <1>1, RestType
  <1>swept. ASSUME TakeLapsedBack, UNCHANGED facts
         PROVE  RowType'
    BY <1>swept, StatusNames DEF TakeLapsedBack, RowType, facts
  <1>3. CASE ExpireLeases(r)
    <2>1. RowType'
      BY <1>3, <1>swept DEF ExpireLeases
    <2>2. PassType'
      <3>1. pass' \in [Replicas -> Passes]
        BY <1>3 DEF ExpireLeases, PassType, Passes, Scan, NoLoad
      <3>2. attempts' \in [Replicas -> [Invs -> Nat]]
        BY <1>3 DEF ExpireLeases, PassType
      <3>3. backoff' \in [Replicas -> SUBSET Invs]
        BY <1>3 DEF ExpireLeases, PassType
      <3>4. \A s \in Replicas : s # r => pass'[s] = pass[s]
        BY <1>3 DEF ExpireLeases, PassType
      <3>5. pass'[r].pc = "agents"
        BY <1>3 DEF ExpireLeases, PassType, Scan
      <3>6. QED
        BY <3>1, <3>2, <3>3, <3>4, <3>5 DEF PassType
    <2>3. QED
      BY <1>3, <2>1, <2>2, AroundKept, RequestKept DEF ExpireLeases
  <1>4. CASE ExpireLeasesError(r)
    <2>1. PassType'
      BY <1>4 DEF ExpireLeasesError, PassType, memory, Passes, Scan, NoLoad
    <2>2. RowType'
      BY <1>4, <1>swept, RowKept DEF ExpireLeasesError
    <2>3. QED
      BY <1>4, <2>1, <2>2, AroundKept, RequestKept DEF ExpireLeasesError
  <1>5. CASE ListAgents(r)
    <2>1. PassType'
      BY <1>5, HeldType DEF ListAgents, PassType, memory, Passes, Scan, NoLoad
    <2>2. QED
      BY <1>5, <2>1, RowKept, AroundKept, RequestKept DEF ListAgents
  <1>6. CASE ListPending(r)
    <2>1. PassType'
      <3>1. PICK todo \in SUBSET Scope(r) :
               pass' = [pass EXCEPT ![r] =
                           Scan("bind", todo, pass[r].up, pass[r].load)]
        BY <1>6 DEF ListPending
      <3>2. todo \in SUBSET Invs
        BY DEF Scope, Pending
      <3>3. QED
        BY <1>1, <1>6, <3>1, <3>2 DEF ListPending, PassType, memory, Passes, Scan
    <2>2. QED
      BY <1>6, <2>1, RowKept, AroundKept, RequestKept DEF ListPending
  <1>7. CASE EndPass(r)
    <2>1. PassType'
      BY <1>7 DEF EndPass, PassType, memory, Passes, IdlePass, Scan, NoLoad
    <2>2. QED
      BY <1>7, <2>1, RowKept, AroundKept, RequestKept DEF EndPass
  <1>8. ASSUME NEW i \in Invs, SkipPending(r, i)
        PROVE  TypeOK'
    <2>1. PassType'
      BY <1>2, <1>8 DEF SkipPending, PassType, memory
    <2>2. QED
      BY <1>8, <2>1, RowKept, AroundKept, RequestKept DEF SkipPending
  <1>9. ASSUME NEW i \in Invs, NEW a \in Agents, ClaimRow(i, a), UNCHANGED facts
        PROVE  RowType'
    BY <1>9, StatusNames, LeaseTicksType DEF ClaimRow, RowType, facts
  <1>10. ASSUME NEW i \in Invs, NEW a \in Agents, Claim(r, i, a)
         PROVE  TypeOK'
    <2>1. RowType'
      BY <1>9, <1>10 DEF Claim
    <2>2. PassType'
      BY <1>10 DEF Claim, PassType, Passes, Dispatch
    <2>3. QED
      BY <1>10, <2>1, <2>2, AroundKept, RequestKept DEF Claim
  <1>11. ASSUME NEW i \in Invs, NEW a \in Agents, ClaimError(r, i, a)
         PROVE  TypeOK'
    <2>1. RowType'
      BY <1>9, <1>11, RowKept DEF ClaimError
    <2>2. PassType'
      BY <1>2, <1>11 DEF ClaimError, PassType, memory
    <2>3. QED
      BY <1>11, <2>1, <2>2, AroundKept, RequestKept DEF ClaimError
  <1>12. CASE GiveUp(r)
    <2> DEFINE i == pass[r].cur
    <2>1. i \in Invs
      BY <1>12 DEF GiveUp, PassType
    <2>2. RowType'
      BY <1>12, <2>1, StatusNames DEF GiveUp, RowType, facts
    <2>3. PassType'
      BY <1>2, <1>12, <2>1 DEF GiveUp, PassType
    <2>4. QED
      BY <1>12, <2>2, <2>3, AroundKept, RequestKept DEF GiveUp
  <1>13. CASE ForwardOk(r)
    <2> DEFINE i == pass[r].cur
               load == [pass[r].load EXCEPT ![pass[r].tgt] =
                           pass[r].load[pass[r].tgt] + 1]
    <2>1. i \in Invs /\ load \in [Agents -> Nat]
      BY <1>1, <1>13 DEF ForwardOk, PassType
    <2>2. /\ Rest(pass[r], i, load) \in Passes
          /\ Rest(pass[r], i, load).pc \in {"idle", "bind"}
      BY <1>1, <2>1, RestType
    <2>3. pass' = [pass EXCEPT ![r] = Rest(pass[r], i, load)]
      BY <1>13 DEF ForwardOk
    <2> HIDE DEF load
    <2>4. PassType'
      BY <1>13, <2>1, <2>2, <2>3 DEF ForwardOk, PassType
    <2>5. QED
      BY <1>13, <2>4, RowKept, AroundKept, RequestKept DEF ForwardOk
  <1>14. CASE ForwardError(r)
    <2> DEFINE i == pass[r].cur
    <2>1. i \in Invs
      BY <1>14 DEF ForwardError, PassType
    <2>2. RowType'
      BY <1>14, <2>1, StatusNames DEF ForwardError, RowType, facts
    <2>3. PassType'
      BY <1>2, <1>14, <2>1 DEF ForwardError, PassType
    <2>4. QED
      BY <1>14, <2>2, <2>3, AroundKept, RequestKept DEF ForwardError
  <1>15. QED
    BY <1>3, <1>4, <1>5, <1>6, <1>7, <1>8, <1>10, <1>11, <1>12, <1>13, <1>14
       DEF PassStep

\* Every other step of a replica keeps the types.
LEMMA ReplicaStepType ==
    ASSUME TypeOK, NEW r \in Replicas, ReplicaStep(r)
    PROVE  TypeOK'
  <1> USE DEF TypeOK
  <1>1. ASSUME NEW i \in Invs, BackoffOver(r, i)
        PROVE  TypeOK'
    <2>1. PassType'
      BY <1>1 DEF BackoffOver, PassType
    <2>2. QED
      BY <1>1, <2>1, RowKept, AroundKept, RequestKept DEF BackoffOver
  <1>2. ASSUME NEW i \in Invs, PurgeAttempts(r, i)
        PROVE  TypeOK'
    <2>1. PassType'
      BY <1>2 DEF PurgeAttempts, PassType
    <2>2. QED
      BY <1>2, <2>1, RowKept, AroundKept, RequestKept DEF PurgeAttempts
  <1>3. ASSUME NEW a \in Agents, OnAgentOffline(r, a)
        PROVE  TypeOK'
    <2>1. RowType'
      BY <1>3, LeaseTicksType DEF OnAgentOffline, RowType, facts
    <2>2. AroundType'
      BY <1>3 DEF OnAgentOffline, AroundType
    <2>3. QED
      BY <1>3, <2>1, <2>2, PassKept, RequestKept DEF OnAgentOffline
  <1>4. CASE Crash(r)
    <2>1. PassType'
      BY <1>4 DEF Crash, PassType, Passes, IdlePass, Scan, NoLoad
    <2>2. AroundType'
      BY <1>4 DEF Crash, AroundType
    <2>3. QED
      BY <1>4, <2>1, <2>2, RowKept, RequestKept DEF Crash
  <1>5. QED
    BY <1>1, <1>2, <1>3, <1>4, PassStepType DEF ReplicaStep

\* Every step of an agent keeps the types.
LEMMA AgentStepType ==
    ASSUME TypeOK, NEW a \in Agents, AgentStep(a)
    PROVE  TypeOK'
  <1> USE DEF TypeOK
  <1>1. NoReq \in Reqs /\ NoReq.pc = "idle"
    BY StatusNames DEF NoReq, Request, Reqs
  <1>2. ASSUME req' = [req EXCEPT ![a] = NoReq], UNCHANGED <<reopen, calls>>
        PROVE  RequestType'
    BY <1>1, <1>2 DEF RequestType, calls
  <1>3. ASSUME req[a].pc # "idle",
               NEW s \in Statuses, NEW pc \in {"act", "write"},
               req' = [req EXCEPT ![a] =
                          Request(pc, req[a].op, req[a].inv, s, req[a].fresh)],
               UNCHANGED <<reopen, calls>>
        PROVE  RequestType'
    BY <1>3 DEF RequestType, Reqs, Request, calls
  <1>4. req[a].pc # "idle" => req[a].inv \in Invs
    BY DEF RequestType
  <1>5. req[a].seen \in Statuses
    BY DEF RequestType, Reqs
  <1>6. CASE GoOnline(a)
    <2>1. AroundType'
      BY <1>6 DEF GoOnline, AroundType
    <2>2. QED
      BY <1>6, <2>1, RowKept, PassKept, RequestKept DEF GoOnline
  <1>7. CASE GoOffline(a)
    <2>1. AroundType'
      BY <1>7 DEF GoOffline, AroundType
    <2>2. QED
      BY <1>7, <2>1, RowKept, PassKept, RequestKept DEF GoOffline
  <1>8. CASE Heartbeat(a)
    <2>1. RowType'
      BY <1>8, LeaseTicksType DEF Heartbeat, RowType, facts
    <2>2. QED
      BY <1>8, <2>1, AroundKept, PassKept, RequestKept DEF Heartbeat
  <1>9. ASSUME NEW i \in Invs, NEW op \in Ops, RequestBegin(a, i, op)
        PROVE  TypeOK'
    <2>1. status[i] \in Statuses /\ (~incident[i]) \in BOOLEAN
      BY DEF RowType
    <2>2. RequestType'
      BY <1>9, <2>1 DEF RequestBegin, RequestType, Reqs, Request, AllOps, calls
    <2>3. QED
      BY <1>9, <2>2, RowKept, AroundKept, PassKept DEF RequestBegin
  <1>10. CASE Acknowledge(a)
    <2>1. RowType'
      BY <1>10, <1>4, StatusNames DEF Acknowledge, RowType, facts
    <2>2. RequestType'
      BY <1>10, <1>3, StatusNames DEF Acknowledge
    <2>3. QED
      BY <1>10, <2>1, <2>2, AroundKept, PassKept DEF Acknowledge
  <1>11. CASE RequestEnd(a)
    BY <1>11, <1>2, RowKept, AroundKept, PassKept DEF RequestEnd
  <1>12. CASE Pause(a)
    <2>1. RowType'
      BY <1>12, <1>4, StatusNames DEF Pause, RowType, facts
    <2>2. QED
      BY <1>12, <2>1, <1>2, AroundKept, PassKept DEF Pause
  <1>13. CASE CancelWrite(a)
    <2>1. RowType'
      BY <1>13, <1>4, StatusNames DEF CancelWrite, RowType, facts
    <2>2. QED
      BY <1>13, <2>1, <1>2, AroundKept, PassKept DEF CancelWrite
  <1>14. CASE FinalizeWrite(a)
    <2>1. RowType'
      BY <1>14, <1>4, StatusNames DEF FinalizeWrite, RowType, facts
    <2>2. QED
      BY <1>14, <2>1, <1>2, AroundKept, PassKept DEF FinalizeWrite
  <1>15. CASE CancelAlerts(a)
    <2>1. RowType'
      BY <1>15, <1>4 DEF CancelAlerts, RowType, row
    <2>2. RequestType'
      BY <1>15, <1>3, <1>5 DEF CancelAlerts
    <2>3. QED
      BY <1>15, <2>1, <2>2, AroundKept, PassKept DEF CancelAlerts
  <1>16. CASE PromoteCheck(a)
    <2>1. RequestType'
      BY <1>16, <1>3, <1>5 DEF PromoteCheck
    <2>2. QED
      BY <1>16, <2>1, RowKept, AroundKept, PassKept DEF PromoteCheck
  <1>17. CASE HandoffCheck(a)
    <2>1. RequestType'
      BY <1>17, <1>3, <1>5 DEF HandoffCheck
    <2>2. QED
      BY <1>17, <2>1, RowKept, AroundKept, PassKept DEF HandoffCheck
  <1>18. CASE PromoteWrite(a)
    <2>1. RowType'
      BY <1>18, <1>4, StatusNames DEF PromoteWrite, RowType
    <2>2. QED
      BY <1>18, <2>1, <1>2, AroundKept, PassKept DEF PromoteWrite
  <1>19. ASSUME NEW b \in Agents, HandoffWrite(a, b)
         PROVE  TypeOK'
    <2>1. RowType'
      BY <1>19, <1>4 DEF HandoffWrite, RowType, facts
    <2>2. QED
      BY <1>19, <2>1, <1>2, AroundKept, PassKept DEF HandoffWrite
  <1>20. ASSUME NEW i \in Invs, FinalizeBegin(a, i)
         PROVE  TypeOK'
    <2>1. status[i] \in Statuses
      BY DEF RowType
    <2>2. RequestType'
      BY <1>20, <2>1 DEF FinalizeBegin, RequestType, Reqs, Request, AllOps, calls
    <2>3. QED
      BY <1>20, <2>2, RowKept, AroundKept, PassKept DEF FinalizeBegin
  <1>21. QED
    BY <1>6, <1>7, <1>8, <1>9, <1>10, <1>11, <1>12,
       <1>13, <1>14, <1>15, <1>16, <1>17, <1>18, <1>19, <1>20 DEF AgentStep

\* Every step of an alert, a completion call, the operator or time keeps the
\* types.
LEMMA OtherStepType ==
    ASSUME TypeOK,
           \/ \E i \in Invs : AlertStep(i)
           \/ OtherRows \/ Backstop \/ OperatorStep \/ Tick
    PROVE  TypeOK'
  <1> USE DEF TypeOK
  <1>1. ASSUME NEW i \in Invs, CreateAlertInvestigation(i)
        PROVE  TypeOK'
    <2>1. RowType'
      BY <1>1, StatusNames DEF CreateAlertInvestigation, RowType
    <2>2. QED
      BY <1>1, <2>1, AroundKept, PassKept, RequestKept DEF CreateAlertInvestigation
  <1>2. ASSUME NEW i \in Invs, ResolveAlert(i)
        PROVE  TypeOK'
    <2>1. RowType'
      BY <1>2 DEF ResolveAlert, RowType, row
    <2>2. RequestType'
      BY <1>2 DEF ResolveAlert, RequestType
    <2>3. QED
      BY <1>2, <2>1, <2>2, AroundKept, PassKept DEF ResolveAlert
  <1>3. ASSUME NEW i \in Invs, CompleteCheck(i)
        PROVE  TypeOK'
    <2>1. RequestType'
      BY <1>3 DEF CompleteCheck, RequestType
    <2>2. QED
      BY <1>3, <2>1, RowKept, AroundKept, PassKept DEF CompleteCheck
  <1>4. ASSUME NEW i \in Invs, CompleteWrite(i)
        PROVE  TypeOK'
    <2>1. RowType'
      BY <1>4, StatusNames DEF CompleteWrite, RowType, facts
    <2>2. RequestType'
      BY <1>4 DEF CompleteWrite, RequestType
    <2>3. QED
      BY <1>4, <2>1, <2>2, AroundKept, PassKept DEF CompleteWrite
  <1>5. ASSUME NEW i \in Invs, CompleteLost(i)
        PROVE  TypeOK'
    <2>1. RequestType'
      BY <1>5 DEF CompleteLost, RequestType
    <2>2. QED
      BY <1>5, <2>1, RowKept, AroundKept, PassKept DEF CompleteLost
  <1>6. CASE Backstop
    <2>1. RequestType'
      BY <1>6 DEF Backstop, Listings, Pending, RequestType
    <2>2. QED
      BY <1>6, <2>1, RowKept, AroundKept, PassKept DEF Backstop
  <1>7. CASE Tick
    <2>1. RowType'
      BY <1>7, LeaseTicksType DEF Tick, RowType, facts
    <2>2. QED
      BY <1>7, <2>1, AroundKept, PassKept, RequestKept DEF Tick
  <1>8. ASSUME NEW i \in Invs, ReopenAlert(i)
        PROVE  TypeOK'
    <2>1. RowType'
      BY <1>8 DEF ReopenAlert, RowType, row
    <2>2. RequestType'
      BY <1>8 DEF ReopenAlert, RequestType, Reopens, calls
    <2>3. QED
      BY <1>8, <2>1, <2>2, AroundKept, PassKept DEF ReopenAlert
  <1>9. reopen.pc # "idle" => reopen.inv \in Invs
    BY DEF RequestType
  <1>10. ASSUME reopen' = NoReopen, UNCHANGED <<req, calls>>
         PROVE  RequestType'
    BY <1>10 DEF NoReopen, Reopens, RequestType, calls
  <1>11. CASE ReopenRead
    <2>1. RequestType'
      BY <1>9, <1>11 DEF ReopenRead, RequestType, Reopens, calls
    <2>2. QED
      BY <1>11, <2>1, RowKept, AroundKept, PassKept DEF ReopenRead
  <1>12. CASE ReopenResume
    <2>1. RowType'
      BY <1>9, <1>12, StatusNames DEF ReopenResume, RowType, facts
    <2>2. QED
      BY <1>10, <1>12, <2>1, AroundKept, PassKept DEF ReopenResume
  <1>13. CASE ReopenClear
    <2>1. RowType'
      BY <1>9, <1>13 DEF ReopenClear, RowType, facts
    <2>2. RequestType'
      BY <1>9, <1>13 DEF ReopenClear, RequestType, Reopens, calls
    <2>3. QED
      BY <1>13, <2>1, <2>2, AroundKept, PassKept DEF ReopenClear
  <1>14. CASE ReopenRequeue
    <2>1. RowType'
      BY <1>9, <1>14, StatusNames DEF ReopenRequeue, RowType, facts
    <2>2. QED
      BY <1>10, <1>14, <2>1, AroundKept, PassKept DEF ReopenRequeue
  <1>15. CASE ReopenEnd
    BY <1>10, <1>15, RowKept, AroundKept, PassKept DEF ReopenEnd
  <1>16. ASSUME NEW i \in Invs, NEW toUser \in BOOLEAN, Assign(i, toUser)
         PROVE  TypeOK'
    <2>1. RowType'
      BY <1>16 DEF Assign, RowType
    <2>2. QED
      BY <1>16, <2>1, AroundKept, PassKept, RequestKept DEF Assign
  <1>17. ASSUME NEW i \in Invs, Supersede(i)
         PROVE  TypeOK'
    <2>1. RowType'
      BY <1>17 DEF Supersede, RowType, row
    <2>2. QED
      BY <1>17, <2>1, AroundKept, PassKept, RequestKept DEF Supersede
  <1>18. CASE OtherRows
    <2>1. AroundType'
      BY <1>18, LimitsAssumption DEF OtherRows, AroundType
    <2>2. QED
      BY <1>18, <2>1, RowKept, PassKept, RequestKept DEF OtherRows
  <1>19. QED
    BY <1>1, <1>2, <1>3, <1>4, <1>5, <1>6, <1>7, <1>8, <1>11, <1>12, <1>13,
       <1>14, <1>15, <1>16, <1>17, <1>18 DEF AlertStep, OperatorStep

\* Every step keeps the types.
LEMMA TypeStep ==
    ASSUME TypeOK, [Next]_vars
    PROVE  TypeOK'
  <1>1. CASE UNCHANGED vars
    BY <1>1, RowKept, AroundKept, PassKept, RequestKept DEF TypeOK, vars
  <1>2. CASE Next
    BY <1>2, ReplicaStepType, AgentStepType, OtherStepType DEF Next
  <1>3. QED
    BY <1>1, <1>2

\* Rows, passes, requests and calls keep their types under every interleaving
\* of schedulers, agents, operators and alerts.
THEOREM InvestigationTypes == Spec => []TypeOK
  <1>1. Init => TypeOK
    BY StatusNames DEF Init, TypeOK, RowType, AroundType, PassType, RequestType,
       Passes, Reqs, Reopens, IdlePass, Scan, NoLoad, NoReq, Request, NoReopen
  <1>2. QED
    BY <1>1, TypeStep, PTL DEF Spec

-----------------------------------------------------------------------------
\* Time ends a lease without clearing it.
LEMMA TickKeepsLease ==
    ASSUME TypeOK, Tick
    PROVE  \A i \in Invs : lease[i] # NoLease => lease'[i] # NoLease
  <1> SUFFICES ASSUME NEW i \in Invs, lease[i] # NoLease
               PROVE  lease'[i] # NoLease
    OBVIOUS
  <1>1. CASE lease[i] = 0
    BY <1>1 DEF Tick
  <1>2. CASE lease[i] # 0
    <2>1. lease[i] \in LeaseTicks \ {0}
      BY <1>2 DEF TypeOK, RowType
    <2>2. lease'[i] = lease[i] - 1
      BY <2>1 DEF Tick
    <2>3. lease[i] - 1 \in LeaseTicks
      BY <2>1, LeaseTicksType, Zenon
    <2>4. QED
      BY <2>2, <2>3, LeaseTicksType, Zenon
  <1>3. QED
    BY <1>1, <1>2

\* Who writes a claim or a lease: a step that is none of these leaves the
\* status "assigned" where it was and no row without its lease.
LEMMA AssignedStep ==
    ASSUME TypeOK, AssignedHasLease, [Next]_vars
    PROVE  AssignedHasLease'
  <1> USE DEF TypeOK, RowType, AssignedHasLease
  <1>1. ASSUME UNCHANGED row
        PROVE  AssignedHasLease'
    BY <1>1 DEF row
  <1>2. ASSUME NEW i \in Invs, NEW s \in Statuses, s # "assigned",
               status' = [status EXCEPT ![i] = s], UNCHANGED lease
        PROVE  AssignedHasLease'
    BY <1>2
  <1>3. ASSUME NEW r \in Replicas, ReplicaStep(r)
        PROVE  AssignedHasLease'
    <2>1. CASE TakeLapsedBack
      BY <2>1 DEF TakeLapsedBack
    <2>2. ASSUME NEW i \in Invs, NEW a \in Agents, ClaimRow(i, a)
          PROVE  AssignedHasLease'
      BY <2>2 DEF ClaimRow
    <2>3. ASSUME NEW i \in Invs, NEW a \in Agents,
                 Claim(r, i, a) \/ ClaimError(r, i, a)
          PROVE  AssignedHasLease'
      BY <1>1, <2>2, <2>3 DEF Claim, ClaimError
    <2>4. CASE GiveUp(r)
      <3>1. pass[r].cur \in Invs
        BY <2>4 DEF GiveUp, PassType
      <3>2. QED
        BY <1>2, <2>4, <3>1, StatusNames DEF GiveUp
    <2>5. CASE ForwardError(r)
      <3>1. pass[r].cur \in Invs
        BY <2>5 DEF ForwardError, PassType
      <3>2. QED
        BY <1>2, <2>5, <3>1, StatusNames DEF ForwardError
    <2>6. ASSUME NEW a \in Agents, OnAgentOffline(r, a)
          PROVE  AssignedHasLease'
      BY <2>6 DEF OnAgentOffline
    <2>7. QED
      BY <1>1, <1>3, <2>1, <2>3, <2>4, <2>5, <2>6 DEF ReplicaStep, PassStep,
         ExpireLeases, ExpireLeasesError, ListAgents, ListPending, EndPass,
         SkipPending, ForwardOk, BackoffOver, PurgeAttempts, Crash
  <1>4. ASSUME NEW a \in Agents, AgentStep(a)
        PROVE  AssignedHasLease'
    <2>1. req[a].pc # "idle" => req[a].inv \in Invs
      BY DEF RequestType
    <2>2. CASE Heartbeat(a)
      BY <2>2 DEF Heartbeat
    <2>3. CASE Acknowledge(a)
      BY <1>2, <2>1, <2>3, StatusNames DEF Acknowledge
    <2>4. CASE Pause(a)
      BY <1>2, <2>1, <2>4, StatusNames DEF Pause
    <2>5. CASE CancelWrite(a)
      BY <1>2, <2>1, <2>5, StatusNames DEF CancelWrite
    <2>6. CASE PromoteWrite(a)
      BY <1>2, <2>1, <2>6, StatusNames DEF PromoteWrite
    <2>7. CASE FinalizeWrite(a)
      BY <1>2, <2>1, <2>7, StatusNames DEF FinalizeWrite
    <2>8. CASE \E b \in Agents : HandoffWrite(a, b)
      BY <2>8 DEF HandoffWrite
    <2>9. QED
      BY <1>1, <1>4, <2>2, <2>3, <2>4, <2>5, <2>6, <2>7, <2>8 DEF AgentStep,
         GoOnline, GoOffline, RequestBegin, RequestEnd, CancelAlerts,
         PromoteCheck, HandoffCheck, FinalizeBegin
  <1>5. ASSUME NEW i \in Invs, AlertStep(i)
        PROVE  AssignedHasLease'
    <2>1. CASE CreateAlertInvestigation(i)
      BY <1>2, <2>1, StatusNames DEF CreateAlertInvestigation
    <2>2. CASE CompleteWrite(i)
      BY <2>2 DEF CompleteWrite
    <2>3. QED
      BY <1>1, <1>5, <2>1, <2>2 DEF AlertStep, ResolveAlert, CompleteCheck,
         Supersede, CompleteLost
  <1>6. CASE OperatorStep
    <2>1. reopen.pc # "idle" => reopen.inv \in Invs
      BY DEF RequestType
    <2>2. CASE ReopenResume
      BY <1>2, <2>1, <2>2, StatusNames DEF ReopenResume
    <2>3. CASE ReopenClear
      BY <2>3 DEF ReopenClear
    <2>4. CASE ReopenRequeue
      BY <1>2, <2>1, <2>4, StatusNames DEF ReopenRequeue
    <2>5. CASE \E i \in Invs, toUser \in BOOLEAN : Assign(i, toUser)
      BY <2>5 DEF Assign
    <2>6. QED
      BY <1>1, <1>6, <2>2, <2>3, <2>4, <2>5 DEF OperatorStep, ReopenAlert,
         ReopenRead, ReopenEnd
  <1>7. CASE Tick
    <2>1. \A i \in Invs : lease[i] # NoLease => lease'[i] # NoLease
      BY <1>7, TickKeepsLease
    <2>2. UNCHANGED status
      BY <1>7 DEF Tick
    <2>3. QED
      BY <2>1, <2>2
  <1>8. QED
    BY <1>1, <1>3, <1>4, <1>5, <1>6, <1>7 DEF Next, OtherRows, Backstop, vars

\* A claim nobody hears of is never out of the sweep's reach: a row is assigned
\* only together with a deadline, and nobody takes the deadline alone.
THEOREM AssignedAlwaysLeased == Spec => []AssignedHasLease
  <1>1. Init => AssignedHasLease
    BY DEF Init, AssignedHasLease
  <1>2. QED
    BY <1>1, InvestigationTypes, AssignedStep, PTL DEF Spec

\* A claim counts an attempt, and the attempt past the limit is given up before
\* the replica claims anything else.
LEMMA AttemptsStep ==
    ASSUME TypeOK, AttemptsBounded, [Next]_vars
    PROVE  AttemptsBounded'
  <1> USE DEF TypeOK, PassType, AttemptsBounded
  <1>1. ASSUME UNCHANGED <<pass, attempts>>
        PROVE  AttemptsBounded'
    BY <1>1
  <1>2. ASSUME NEW r \in Replicas, pass[r].pc # "giveup",
               NEW p, pass' = [pass EXCEPT ![r] = p], UNCHANGED attempts
        PROVE  AttemptsBounded'
    BY <1>2
  <1>3. ASSUME NEW r \in Replicas, PassStep(r)
        PROVE  AttemptsBounded'
    <2>1. CASE ExpireLeases(r)
      BY <2>1 DEF ExpireLeases
    <2>2. ASSUME NEW i \in Invs, NEW a \in Agents, Claim(r, i, a)
          PROVE  AttemptsBounded'
      <3>1. pass[r].pc = "bind" /\ attempts[r][i] \in 0 .. MaxAttempts
        BY <2>2 DEF Claim
      <3>2. /\ \A s \in Replicas, j \in Invs :
                  s # r \/ j # i => attempts'[s][j] = attempts[s][j]
            /\ attempts'[r][i] = attempts[r][i] + 1
            /\ \A s \in Replicas : s # r => pass'[s] = pass[s]
        BY <2>2 DEF Claim
      <3>3. \/ attempts'[r][i] <= MaxAttempts
            \/ /\ attempts'[r][i] = MaxAttempts + 1
               /\ pass'[r].pc = "giveup"
               /\ pass'[r].cur = i
        <4>1. CASE attempts[r][i] + 1 > MaxAttempts
          BY <2>2, <3>1, <3>2, <4>1 DEF Claim, Dispatch
        <4>2. CASE ~(attempts[r][i] + 1 > MaxAttempts)
          BY <3>1, <3>2, <4>2
        <4>3. QED
          BY <4>1, <4>2
      <3>4. SUFFICES ASSUME NEW s \in Replicas, NEW j \in Invs
                     PROVE  \/ attempts'[s][j] <= MaxAttempts
                            \/ /\ attempts'[s][j] = MaxAttempts + 1
                               /\ pass'[s].pc = "giveup"
                               /\ pass'[s].cur = j
        BY DEF AttemptsBounded
      <3>5. CASE s = r /\ j = i
        BY <3>3, <3>5, Zenon
      <3>6. CASE s = r /\ j # i
        BY <3>1, <3>2, <3>6
      <3>7. CASE s # r
        <4>1. attempts'[s][j] = attempts[s][j] /\ pass'[s] = pass[s]
          BY <3>2, <3>7
        <4>2. QED
          BY <4>1
      <3>8. QED
        BY <3>5, <3>6, <3>7
    <2>3. ASSUME NEW i \in Invs, NEW a \in Agents, ClaimError(r, i, a)
          PROVE  AttemptsBounded'
      BY <1>2, <2>3 DEF ClaimError, memory
    <2>4. CASE GiveUp(r)
      BY <2>4 DEF GiveUp
    <2>5. CASE ForwardOk(r)
      BY <2>5 DEF ForwardOk
    <2>6. CASE ForwardError(r)
      BY <1>2, <2>6 DEF ForwardError
    <2>7. CASE ExpireLeasesError(r)
      BY <1>2, <2>7 DEF ExpireLeasesError, memory
    <2>8. CASE ListAgents(r)
      BY <1>2, <2>8 DEF ListAgents, memory
    <2>9. CASE ListPending(r) \/ EndPass(r)
      BY <1>2, <2>9 DEF ListPending, EndPass, memory
    <2>10. ASSUME NEW i \in Invs, SkipPending(r, i)
           PROVE  AttemptsBounded'
      BY <1>2, <2>10 DEF SkipPending, memory
    <2>11. QED
      BY <1>3, <2>1, <2>2, <2>3, <2>4, <2>5, <2>6, <2>7, <2>8, <2>9, <2>10
         DEF PassStep
  <1>4. ASSUME NEW r \in Replicas, ReplicaStep(r)
        PROVE  AttemptsBounded'
    <2>1. ASSUME NEW i \in Invs, PurgeAttempts(r, i)
          PROVE  AttemptsBounded'
      BY <2>1 DEF PurgeAttempts
    <2>2. CASE Crash(r)
      BY <2>2 DEF Crash
    <2>3. QED
      BY <1>1, <1>3, <1>4, <2>1, <2>2 DEF ReplicaStep, BackoffOver, OnAgentOffline,
         memory
  <1>5. ASSUME NEW a \in Agents, AgentStep(a)
        PROVE  UNCHANGED <<pass, attempts>>
    BY <1>5 DEF AgentStep, GoOnline, GoOffline, Heartbeat, RequestBegin,
       Acknowledge, RequestEnd, Pause, CancelAlerts, CancelWrite, PromoteCheck,
       PromoteWrite, HandoffCheck, HandoffWrite, FinalizeBegin, FinalizeWrite, memory
  <1>6. ASSUME NEW i \in Invs, AlertStep(i)
        PROVE  UNCHANGED <<pass, attempts>>
    BY <1>6 DEF AlertStep, CreateAlertInvestigation, ResolveAlert, CompleteCheck,
       Supersede, CompleteWrite, CompleteLost, memory
  <1>7. CASE OperatorStep
    BY <1>1, <1>7 DEF OperatorStep, ReopenRead, ReopenResume, ReopenClear,
       ReopenRequeue, ReopenEnd, ReopenAlert, Assign, memory
  <1>8. QED
    BY <1>1, <1>4, <1>5, <1>6, <1>7 DEF Next, OtherRows, Backstop, Tick, vars, memory

\* The attempts of a replica for an investigation pass the limit by one, and
\* only until the dispatch that found out is given up.
THEOREM AttemptsAlwaysBounded == Spec => []AttemptsBounded
  <1>1. Init => AttemptsBounded
    BY DEF Init, AttemptsBounded
  <1>2. QED
    BY <1>1, InvestigationTypes, AttemptsStep, PTL DEF Spec

\* Without hand-offs no request in progress is one.
NoHandoff == \A a \in Agents : req[a].op # "handoff"

\* The agent of a row is written together with its deadline, and the deadline
\* is only ever cleared together with the agent.
LEMMA OwnedStep ==
    ASSUME "handoff" \notin Ops, TypeOK, NoHandoff, OwnedHasLease, [Next]_vars
    PROVE  NoHandoff' /\ OwnedHasLease'
  <1> USE DEF TypeOK
  <1>1. NoHandoff'
    <2>1. CASE UNCHANGED req
      BY <2>1 DEF NoHandoff
    <2>2. ASSUME NEW a \in Agents, AgentStep(a)
          PROVE  NoHandoff'
      <3>1. ASSUME NEW q, q.op # "handoff", req' = [req EXCEPT ![a] = q]
            PROVE  NoHandoff'
        BY <3>1 DEF NoHandoff, RequestType
      <3>2. NoReq.op # "handoff"
        BY DEF NoReq, Request
      <3>3. ASSUME NEW i \in Invs, NEW op \in Ops, RequestBegin(a, i, op)
            PROVE  NoHandoff'
        <4>1. op # "handoff"
          OBVIOUS
        <4>2. PICK pc : req' = [req EXCEPT ![a] =
                                   Request(pc, op, i, status[i], ~incident[i])]
          BY <3>3 DEF RequestBegin
        <4>3. Request(pc, op, i, status[i], ~incident[i]).op = op
          BY DEF Request
        <4>4. QED
          BY <3>1, <4>1, <4>2, <4>3
      <3>4. ASSUME NEW i \in Invs, FinalizeBegin(a, i)
            PROVE  NoHandoff'
        BY <3>1, <3>4 DEF FinalizeBegin, Request
      <3>5. CASE Acknowledge(a)
        BY <3>1, <3>5 DEF Acknowledge, Request, NoHandoff
      <3>6. CASE CancelAlerts(a)
        BY <3>1, <3>6 DEF CancelAlerts, Request
      <3>7. CASE PromoteCheck(a)
        BY <3>1, <3>7 DEF PromoteCheck, Request
      <3>8. CASE HandoffCheck(a)
        BY <3>8 DEF HandoffCheck, NoHandoff
      <3>9. CASE RequestEnd(a) \/ Pause(a) \/ CancelWrite(a)
        BY <3>1, <3>2, <3>9 DEF RequestEnd, Pause, CancelWrite
      <3>10. CASE PromoteWrite(a) \/ FinalizeWrite(a) \/ \E b \in Agents : HandoffWrite(a, b)
        BY <3>1, <3>2, <3>10 DEF PromoteWrite, FinalizeWrite, HandoffWrite
      <3>11. QED
        BY <2>1, <2>2, <3>3, <3>4, <3>5, <3>6, <3>7, <3>8, <3>9, <3>10
           DEF AgentStep, GoOnline, GoOffline, Heartbeat
    <2>3. ASSUME NEW r \in Replicas, ReplicaStep(r)
          PROVE  UNCHANGED req
      BY <2>3 DEF ReplicaStep, PassStep, ExpireLeases, Claim, ClaimError, GiveUp,
         ForwardError, ExpireLeasesError, ListAgents, ListPending, EndPass,
         SkipPending, ForwardOk, BackoffOver, PurgeAttempts, OnAgentOffline, Crash
    <2>4. ASSUME NEW i \in Invs, AlertStep(i)
          PROVE  UNCHANGED req
      BY <2>4 DEF AlertStep, CreateAlertInvestigation, ResolveAlert,
         Supersede, CompleteCheck, CompleteWrite, CompleteLost
    <2>5. CASE OperatorStep
      BY <2>1, <2>5 DEF OperatorStep, ReopenAlert, ReopenRead, ReopenResume,
         ReopenClear, ReopenRequeue, ReopenEnd, Assign
    <2>6. QED
      BY <2>1, <2>2, <2>3, <2>4, <2>5 DEF Next, OtherRows, Backstop, Tick, vars
  <1>2. OwnedHasLease'
    <2> USE DEF OwnedHasLease, RowType
    <2>1. CASE UNCHANGED <<agent, lease>>
      BY <2>1
    <2>2. ASSUME NEW r \in Replicas, ReplicaStep(r)
          PROVE  OwnedHasLease'
      <3>1. CASE TakeLapsedBack
        BY <3>1 DEF TakeLapsedBack
      <3>2. ASSUME NEW i \in Invs, NEW a \in Agents, ClaimRow(i, a)
            PROVE  OwnedHasLease'
        BY <3>2 DEF ClaimRow
      <3>3. ASSUME NEW i \in Invs, NEW a \in Agents,
                   Claim(r, i, a) \/ ClaimError(r, i, a)
            PROVE  OwnedHasLease'
        BY <2>1, <3>2, <3>3 DEF Claim, ClaimError, row
      <3>4. ASSUME NEW a \in Agents, OnAgentOffline(r, a)
            PROVE  OwnedHasLease'
        BY <3>4 DEF OnAgentOffline
      <3>5. QED
        BY <2>1, <2>2, <3>1, <3>3, <3>4 DEF ReplicaStep, PassStep, row, GiveUp,
           ExpireLeases, ForwardError, ExpireLeasesError, ListAgents, ListPending,
           EndPass, SkipPending, ForwardOk, BackoffOver, PurgeAttempts, Crash
    <2>3. ASSUME NEW a \in Agents, AgentStep(a)
          PROVE  OwnedHasLease'
      <3>1. CASE Heartbeat(a)
        BY <3>1 DEF Heartbeat
      <3>2. ~ \E b \in Agents : HandoffWrite(a, b)
        BY DEF HandoffWrite, NoHandoff
      <3>3. QED
        BY <2>1, <2>3, <3>1, <3>2 DEF AgentStep, row, GoOnline, GoOffline,
           RequestBegin, RequestEnd, CancelAlerts, PromoteCheck, HandoffCheck,
           FinalizeBegin, Acknowledge, Pause, CancelWrite, PromoteWrite, FinalizeWrite
    <2>4. ASSUME NEW i \in Invs, AlertStep(i)
          PROVE  UNCHANGED <<agent, lease>>
      BY <2>4 DEF AlertStep, CreateAlertInvestigation, ResolveAlert,
         Supersede, CompleteCheck, CompleteWrite, CompleteLost, row
    <2>5. CASE OperatorStep
      <3>1. CASE ReopenClear
        BY <3>1 DEF ReopenClear
      <3>2. ASSUME NEW i \in Invs, NEW toUser \in BOOLEAN, Assign(i, toUser)
            PROVE  OwnedHasLease'
        BY <3>2 DEF Assign
      <3>3. QED
        BY <2>1, <2>5, <3>1, <3>2 DEF OperatorStep, ReopenAlert, ReopenRead,
           ReopenResume, ReopenRequeue, ReopenEnd, row
    <2>6. CASE Tick
      <3>1. ASSUME NEW i \in Invs, lease[i] # NoLease
            PROVE  lease'[i] # NoLease
        BY <2>6, <3>1, TickKeepsLease
      <3>2. QED
        BY <2>6, <3>1 DEF Tick
    <2>7. QED
      BY <2>1, <2>2, <2>3, <2>4, <2>5, <2>6 DEF Next, OtherRows, Backstop, vars, row
  <1>3. QED
    BY <1>1, <1>2

\* Where agents do not hand investigations over, a row that names an agent has a
\* deadline whatever its status, so one that is reopened under its old agent is
\* in the sweep's reach at once.
THEOREM OwnedAlwaysLeased ==
    ASSUME "handoff" \notin Ops
    PROVE  Spec => []OwnedHasLease
  <1>1. Init => NoHandoff /\ OwnedHasLease
    BY DEF Init, OwnedHasLease, NoHandoff, NoReq, Request
  <1>2. TypeOK /\ NoHandoff /\ OwnedHasLease /\ [Next]_vars
            => NoHandoff' /\ OwnedHasLease'
    BY OwnedStep
  <1>3. QED
    BY <1>1, <1>2, InvestigationTypes, PTL DEF Spec

(***************************************************************************)
(* The life cycle.  The two writes without a guard (giving up and          *)
(* promoting) keep to InvestigationLifecycle only because whoever reaches  *)
(* them names a row that exists: Known is that strengthening.  Every write *)
(* is then one edge of the life cycle (StatusStep), and both theorems      *)
(* follow from that one lemma.                                             *)
(***************************************************************************)

\* Rows that an agent, an incident, a dispatch or a request names exist.
Known ==
    /\ \A i \in Invs : agent[i] # None => status[i] # "none"
    /\ \A i \in Invs : incident[i] => status[i] # "none"
    /\ \A r \in Replicas :
          pass[r].pc \in {"forward", "giveup"} => status[pass[r].cur] # "none"
    /\ \A a \in Agents : req[a].pc # "idle" => status[req[a].inv] # "none"

\* The operator's reopen, and nobody else, takes the life cycle's way back.
OperatorReopens(i) ==
    L!Reopen(i) /\ reopen.inv = i /\ reopen.pc \in {"resume", "requeue"}

Edge ==
    \/ UNCHANGED status
    \/ L!TakeBack
    \/ \E i \in Invs :
          \/ L!Insert(i) \/ L!Take(i) \/ L!Start(i) \/ L!Suspend(i)
          \/ L!Finish(i) \/ L!Close(i) \/ OperatorReopens(i)

\* Every step is an edge of the life cycle or leaves all statuses alone.
LEMMA StatusStep ==
    ASSUME TypeOK, Known, [Next]_vars
    PROVE  Edge
  <1> USE DEF TypeOK, RowType, Edge
  <1>1. ASSUME NEW r \in Replicas, ReplicaStep(r)
        PROVE  Edge
    <2>1. CASE TakeLapsedBack
      <3>1. Lapsed \in SUBSET {i \in Invs : status[i] \in L!Working}
        BY DEF Lapsed, Working
      <3>2. L!TakeBack
        BY <2>1, <3>1 DEF TakeLapsedBack, L!TakeBack
      <3>3. QED
        BY <3>2
    <2>2. ASSUME NEW i \in Invs, NEW a \in Agents,
                 Claim(r, i, a) \/ ClaimError(r, i, a)
          PROVE  Edge
      BY <2>2 DEF Claim, ClaimError, ClaimRow, L!Take, row
    <2>3. CASE GiveUp(r)
      <3> DEFINE i == pass[r].cur
      <3>1. i \in Invs /\ status[i] # "none"
        BY <2>3 DEF GiveUp, PassType, Known
      <3>2. L!Close(i) \/ UNCHANGED status
        BY <2>3, <3>1 DEF GiveUp, L!Close
      <3>3. QED
        BY <3>1, <3>2
    <2>4. CASE ForwardError(r)
      <3> DEFINE i == pass[r].cur
      <3>1. i \in Invs
        BY <2>4 DEF ForwardError, PassType
      <3>2. CASE status[i] = "assigned" /\ status' = [status EXCEPT ![i] = "pending"]
        <4>1. {i} \in SUBSET {j \in Invs : status[j] \in L!Working}
          BY <3>1, <3>2 DEF L!Working
        <4>2. status' = [j \in Invs |-> IF j \in {i} THEN "pending" ELSE status[j]]
          BY <3>1, <3>2
        <4>3. QED
          BY <4>1, <4>2 DEF L!TakeBack
      <3>3. QED
        BY <2>4, <3>2 DEF ForwardError
    <2>5. QED
      BY <1>1, <2>1, <2>2, <2>3, <2>4 DEF ReplicaStep, PassStep, row,
         ExpireLeases, ExpireLeasesError, ListAgents, ListPending, EndPass,
         SkipPending, ForwardOk, BackoffOver, PurgeAttempts, OnAgentOffline, Crash
  <1>2. ASSUME NEW a \in Agents, AgentStep(a)
        PROVE  Edge
    <2> DEFINE i == req[a].inv
    <2>1. req[a].pc # "idle" => i \in Invs /\ status[i] # "none"
      BY DEF RequestType, Known
    <2>2. CASE Acknowledge(a)
      BY <2>1, <2>2 DEF Acknowledge, L!Start
    <2>3. CASE Pause(a)
      BY <2>1, <2>3 DEF Pause, L!Suspend
    <2>4. CASE CancelWrite(a)
      BY <2>1, <2>4 DEF CancelWrite, L!Finish, Working
    <2>5. CASE PromoteWrite(a)
      BY <2>1, <2>5 DEF PromoteWrite, L!Close
    <2>6. CASE FinalizeWrite(a)
      BY <2>1, <2>6 DEF FinalizeWrite, L!Finish, L!Open, Working
    <2>7. QED
      BY <1>2, <2>2, <2>3, <2>4, <2>5, <2>6 DEF AgentStep, row, Heartbeat,
         GoOnline, GoOffline, RequestBegin, RequestEnd, CancelAlerts,
         PromoteCheck, HandoffCheck, HandoffWrite, FinalizeBegin
  <1>3. ASSUME NEW i \in Invs, AlertStep(i)
        PROVE  Edge
    <2>1. CASE CreateAlertInvestigation(i)
      BY <2>1 DEF CreateAlertInvestigation, L!Insert
    <2>2. CASE CompleteWrite(i)
      BY <2>2 DEF CompleteWrite, L!Finish
    <2>3. QED
      BY <1>3, <2>1, <2>2 DEF AlertStep, ResolveAlert, CompleteCheck,
         Supersede, CompleteLost, row
  <1>4. CASE OperatorStep
    <2>1. reopen.pc # "idle" => reopen.inv \in Invs
      BY DEF RequestType
    <2>2. CASE ReopenResume
      BY <2>1, <2>2 DEF ReopenResume, OperatorReopens, L!Reopen, Terminal
    <2>3. CASE ReopenRequeue
      BY <2>1, <2>3 DEF ReopenRequeue, OperatorReopens, L!Reopen, Terminal
    <2>4. QED
      BY <1>4, <2>2, <2>3 DEF OperatorStep, ReopenAlert, ReopenRead,
         ReopenClear, ReopenEnd, Assign, row
  <1>5. CASE OtherRows \/ Backstop \/ Tick \/ UNCHANGED vars
    BY <1>5 DEF OtherRows, Backstop, Tick, vars, row
  <1>6. QED
    BY <1>1, <1>2, <1>3, <1>4, <1>5 DEF Next

\* No row disappears.
LEMMA RowsStay ==
    ASSUME TypeOK, Edge, NEW i \in Invs, status[i] # "none"
    PROVE  status'[i] # "none"
  BY DEF TypeOK, RowType, Edge, OperatorReopens, L!TakeBack, L!Insert, L!Take,
     L!Start, L!Suspend, L!Finish, L!Close, L!Reopen

\* What is named stays known: names are taken from rows that exist.
LEMMA KnownStep ==
    ASSUME TypeOK, Known, [Next]_vars
    PROVE  Known'
  <1> USE DEF TypeOK
  <1>1. \A i \in Invs : status[i] # "none" => status'[i] # "none"
    BY StatusStep, RowsStay
  <1>2. ASSUME NEW i \in Invs, agent'[i] # None, agent'[i] # agent[i]
        PROVE  status[i] # "none"
    <2>1. ASSUME NEW r \in Replicas, ReplicaStep(r)
          PROVE  status[i] # "none"
      BY <1>2, <2>1 DEF ReplicaStep, PassStep, RowType, row, ExpireLeases,
         TakeLapsedBack, Claim,
         ClaimError, ClaimRow, GiveUp, ForwardError, ExpireLeasesError, ListAgents,
         ListPending, EndPass, SkipPending, ForwardOk, BackoffOver, PurgeAttempts,
         OnAgentOffline, Crash
    <2>2. ASSUME NEW a \in Agents, AgentStep(a)
          PROVE  status[i] # "none"
      <3>1. CASE \E b \in Agents : HandoffWrite(a, b)
        BY <1>2, <3>1 DEF HandoffWrite, RowType, RequestType, Known
      <3>2. QED
        BY <1>2, <2>2, <3>1 DEF AgentStep, row, Heartbeat, GoOnline, GoOffline,
           RequestBegin, RequestEnd, CancelAlerts, PromoteCheck, HandoffCheck,
           FinalizeBegin, Acknowledge, Pause, CancelWrite, PromoteWrite, FinalizeWrite
    <2>3. ASSUME NEW j \in Invs, AlertStep(j)
          PROVE  FALSE
      BY <1>2, <2>3 DEF AlertStep, CreateAlertInvestigation, ResolveAlert,
         Supersede, CompleteCheck, CompleteWrite, CompleteLost, row
    <2>4. CASE OperatorStep
      BY <1>2, <2>4 DEF OperatorStep, ReopenAlert, ReopenRead, ReopenResume,
         ReopenClear, ReopenRequeue, ReopenEnd, Assign, RowType, row
    <2>5. QED
      BY <1>2, <2>1, <2>2, <2>3, <2>4 DEF Next, OtherRows, Backstop, Tick, vars, row
  <1>3. ASSUME NEW i \in Invs, incident'[i], ~incident[i]
        PROVE  status'[i] # "none"
    <2>1. ASSUME NEW a \in Agents, AgentStep(a)
          PROVE  status[i] # "none"
      <3>1. CASE PromoteWrite(a)
        BY <1>3, <3>1 DEF PromoteWrite, RowType, RequestType, Known
      <3>2. QED
        BY <1>3, <2>1, <3>1 DEF AgentStep, facts, Heartbeat, GoOnline, GoOffline,
           RequestBegin, RequestEnd, CancelAlerts, PromoteCheck, HandoffCheck,
           HandoffWrite, FinalizeBegin, Acknowledge, Pause, CancelWrite, FinalizeWrite
    <2>2. ASSUME NEW j \in Invs, AlertStep(j)
          PROVE  status'[i] # "none"
      <3>1. CASE CreateAlertInvestigation(j)
        BY <1>3, <3>1 DEF CreateAlertInvestigation, RowType
      <3>2. QED
        BY <1>3, <2>2, <3>1 DEF AlertStep, ResolveAlert, CompleteCheck,
           Supersede, CompleteWrite, CompleteLost, facts
    <2>3. ASSUME NEW r \in Replicas, ReplicaStep(r)
          PROVE  FALSE
      BY <1>3, <2>3 DEF ReplicaStep, PassStep, facts, ExpireLeases, Claim,
         ClaimError, GiveUp, ForwardError, ExpireLeasesError, ListAgents,
         ListPending, EndPass, SkipPending, ForwardOk, BackoffOver, PurgeAttempts,
         OnAgentOffline, Crash
    <2>4. CASE OperatorStep
      BY <1>3, <2>4 DEF OperatorStep, ReopenAlert, ReopenRead, ReopenResume,
         ReopenClear, ReopenRequeue, ReopenEnd, Assign, facts
    <2>5. QED
      BY <1>1, <1>3, <2>1, <2>2, <2>3, <2>4 DEF Next, OtherRows, Backstop, Tick, vars, facts
  <1>4. ASSUME NEW r \in Replicas, pass'[r].pc \in {"forward", "giveup"}
        PROVE  status'[pass'[r].cur] # "none"
    <2>1. \/ pass'[r] = pass[r]
          \/ \E i \in Invs, a \in Agents : Claim(r, i, a)
      <3>1. ASSUME NEW s \in Replicas, NEW p, p.pc \notin {"forward", "giveup"},
                   pass' = [pass EXCEPT ![s] = p]
            PROVE  pass'[r] = pass[r]
        BY <1>4, <3>1 DEF PassType
      <3>2. ASSUME NEW s \in Replicas, NEW i \in Invs, NEW load \in [Agents -> Nat],
                   pass' = [pass EXCEPT ![s] = Rest(pass[s], i, load)]
            PROVE  pass'[r] = pass[r]
        <4>1. Rest(pass[s], i, load).pc \in {"idle", "bind"}
          BY RestType DEF PassType
        <4>2. QED
          BY <3>1, <3>2, <4>1
      <3>3. ASSUME NEW s \in Replicas
            PROVE  pass[s].load \in [Agents -> Nat]
        BY DEF PassType, Passes
      <3>4. ASSUME NEW s \in Replicas, PassStep(s)
            PROVE  \/ pass'[r] = pass[r]
                   \/ \E i \in Invs, a \in Agents : Claim(r, i, a)
        <4>1. CASE ExpireLeases(s) \/ ExpireLeasesError(s)
          BY <3>1, <4>1 DEF ExpireLeases, ExpireLeasesError, Scan
        <4>2. CASE ListAgents(s)
          BY <3>1, <4>2 DEF ListAgents, Scan
        <4>3. CASE ListPending(s) \/ EndPass(s)
          BY <3>1, <4>3 DEF ListPending, EndPass, IdlePass, Scan
        <4>4. ASSUME NEW i \in Invs, SkipPending(s, i)
              PROVE  pass'[r] = pass[r]
          BY <3>2, <3>3, <4>4 DEF SkipPending
        <4>5. ASSUME NEW i \in Invs, NEW a \in Agents, ClaimError(s, i, a)
              PROVE  pass'[r] = pass[r]
          BY <3>2, <3>3, <4>5 DEF ClaimError
        <4>6. ASSUME NEW i \in Invs, NEW a \in Agents, Claim(s, i, a), s # r
              PROVE  pass'[r] = pass[r]
          BY <4>6 DEF Claim, PassType
        <4>7. CASE GiveUp(s)
          BY <3>2, <3>3, <4>7 DEF GiveUp, PassType
        <4>8. CASE ForwardError(s)
          BY <3>2, <3>3, <4>8 DEF ForwardError, PassType
        <4>9. CASE ForwardOk(s)
          <5> DEFINE load == [pass[s].load EXCEPT ![pass[s].tgt] =
                                 pass[s].load[pass[s].tgt] + 1]
          <5>1. load \in [Agents -> Nat]
            BY <3>3, <4>9 DEF ForwardOk, PassType
          <5>2. pass' = [pass EXCEPT ![s] = Rest(pass[s], pass[s].cur, load)]
            BY <4>9 DEF ForwardOk
          <5>3. pass[s].cur \in Invs
            BY <4>9 DEF ForwardOk, PassType
          <5> HIDE DEF load
          <5>4. QED
            BY <3>2, <5>1, <5>2, <5>3
        <4>10. QED
          BY <3>4, <4>1, <4>2, <4>3, <4>4, <4>5, <4>6, <4>7, <4>8, <4>9
             DEF PassStep
      <3>5. ASSUME NEW s \in Replicas, Crash(s)
            PROVE  pass'[r] = pass[r]
        BY <3>1, <3>5 DEF Crash, IdlePass, Scan
      <3>6. ASSUME NEW s \in Replicas, ReplicaStep(s)
            PROVE  \/ pass'[r] = pass[r]
                   \/ \E i \in Invs, a \in Agents : Claim(r, i, a)
        BY <3>4, <3>5, <3>6 DEF ReplicaStep, BackoffOver, PurgeAttempts,
           OnAgentOffline
      <3>7. ASSUME NEW a \in Agents, AgentStep(a)
            PROVE  UNCHANGED pass
        BY <3>7 DEF AgentStep, Heartbeat, GoOnline, GoOffline, RequestBegin,
           RequestEnd, CancelAlerts, PromoteCheck, HandoffCheck, HandoffWrite,
           FinalizeBegin, Acknowledge, Pause, CancelWrite, PromoteWrite, FinalizeWrite
      <3>8. ASSUME NEW i \in Invs, AlertStep(i)
            PROVE  UNCHANGED pass
        BY <3>8 DEF AlertStep, CreateAlertInvestigation, ResolveAlert,
           Supersede, CompleteCheck, CompleteWrite, CompleteLost
      <3>9. CASE OperatorStep
        BY <3>9 DEF OperatorStep, ReopenAlert, ReopenRead, ReopenResume,
           ReopenClear, ReopenRequeue, ReopenEnd, Assign
      <3>10. QED
        BY <3>6, <3>7, <3>8, <3>9 DEF Next, OtherRows, Backstop, Tick, vars
    <2>2. CASE pass'[r] = pass[r]
      BY <1>1, <1>4, <2>2 DEF PassType, Known
    <2>3. ASSUME NEW i \in Invs, NEW a \in Agents, Claim(r, i, a)
          PROVE  status'[pass'[r].cur] # "none"
      BY <1>1, <2>3 DEF Claim, ClaimRow, Dispatch, PassType
    <2>4. QED
      BY <2>1, <2>2, <2>3
  <1>5. ASSUME NEW a \in Agents, req'[a].pc # "idle"
        PROVE  status'[req'[a].inv] # "none"
    <2>1. CASE req'[a] = req[a]
      BY <1>1, <1>5, <2>1 DEF RequestType, Known
    <2>2. ASSUME NEW b \in Agents, AgentStep(b)
          PROVE  status'[req'[a].inv] # "none"
      <3>1. CASE a # b
        <4>1. req'[a] = req[a]
          BY <2>2, <3>1 DEF AgentStep, RequestType, Heartbeat, GoOnline, GoOffline,
             RequestBegin, RequestEnd, CancelAlerts, PromoteCheck, HandoffCheck,
             HandoffWrite, FinalizeBegin, Acknowledge, Pause, CancelWrite,
             PromoteWrite, FinalizeWrite
        <4>2. QED
          BY <2>1, <4>1
      <3>2. ASSUME NEW i \in Invs, RequestBegin(b, i, req'[b].op) \/ FinalizeBegin(b, i),
                   a = b
            PROVE  status'[req'[a].inv] # "none"
        <4>1. status[i] # "none"
          BY <3>2 DEF RequestBegin, FinalizeBegin, Known
        <4>2. req'[a].inv = i
          BY <3>2 DEF RequestBegin, FinalizeBegin, Request, RequestType
        <4>3. QED
          BY <1>1, <4>1, <4>2
      <3>3. ASSUME NEW i \in Invs, NEW op \in Ops, RequestBegin(b, i, op), a = b
            PROVE  status'[req'[a].inv] # "none"
        <4>1. req'[b].op = op
          BY <3>3 DEF RequestBegin, Request, RequestType
        <4>2. QED
          BY <3>2, <3>3, <4>1
      <3>4. CASE a = b /\ req[a].pc # "idle" /\ req'[a].inv = req[a].inv
        BY <1>1, <3>4 DEF RequestType, Known
      <3>5. CASE a = b /\ Acknowledge(b)
        BY <3>4, <3>5 DEF Acknowledge, Request, RequestType
      <3>6. CASE a = b /\ (CancelAlerts(b) \/ PromoteCheck(b) \/ HandoffCheck(b))
        BY <3>4, <3>6 DEF CancelAlerts, PromoteCheck, HandoffCheck, Request,
           RequestType
      <3>7. CASE req' = [req EXCEPT ![b] = NoReq]
        BY <1>5, <2>1, <3>7 DEF NoReq, Request, RequestType
      <3>8. QED
        BY <2>1, <2>2, <3>1, <3>2, <3>3, <3>5, <3>6, <3>7 DEF AgentStep, Heartbeat,
           GoOnline, GoOffline, RequestEnd, HandoffWrite, Pause, CancelWrite,
           PromoteWrite, FinalizeWrite
    <2>3. ASSUME NEW r \in Replicas, ReplicaStep(r)
          PROVE  UNCHANGED req
      BY <2>3 DEF ReplicaStep, PassStep, ExpireLeases, Claim, ClaimError, GiveUp,
         ForwardError, ExpireLeasesError, ListAgents, ListPending, EndPass,
         SkipPending, ForwardOk, BackoffOver, PurgeAttempts, OnAgentOffline, Crash
    <2>4. ASSUME NEW i \in Invs, AlertStep(i)
          PROVE  UNCHANGED req
      BY <2>4 DEF AlertStep, CreateAlertInvestigation, ResolveAlert,
         Supersede, CompleteCheck, CompleteWrite, CompleteLost
    <2>5. CASE OperatorStep
      BY <2>1, <2>5 DEF OperatorStep, ReopenAlert, ReopenRead, ReopenResume,
         ReopenClear, ReopenRequeue, ReopenEnd, Assign
    <2>6. QED
      BY <2>1, <2>2, <2>3, <2>4, <2>5 DEF Next, OtherRows, Backstop, Tick, vars
  <1>6. QED
    BY <1>1, <1>2, <1>3, <1>4, <1>5 DEF Known, RowType

\* The strengthening holds in every state.
LEMMA AlwaysKnown == Spec => []Known
  <1>1. Init => Known
    BY DEF Init, Known, IdlePass, Scan, NoReq, Request
  <1>2. QED
    BY <1>1, InvestigationTypes, KnownStep, PTL DEF Spec

\* All the writers of the status together, each with what it read some steps
\* ago, take no edge that the life cycle of store/investigation_shared.go and
\* its store functions does not have.
THEOREM ImplementsLifecycle == Spec => Lifecycle
  <1>1. Init => L!LInit
    BY DEF Init, L!LInit
  <1>2. TypeOK /\ Known /\ [Next]_vars => [L!LNext]_status
    BY StatusStep DEF Edge, OperatorReopens, L!LNext
  <1>3. QED
    BY <1>1, <1>2, InvestigationTypes, AlwaysKnown, PTL
       DEF Spec, Lifecycle, L!Lifecycle

\* A row that is over is brought back by the operator's reopen alone, whatever
\* late answers of passes, agents and completion calls still arrive.
THEOREM OverIsOver == Spec => OverStaysOver
  <1> DEFINE Back == \A i \in Invs :
                 status[i] \in Terminal /\ status'[i] \notin Terminal =>
                     reopen.inv = i /\ reopen.pc \in {"resume", "requeue"}
  <1>1. TypeOK /\ Known /\ [Next]_vars => [Back]_vars
    <2> SUFFICES ASSUME TypeOK, Known, [Next]_vars, NEW i \in Invs,
                        status[i] \in Terminal, status'[i] \notin Terminal
                 PROVE  reopen.inv = i /\ reopen.pc \in {"resume", "requeue"}
      OBVIOUS
    <2>1. Edge
      BY StatusStep
    <2>2. CASE L!TakeBack
      BY <2>2 DEF L!TakeBack, L!Working, Terminal, L!Terminal
    <2>3. ASSUME NEW j \in Invs,
                 \/ L!Insert(j) \/ L!Take(j) \/ L!Start(j) \/ L!Suspend(j)
                 \/ L!Finish(j) \/ L!Close(j)
          PROVE  FALSE
      BY <2>3 DEF TypeOK, RowType, L!Insert, L!Take, L!Start, L!Suspend, L!Finish,
         L!Close, L!Open, L!Working, Terminal, L!Terminal
    <2>4. ASSUME NEW j \in Invs, OperatorReopens(j)
          PROVE  reopen.inv = i /\ reopen.pc \in {"resume", "requeue"}
      BY <2>4 DEF OperatorReopens, L!Reopen, TypeOK, RowType
    <2>5. QED
      BY <2>1, <2>2, <2>3, <2>4 DEF Edge
  <1>2. QED
    BY <1>1, InvestigationTypes, AlwaysKnown, PTL DEF Spec, OverStaysOver

\* No write, late or unguarded, takes away the status of a row that was inserted.
RowsKept == [][\A i \in Invs : status[i] # "none" => status'[i] # "none"]_vars

\* A paused row waits for a person: no sweep, pass or agent sets it to work, it
\* ends or the operator's reopen brings it back.
PausedWaits ==
    [][\A i \in Invs :
          status[i] = "paused" /\ status'[i] \in L!Working \cup {"pending"} =>
              reopen.inv = i /\ reopen.pc \in {"resume", "requeue"}]_vars

\* No writer, guarded or not, takes a row out of the table again, which is what
\* lets GiveUp and PromoteWrite do without a guard.
THEOREM RowsAlwaysStay == Spec => RowsKept
  <1> DEFINE Stay == \A i \in Invs : status[i] # "none" => status'[i] # "none"
  <1>1. TypeOK /\ Known /\ [Next]_vars => [Stay]_vars
    BY StatusStep, RowsStay
  <1>2. QED
    BY <1>1, InvestigationTypes, AlwaysKnown, PTL DEF Spec, RowsKept

\* A paused row goes back to work by the operator's reopen alone, although
\* sweeps, passes and late answers of the agent that paused it go on.
THEOREM PausedAlwaysWaits == Spec => PausedWaits
  <1> DEFINE Waits == \A i \in Invs :
                 status[i] = "paused" /\ status'[i] \in L!Working \cup {"pending"} =>
                     reopen.inv = i /\ reopen.pc \in {"resume", "requeue"}
  <1>1. TypeOK /\ Known /\ [Next]_vars => [Waits]_vars
    <2> SUFFICES ASSUME TypeOK, Known, [Next]_vars, NEW i \in Invs,
                        status[i] = "paused", status'[i] \in L!Working \cup {"pending"}
                 PROVE  reopen.inv = i /\ reopen.pc \in {"resume", "requeue"}
      OBVIOUS
    <2> USE DEF L!Working, L!Open
    <2>1. Edge
      BY StatusStep
    <2>2. CASE L!TakeBack
      BY <2>2 DEF L!TakeBack
    <2>3. ASSUME NEW j \in Invs,
                 \/ L!Insert(j) \/ L!Take(j) \/ L!Start(j) \/ L!Suspend(j)
                 \/ L!Finish(j) \/ L!Close(j)
          PROVE  FALSE
      BY <2>3 DEF TypeOK, RowType, L!Insert, L!Take, L!Start, L!Suspend, L!Finish,
         L!Close
    <2>4. ASSUME NEW j \in Invs, OperatorReopens(j)
          PROVE  reopen.inv = i /\ reopen.pc \in {"resume", "requeue"}
      BY <2>4 DEF OperatorReopens, L!Reopen, TypeOK, RowType
    <2>5. QED
      BY <2>1, <2>2, <2>3, <2>4 DEF Edge
  <1>2. QED
    BY <1>1, InvestigationTypes, AlwaysKnown, PTL DEF Spec, PausedWaits
===============================================================================
