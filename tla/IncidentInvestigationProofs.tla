--------------------- MODULE IncidentInvestigationProofs ---------------------
(***************************************************************************)
(* For every number of rows, agents and replicas, and every lease and      *)
(* grace: the types of IncidentInvestigation, and that no race between its *)
(* unguarded writes leaves a row that names an agent without a deadline.   *)
(***************************************************************************)
EXTENDS IncidentInvestigation, TLAPS

\* The parts of TypeOK.
RowType ==
    /\ status \in [Invs -> Statuses]
    /\ agent \in [Invs -> Agents \cup {None}]
    /\ lease \in [Invs -> LeaseTicks \cup {NoLease}]

LinkType ==
    /\ alive \in [Agents -> BOOLEAN] /\ online \in [Agents -> BOOLEAN]
    /\ gone \in [Agents -> SUBSET Replicas]

Passes == [pc : {"idle", "scan", "forward", "write"},
           up : SUBSET Agents, inv : Invs \cup {None},
           tgt : Agents \cup {None},
           to : {"none", "pending", "investigating"}]

PassType ==
    /\ pass \in [Replicas -> Passes]
    /\ \A r \in Replicas :
          pass[r].pc \in {"forward", "write"} =>
              pass[r].inv \in Invs /\ pass[r].tgt \in pass[r].up

ToolType ==
    tool \in [Agents -> [pc : {"idle", "write"}, inv : Invs \cup {None},
                         to : {"none", "paused", "cancelled"}, due : {"none"}]]

AssignType ==
    assign \in [pc : {"idle", "set", "write"}, inv : Invs \cup {None},
                to : {"none", "user", "agent"}, due : {"none", "pending", "assigned"}]

CountType == requests \in 0 .. MaxRequests /\ faults \in 0 .. MaxFaults

LEMMA TypeParts ==
    TypeOK <=> /\ open \in BOOLEAN /\ creating \in SUBSET Creators
               /\ RowType /\ LinkType /\ PassType /\ ToolType /\ AssignType /\ CountType
  BY DEF TypeOK, RowType, LinkType, PassType, Passes, ToolType, AssignType, CountType

LEMMA TypeAgain ==
    ASSUME open' \in BOOLEAN, creating' \in SUBSET Creators,
           RowType', LinkType', PassType', ToolType', AssignType', CountType'
    PROVE  TypeOK'
  BY DEF TypeOK, RowType, LinkType, PassType, Passes, ToolType, AssignType, CountType

\* A write of a step that is about to be made names a row and a status the
\* row may have; without it an unguarded write could spoil the table.
WritesNamed ==
    /\ \A r \in Replicas : pass[r].pc = "write" => pass[r].to # "none"
    /\ \A a \in Agents : tool[a].pc = "write" => tool[a].inv \in Invs /\ tool[a].to # "none"
    /\ assign.pc = "set" => assign.inv \in Invs
    /\ assign.pc = "write" => assign.inv \in Invs /\ assign.due # "none"

IInv == TypeOK /\ WritesNamed /\ NamedAgentHasLease

LEMMA StatusNames ==
    /\ {"none", "pending", "assigned", "investigating", "paused", "cancelled"} = Statuses
    /\ "none" \notin Active
  BY DEF Statuses, Active, Working

\* The deadlines the claim, the heartbeat, the disconnect and the clock set.
LEMMA Ticks ==
    /\ Lease \in LeaseTicks /\ Grace \in LeaseTicks /\ 0 \in LeaseTicks
    /\ \A n \in LeaseTicks : n # 0 => n - 1 \in LeaseTicks
    /\ NoLease \notin LeaseTicks
  BY LeaseAssumption, NoLeaseAssumption DEF LeaseTicks

LEMMA InitInvariant == Init => IInv
<1> SUFFICES ASSUME Init PROVE IInv
  OBVIOUS
<1>1. RowType
  BY StatusNames DEF Init, RowType
<1>2. PassType
  BY DEF Init, PassType, Passes, IdlePass, Pass
<1>3. ToolType /\ AssignType
  BY DEF Init, ToolType, AssignType, NoWrite, Write
<1>4. LinkType /\ open \in BOOLEAN /\ creating \in SUBSET Creators
  BY DEF Init, LinkType
<1>5. CountType
  BY BoundsAssumption DEF Init, CountType
<1>6. WritesNamed /\ NamedAgentHasLease
  BY DEF Init, WritesNamed, NamedAgentHasLease, IdlePass, Pass, NoWrite, Write
<1>7. QED
  BY <1>1, <1>2, <1>3, <1>4, <1>5, <1>6, TypeParts DEF IInv

-----------------------------------------------------------------------------
(* Steps that leave a part alone, and the counters. *)

LEMMA RowKept == RowType /\ UNCHANGED row => RowType'
  BY DEF RowType, row

LEMMA LinkKept == LinkType /\ UNCHANGED links => LinkType'
  BY DEF LinkType, links

LEMMA CallsKept ==
    /\ ToolType /\ UNCHANGED tool => ToolType'
    /\ AssignType /\ UNCHANGED assign => AssignType'
  BY DEF ToolType, AssignType

LEMMA PassKept == PassType /\ UNCHANGED pass => PassType'
  BY DEF PassType

LEMMA CountStep ==
    ASSUME CountType, Asked \/ UNCHANGED requests, Fault \/ UNCHANGED faults
    PROVE  CountType'
  BY BoundsAssumption DEF CountType, Asked, Fault

\* An unguarded write of a status keeps the table, and names nobody.
LEMMA StatusWrite ==
    ASSUME RowType, NEW v \in Invs, NEW s \in Statuses,
           WriteStatus(v, s), UNCHANGED <<agent, lease>>
    PROVE  RowType' /\ (Fault \/ UNCHANGED faults)
  BY DEF RowType, WriteStatus

\* A row keeps its deadline when the agent stays or goes and the lease stays.
LEMMA LeaseKept ==
    ASSUME NamedAgentHasLease, lease' = lease,
           \A v \in Invs : agent'[v] \in {agent[v], None}
    PROVE  NamedAgentHasLease'
  BY DEF NamedAgentHasLease

-----------------------------------------------------------------------------
(* The steps. *)

LEMMA CreateStepInvariant ==
    ASSUME IInv, NEW c \in Creators, CreateStep(c)
    PROVE  IInv'
<1>1. /\ open \in BOOLEAN /\ creating \in SUBSET Creators
      /\ RowType /\ LinkType /\ PassType /\ ToolType /\ AssignType /\ CountType
  BY TypeParts DEF IInv
<1>2. WritesNamed /\ NamedAgentHasLease
  BY DEF IInv
<1>3. /\ UNCHANGED <<open, links, pass, tool, assign>>
      /\ creating' \in SUBSET Creators
      /\ Asked \/ UNCHANGED requests
      /\ Fault \/ UNCHANGED faults
  BY <1>1 DEF CreateStep, CreateCheck, CreateInsert, CreateFails
<1>4. CountType'
  BY <1>1, <1>3, CountStep
<1>5. RowType' /\ NamedAgentHasLease'
  <2>1. CASE UNCHANGED row
    BY <1>1, <1>2, <2>1, RowKept DEF row, NamedAgentHasLease
  <2>2. CASE CreateInsert(c)
    <3>1. PICK v \in Invs : /\ status' = [status EXCEPT ![v] = "pending"]
                            /\ agent' = [agent EXCEPT ![v] = None]
                            /\ lease' = [lease EXCEPT ![v] = NoLease]
      BY <2>2 DEF CreateInsert
    <3>2. RowType'
      BY <1>1, <3>1, StatusNames DEF RowType
    <3>3. NamedAgentHasLease'
      BY <1>1, <1>2, <3>1 DEF RowType, NamedAgentHasLease
    <3>4. QED
      BY <3>2, <3>3
  <2>3. QED
    BY <2>1, <2>2 DEF CreateStep, CreateCheck, CreateFails
<1>6. WritesNamed'
  BY <1>2, <1>3 DEF WritesNamed
<1>7. QED
  BY <1>1, <1>3, <1>4, <1>5, <1>6, LinkKept, PassKept, CallsKept, TypeAgain DEF IInv

LEMMA PassStepInvariant ==
    ASSUME IInv, NEW r \in Replicas, PassStep(r)
    PROVE  IInv'
<1>1. /\ open \in BOOLEAN /\ creating \in SUBSET Creators
      /\ RowType /\ LinkType /\ PassType /\ ToolType /\ AssignType /\ CountType
  BY TypeParts DEF IInv
<1>2. WritesNamed /\ NamedAgentHasLease
  BY DEF IInv
<1>3. ASSUME NEW p, p \in Passes, pass' = [pass EXCEPT ![r] = p],
             p.pc \in {"forward", "write"} => p.inv \in Invs /\ p.tgt \in p.up,
             p.pc = "write" => p.to # "none",
             UNCHANGED <<open, links, calls, requests>>, Fault \/ UNCHANGED faults,
             RowType', NamedAgentHasLease'
      PROVE  IInv'
  <2>1. PassType'
    BY <1>1, <1>3 DEF PassType
  <2>2. WritesNamed'
    BY <1>1, <1>2, <1>3 DEF WritesNamed, calls, PassType
  <2>3. CountType'
    BY <1>1, <1>3, CountStep
  <2>4. QED
    BY <1>1, <1>3, <2>1, <2>2, <2>3, LinkKept, CallsKept, TypeAgain DEF IInv, calls
<1>4. CASE PassBegin(r) \/ PassEnd(r)
  <2>1. RowType' /\ NamedAgentHasLease'
    BY <1>1, <1>2, <1>4, RowKept DEF PassBegin, PassEnd, row, NamedAgentHasLease
  <2>2. PICK up \in SUBSET Agents : \/ pass' = [pass EXCEPT ![r] = Scan(up)]
                                    \/ pass' = [pass EXCEPT ![r] = IdlePass]
    BY <1>4 DEF PassBegin, PassEnd
  <2>3. /\ Scan(up) \in Passes /\ Scan(up).pc = "scan"
        /\ IdlePass \in Passes /\ IdlePass.pc = "idle"
    BY DEF Scan, IdlePass, Pass, Passes
  <2>4. QED
    BY <1>3, <1>4, <2>1, <2>2, <2>3 DEF PassBegin, PassEnd
<1>5. ASSUME NEW v \in Invs, Claim(r, v)
      PROVE  IInv'
  <2>1. PICK a \in pass[r].up :
          /\ Claimed(v, a)
          /\ \/ /\ pass' = [pass EXCEPT ![r].pc = "forward", ![r].inv = v, ![r].tgt = a]
                /\ UNCHANGED faults
             \/ Fault /\ UNCHANGED pass
    BY <1>5 DEF Claim
  <2>2. pass[r] \in Passes /\ a \in Agents
    BY <1>1 DEF PassType, Passes
  <2>3. RowType'
    BY <1>1, <2>1, <2>2, Ticks, StatusNames DEF Claimed, RowType
  <2>4. NamedAgentHasLease'
    BY <1>1, <1>2, <2>1, <2>2, Ticks DEF Claimed, RowType, NamedAgentHasLease
  <2>5. UNCHANGED <<open, links, calls, requests>>
    BY <1>5 DEF Claim
  <2>6. CASE UNCHANGED pass
    <3>1. pass' = [pass EXCEPT ![r] = pass[r]]
      BY <1>1, <2>6 DEF PassType
    <3>2. Fault \/ UNCHANGED faults
      BY <2>1
    <3>3. QED
      BY <1>1, <1>2, <1>3, <2>2, <2>3, <2>4, <2>5, <3>1, <3>2 DEF PassType, WritesNamed
  <2>7. CASE /\ pass' = [pass EXCEPT ![r].pc = "forward", ![r].inv = v, ![r].tgt = a]
             /\ UNCHANGED faults
    <3> DEFINE p == [pass[r] EXCEPT !.pc = "forward", !.inv = v, !.tgt = a]
    <3>1. /\ p \in Passes /\ p.pc = "forward" /\ p.inv = v /\ p.tgt = a
          /\ p.up = pass[r].up
      BY <2>2 DEF Passes
    <3>2. pass' = [pass EXCEPT ![r] = p]
      BY <1>1, <2>7 DEF PassType
    <3> HIDE DEF p
    <3>3. QED
      BY <1>3, <2>3, <2>4, <2>5, <2>7, <3>1, <3>2
  <2>8. QED
    BY <2>1, <2>6, <2>7
<1>6. CASE Forward(r)
  <2>1. PICK s \in {"investigating", "pending"} :
          pass' = [pass EXCEPT ![r].pc = "write", ![r].to = s]
    BY <1>6 DEF Forward
  <2> DEFINE p == [pass[r] EXCEPT !.pc = "write", !.to = s]
  <2>2. /\ p \in Passes /\ p.pc = "write" /\ p.to = s
        /\ p.inv \in Invs /\ p.tgt \in p.up
    BY <1>1, <1>6 DEF Forward, PassType, Passes
  <2>3. pass' = [pass EXCEPT ![r] = p]
    BY <1>1, <2>1 DEF PassType
  <2>4. RowType' /\ NamedAgentHasLease'
    BY <1>1, <1>2, <1>6, RowKept DEF Forward, row, NamedAgentHasLease
  <2> HIDE DEF p
  <2>5. QED
    BY <1>3, <1>6, <2>2, <2>3, <2>4 DEF Forward
<1>7. CASE DispatchWrite(r)
  <2> DEFINE v == pass[r].inv
             s == pass[r].to
  <2>1. /\ v \in Invs /\ s \in Statuses /\ Scan(pass[r].up) \in Passes
        /\ Scan(pass[r].up).pc = "scan"
    BY <1>1, <1>2, <1>7, StatusNames
       DEF DispatchWrite, PassType, Passes, WritesNamed, Scan, Pass
  <2>2. /\ WriteStatus(v, s) /\ UNCHANGED <<agent, lease>>
        /\ pass' = [pass EXCEPT ![r] = Scan(pass[r].up)]
        /\ UNCHANGED <<open, links, calls, requests>>
    BY <1>1, <1>7 DEF DispatchWrite, PassType
  <2> HIDE DEF v, s
  <2>3. RowType' /\ (Fault \/ UNCHANGED faults)
    BY <1>1, <2>1, <2>2, StatusWrite
  <2>4. NamedAgentHasLease'
    BY <1>2, <2>2 DEF NamedAgentHasLease
  <2>5. QED
    BY <1>3, <2>1, <2>2, <2>3, <2>4
<1>8. QED
  BY <1>4, <1>5, <1>6, <1>7 DEF PassStep

LEMMA OtherReplicaStepInvariant ==
    ASSUME IInv,
           \/ ExpireLeases \/ Tick \/ IncidentChanges
           \/ \E r \in Replicas : Crash(r)
           \/ \E r \in Replicas, a \in Agents : OnAgentOffline(r, a)
    PROVE  IInv'
<1>1. /\ open \in BOOLEAN /\ creating \in SUBSET Creators
      /\ RowType /\ LinkType /\ PassType /\ ToolType /\ AssignType /\ CountType
  BY TypeParts DEF IInv
<1>2. WritesNamed /\ NamedAgentHasLease
  BY DEF IInv
<1>3. /\ UNCHANGED calls /\ open' \in BOOLEAN
      /\ Asked \/ UNCHANGED requests
      /\ Fault \/ UNCHANGED faults
  BY <1>1 DEF ExpireLeases, Tick, IncidentChanges, Crash, OnAgentOffline
<1>4. LinkType'
  BY <1>1 DEF ExpireLeases, Tick, IncidentChanges, Crash, OnAgentOffline, links, LinkType
<1>5. PassType' /\ \A r \in Replicas : pass'[r] = pass[r] \/ pass'[r].pc = "idle"
  <2>1. IdlePass \in Passes /\ IdlePass.pc = "idle"
    BY DEF IdlePass, Pass, Passes
  <2>2. CASE UNCHANGED pass
    BY <1>1, <2>2, PassKept
  <2>3. CASE Tick
    BY <2>1, <2>3 DEF Tick, PassType
  <2>4. ASSUME NEW r \in Replicas, Crash(r)
        PROVE  PassType' /\ \A s \in Replicas : pass'[s] = pass[s] \/ pass'[s].pc = "idle"
    BY <1>1, <2>1, <2>4 DEF Crash, PassType
  <2>5. QED
    BY <2>2, <2>3, <2>4 DEF ExpireLeases, IncidentChanges, OnAgentOffline
<1>6. WritesNamed'
  BY <1>2, <1>3, <1>5 DEF WritesNamed, calls
<1>7. RowType' /\ NamedAgentHasLease'
  <2>1. CASE UNCHANGED row
    BY <1>1, <1>2, <2>1, RowKept DEF row, NamedAgentHasLease
  <2>2. CASE ExpireLeases
    <3> DEFINE S == {v \in Invs : Lapsed(v)}
    <3>1. TakenBack(S)
      BY <2>2 DEF ExpireLeases
    <3> HIDE DEF S
    <3>2. RowType'
      BY <1>1, <3>1, StatusNames DEF TakenBack, RowType
    <3>3. NamedAgentHasLease'
      BY <1>1, <1>2, <3>1 DEF TakenBack, RowType, NamedAgentHasLease
    <3>4. QED
      BY <3>2, <3>3
  <2>3. CASE Tick
    <3>1. \A v \in Invs : lease'[v] =
             IF lease[v] \in {0, NoLease} THEN lease[v] ELSE lease[v] - 1
      BY <2>3 DEF Tick
    <3>2. \A v \in Invs : /\ lease'[v] \in LeaseTicks \cup {NoLease}
                          /\ lease[v] # NoLease => lease'[v] # NoLease
      BY <1>1, <3>1, Ticks DEF RowType
    <3>3. RowType'
      BY <1>1, <2>3, <3>2 DEF Tick, RowType
    <3>4. NamedAgentHasLease'
      BY <1>2, <2>3, <3>2 DEF Tick, NamedAgentHasLease
    <3>5. QED
      BY <3>3, <3>4
  <2>4. ASSUME NEW r \in Replicas, NEW a \in Agents, OnAgentOffline(r, a)
        PROVE  RowType' /\ NamedAgentHasLease'
    <3>1. CASE UNCHANGED lease
      BY <1>1, <1>2, <2>4, <3>1 DEF OnAgentOffline, RowType, NamedAgentHasLease
    <3>2. CASE lease' = [v \in Invs |->
                IF agent[v] # a THEN lease[v]
                ELSE IF status[v] = "assigned" THEN 0
                ELSE IF status[v] = "investigating" THEN Grace
                ELSE lease[v]]
      BY <1>1, <1>2, <2>4, <3>2, Ticks DEF OnAgentOffline, RowType, NamedAgentHasLease
    <3>3. QED
      BY <2>4, <3>1, <3>2 DEF OnAgentOffline
  <2>5. QED
    BY <2>1, <2>2, <2>3, <2>4 DEF Crash, IncidentChanges
<1>8. CountType'
  BY <1>1, <1>3, CountStep
<1>9. creating' \in SUBSET Creators
  BY <1>1, <1>3 DEF calls
<1>10. ToolType' /\ AssignType'
  BY <1>1, <1>3, CallsKept DEF calls
<1>11. QED
  BY <1>3, <1>4, <1>5, <1>6, <1>7, <1>8, <1>9, <1>10, TypeAgain DEF IInv

LEMMA AgentStepInvariant ==
    ASSUME IInv, NEW a \in Agents, AgentStep(a)
    PROVE  IInv'
<1>1. /\ open \in BOOLEAN /\ creating \in SUBSET Creators
      /\ RowType /\ LinkType /\ PassType /\ ToolType /\ AssignType /\ CountType
  BY TypeParts DEF IInv
<1>2. WritesNamed /\ NamedAgentHasLease
  BY DEF IInv
<1>3. ASSUME NEW v \in Invs, NEW s \in {"paused", "cancelled"}
      PROVE  /\ Write("write", v, s, "none") \in
                   [pc : {"idle", "write"}, inv : Invs \cup {None},
                    to : {"none", "paused", "cancelled"}, due : {"none"}]
             /\ Write("write", v, s, "none").inv = v
             /\ Write("write", v, s, "none").to = s
  BY DEF Write
<1>4. NoWrite \in [pc : {"idle", "write"}, inv : Invs \cup {None},
                   to : {"none", "paused", "cancelled"}, due : {"none"}]
      /\ NoWrite.pc = "idle"
  BY DEF NoWrite, Write
<1>5. CASE GoOnline(a) \/ GoOffline(a) \/ Stops(a)
  <2>1. /\ UNCHANGED <<open, row, pass, calls, requests>>
        /\ Fault \/ UNCHANGED faults
    BY <1>5 DEF GoOnline, GoOffline, Stops
  <2>2. LinkType'
    BY <1>1, <1>5 DEF GoOnline, GoOffline, Stops, LinkType
  <2>3. NamedAgentHasLease' /\ WritesNamed'
    BY <1>2, <2>1 DEF NamedAgentHasLease, WritesNamed, row, calls
  <2>4. CountType'
    BY <1>1, <2>1, CountStep
  <2>5. QED
    BY <1>1, <2>1, <2>2, <2>3, <2>4, RowKept, PassKept, CallsKept, TypeAgain
       DEF IInv, calls
<1>6. CASE Heartbeat(a)
  <2>1. /\ UNCHANGED <<open, status, agent, links, pass, calls, requests, faults>>
        /\ lease' = [v \in Invs |->
              IF agent[v] = a /\ status[v] = "investigating" THEN Lease ELSE lease[v]]
    BY <1>6 DEF Heartbeat
  <2>2. RowType'
    BY <1>1, <2>1, Ticks DEF RowType
  <2>3. NamedAgentHasLease'
    BY <1>1, <1>2, <2>1, Ticks DEF RowType, NamedAgentHasLease
  <2>4. WritesNamed'
    BY <1>2, <2>1 DEF WritesNamed, calls
  <2>5. CountType'
    BY <1>1, <2>1, CountStep
  <2>6. QED
    BY <1>1, <2>1, <2>2, <2>3, <2>4, <2>5, LinkKept, PassKept, CallsKept, TypeAgain
       DEF IInv, calls
<1>7. CASE ToolWrite(a)
  <2> DEFINE v == tool[a].inv
             s == tool[a].to
  <2>1. v \in Invs /\ s \in Statuses
    BY <1>1, <1>2, <1>7, StatusNames DEF ToolWrite, ToolType, WritesNamed
  <2>2. /\ WriteStatus(v, s) /\ tool' = [tool EXCEPT ![a] = NoWrite]
        /\ UNCHANGED <<open, agent, lease, links, pass, creating, assign, requests>>
    BY <1>7 DEF ToolWrite
  <2> HIDE DEF v, s
  <2>3. RowType' /\ (Fault \/ UNCHANGED faults)
    BY <1>1, <2>1, <2>2, StatusWrite
  <2>4. NamedAgentHasLease'
    BY <1>2, <2>2 DEF NamedAgentHasLease
  <2>5. ToolType' /\ WritesNamed'
    BY <1>1, <1>2, <1>4, <2>2 DEF ToolType, WritesNamed
  <2>6. CountType'
    BY <1>1, <2>2, <2>3, CountStep
  <2>7. QED
    BY <1>1, <2>2, <2>3, <2>4, <2>5, <2>6, LinkKept, PassKept, CallsKept, TypeAgain
       DEF IInv
<1>8. ASSUME NEW v \in Invs, ToolRead(a, v)
      PROVE  IInv'
  <2>1. PICK s \in {"paused", "cancelled"} :
          tool' = [tool EXCEPT ![a] = Write("write", v, s, "none")]
    BY <1>8 DEF ToolRead
  <2>2. /\ UNCHANGED <<open, row, links, pass, creating, assign, faults>> /\ Asked
    BY <1>8 DEF ToolRead
  <2>3. ToolType' /\ WritesNamed'
    BY <1>1, <1>2, <1>3, <2>1, <2>2 DEF ToolType, WritesNamed
  <2>4. NamedAgentHasLease'
    BY <1>2, <2>2 DEF NamedAgentHasLease, row
  <2>5. CountType'
    BY <1>1, <2>2, CountStep
  <2>6. QED
    BY <1>1, <2>2, <2>3, <2>4, <2>5, RowKept, LinkKept, PassKept, CallsKept, TypeAgain
       DEF IInv
<1>9. QED
  BY <1>5, <1>6, <1>7, <1>8 DEF AgentStep

LEMMA AssignStepInvariant ==
    ASSUME IInv, AssignStep
    PROVE  IInv'
<1>1. /\ open \in BOOLEAN /\ creating \in SUBSET Creators
      /\ RowType /\ LinkType /\ PassType /\ ToolType /\ AssignType /\ CountType
  BY TypeParts DEF IInv
<1>2. WritesNamed /\ NamedAgentHasLease
  BY DEF IInv
<1>3. UNCHANGED <<open, lease, links, pass, creating, tool>>
  BY DEF AssignStep, AssignRead, AssignSet, AssignWrite, row
<1>4. /\ AssignType'
      /\ assign'.pc = "set" => assign'.inv \in Invs
      /\ assign'.pc = "write" => assign'.inv \in Invs /\ assign'.due # "none"
  <2>1. ASSUME NEW v \in Invs, AssignRead(v)
        PROVE  /\ AssignType' /\ assign'.pc = "set" /\ assign'.inv \in Invs
    <3>1. PICK to \in {"user", "agent"} : assign' = Write("set", v, to, Due(to, status[v]))
      BY <2>1 DEF AssignRead
    <3>2. Due(to, status[v]) \in {"none", "pending", "assigned"}
      BY DEF Due
    <3>3. QED
      BY <3>1, <3>2 DEF Write, AssignType
  <2>2. CASE AssignSet
    BY <1>1, <1>2, <2>2 DEF AssignSet, AssignType, WritesNamed, NoWrite, Write
  <2>3. CASE AssignWrite
    BY <2>3 DEF AssignWrite, AssignType, NoWrite, Write
  <2>4. QED
    BY <2>1, <2>2, <2>3 DEF AssignStep
<1>5. WritesNamed'
  BY <1>2, <1>3, <1>4 DEF WritesNamed
<1>6. CASE AssignWrite
  <2> DEFINE v == assign.inv
             s == assign.due
  <2>1. v \in Invs /\ s \in Statuses
    BY <1>1, <1>2, <1>6, StatusNames DEF AssignWrite, AssignType, WritesNamed
  <2>2. WriteStatus(v, s) /\ UNCHANGED <<agent, lease, requests>>
    BY <1>6 DEF AssignWrite
  <2> HIDE DEF v, s
  <2>3. RowType' /\ (Fault \/ UNCHANGED faults)
    BY <1>1, <2>1, <2>2, StatusWrite
  <2>4. NamedAgentHasLease'
    BY <1>2, <2>2 DEF NamedAgentHasLease
  <2>5. CountType'
    BY <1>1, <2>2, <2>3, CountStep
  <2>6. QED
    BY <1>1, <1>3, <1>4, <1>5, <2>3, <2>4, <2>5, LinkKept, PassKept, CallsKept, TypeAgain
       DEF IInv
<1>7. CASE AssignSet
  <2>1. /\ UNCHANGED <<status, lease, requests>> /\ (Fault \/ UNCHANGED faults)
        /\ \/ UNCHANGED agent
           \/ agent' = [agent EXCEPT ![assign.inv] = None]
    BY <1>7 DEF AssignSet
  <2>2. RowType' /\ \A v \in Invs : agent'[v] \in {agent[v], None}
    BY <1>1, <2>1 DEF RowType
  <2>3. NamedAgentHasLease'
    BY <1>2, <2>1, <2>2, LeaseKept
  <2>4. CountType'
    BY <1>1, <2>1, CountStep
  <2>5. QED
    BY <1>1, <1>3, <1>4, <1>5, <2>2, <2>3, <2>4, LinkKept, PassKept, CallsKept, TypeAgain
       DEF IInv
<1>8. ASSUME NEW v \in Invs, AssignRead(v)
      PROVE  IInv'
  <2>1. UNCHANGED row /\ UNCHANGED faults /\ Asked
    BY <1>8 DEF AssignRead
  <2>2. NamedAgentHasLease' /\ RowType'
    BY <1>1, <1>2, <2>1, RowKept DEF NamedAgentHasLease, row
  <2>3. CountType'
    BY <1>1, <2>1, CountStep
  <2>4. QED
    BY <1>1, <1>3, <1>4, <1>5, <2>2, <2>3, LinkKept, PassKept, CallsKept, TypeAgain
       DEF IInv
<1>9. QED
  BY <1>6, <1>7, <1>8 DEF AssignStep

-----------------------------------------------------------------------------
LEMMA StepInvariant == IInv /\ [Next]_vars => IInv'
<1> SUFFICES ASSUME IInv, [Next]_vars PROVE IInv'
  OBVIOUS
<1>1. CASE UNCHANGED vars
  BY <1>1 DEF IInv, TypeOK, WritesNamed, NamedAgentHasLease, vars, row, links, calls
<1>2. CASE \E c \in Creators : CreateStep(c)
  BY <1>2, CreateStepInvariant
<1>3. CASE \E r \in Replicas : PassStep(r)
  BY <1>3, PassStepInvariant
<1>4. CASE \/ ExpireLeases \/ Tick \/ IncidentChanges
           \/ \E r \in Replicas : Crash(r)
           \/ \E r \in Replicas, a \in Agents : OnAgentOffline(r, a)
  BY <1>4, OtherReplicaStepInvariant
<1>5. CASE \E a \in Agents : AgentStep(a)
  BY <1>5, AgentStepInvariant
<1>6. CASE AssignStep
  BY <1>6, AssignStepInvariant
<1>7. QED
  BY <1>1, <1>2, <1>3, <1>4, <1>5, <1>6 DEF Next

LEMMA Invariant == Spec => []IInv
<1>1. Init => IInv
  BY InitInvariant
<1>2. IInv /\ [Next]_vars => IInv'
  BY StepInvariant
<1>3. QED
  BY <1>1, <1>2, PTL DEF Spec

\* The rows, passes and pending writes keep their types: although the writes
\* of the dispatch, the tools and the assignment have no guard, what they are
\* about to write is always a row and a status of the table.
THEOREM IncidentRowTypes == Spec => []TypeOK
  BY Invariant, PTL DEF IInv

\* A row of store/incident_investigation.go that names an agent has a deadline,
\* for any number of replicas whose passes overlap, agents, requests and failed
\* commands: whoever sets agent_id sets lease_until in the same statement, and
\* whoever clears lease_until clears agent_id.
THEOREM NamedAgentAlwaysLeased == Spec => []NamedAgentHasLease
  BY Invariant, PTL DEF IInv
=============================================================================
