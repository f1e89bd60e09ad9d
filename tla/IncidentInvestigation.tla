----------------------- MODULE IncidentInvestigation -----------------------
(***************************************************************************)
(* The investigations of one incident: the rows of                         *)
(* store/incident_investigation.go and everyone who writes them.  Unlike   *)
(* AlertInvestigation, only the claim, the sweep, the heartbeat and the    *)
(* disconnect have a guard in their UPDATE: the dispatch, the tools of the *)
(* agents and the operators' assignment write the status whatever it is by *)
(* then, and the insertion checks for an active row in a statement of its  *)
(* own that no unique index backs.                                         *)
(*                                                                         *)
(* What a handler read is kept until its write, so that any step of anyone *)
(* else may come between.  A lease is the number of ticks it has left;     *)
(* a tick ends the passes in progress, whose context is over after 30 s,   *)
(* and with them every write they had left.  Row ids are not bounded: the  *)
(* id of a row that is over, and that nobody is about to write, stands for *)
(* the next row.                                                           *)
(***************************************************************************)
EXTENDS Naturals

CONSTANTS Invs,        \* rows of the incident
          Agents,      \* agents with an enabled token
          Replicas,    \* backend processes with a scheduler
          Lease,       \* INVESTIGATION_TIMEOUT, in ticks
          Grace,       \* the disconnect grace, in ticks
          MaxRequests, \* tool calls, assignments and creations of an instance
          MaxFaults,   \* failed commands and crashes of an instance
          None,        \* no agent, no row
          NoLease      \* lease_until IS NULL

ASSUME LeaseAssumption == Lease \in Nat \ {0} /\ Grace \in Nat
ASSUME NoneAssumption == None \notin Agents /\ None \notin Invs
ASSUME NoLeaseAssumption == NoLease \notin Nat
ASSUME BoundsAssumption == MaxRequests \in Nat /\ MaxFaults \in Nat

VARIABLES
    open,      \* the incident is in ListActiveIncidents
    status, agent, lease,  \* the rows
    alive,     \* the agent's process, the sender of its heartbeats
    online,    \* presence of the agent's event stream
    gone,      \* gone[a]: replicas that still have to run OnAgentOffline(a)
    pass,      \* the scheduler pass of a replica
    creating,  \* the creators that saw no active row and are about to insert
    tool,      \* tool[a]: the agent's pause or cancellation, before its write
    assign,    \* the operator's assignment
    requests, faults

row == <<status, agent, lease>>
links == <<alive, online, gone>>
calls == <<creating, tool, assign>>
vars == <<open, row, links, pass, calls, requests, faults>>

Working == {"assigned", "investigating"}

\* activeIncidentInvestigationStatuses.
Active == Working \cup {"pending", "paused"}
Statuses == Active \cup {"none", "cancelled"}

LeaseTicks == 0 .. (IF Lease > Grace THEN Lease ELSE Grace)

\* The incident sweep, one per leader, and everyone else who may create a row:
\* operators, the incident worker, the promotion of an alert investigation.
Creators == {"sweep", "request"}

Pass(pc, up) == [pc |-> pc, up |-> up, inv |-> None, tgt |-> None, to |-> "none"]
IdlePass == Pass("idle", {})
Scan(up) == Pass("scan", up)
Write(pc, v, to, due) == [pc |-> pc, inv |-> v, to |-> to, due |-> due]
NoWrite == Write("idle", None, "none", "none")

\* Types; a pass that dispatches names its row and its agent.
TypeOK ==
    /\ open \in BOOLEAN
    /\ status \in [Invs -> Statuses]
    /\ agent \in [Invs -> Agents \cup {None}]
    /\ lease \in [Invs -> LeaseTicks \cup {NoLease}]
    /\ alive \in [Agents -> BOOLEAN] /\ online \in [Agents -> BOOLEAN]
    /\ gone \in [Agents -> SUBSET Replicas]
    /\ pass \in [Replicas -> [pc : {"idle", "scan", "forward", "write"},
                              up : SUBSET Agents, inv : Invs \cup {None},
                              tgt : Agents \cup {None},
                              to : {"none", "pending", "investigating"}]]
    /\ \A r \in Replicas :
          pass[r].pc \in {"forward", "write"} =>
              pass[r].inv \in Invs /\ pass[r].tgt \in pass[r].up
    /\ creating \in SUBSET Creators
    /\ tool \in [Agents -> [pc : {"idle", "write"}, inv : Invs \cup {None},
                            to : {"none", "paused", "cancelled"}, due : {"none"}]]
    /\ assign \in [pc : {"idle", "set", "write"}, inv : Invs \cup {None},
                   to : {"none", "user", "agent"}, due : {"none", "pending", "assigned"}]
    /\ requests \in 0 .. MaxRequests /\ faults \in 0 .. MaxFaults

Init ==
    /\ open = TRUE
    /\ status = [v \in Invs |-> "none"]
    /\ agent = [v \in Invs |-> None]
    /\ lease = [v \in Invs |-> NoLease]
    /\ alive = [a \in Agents |-> TRUE]
    /\ online = [a \in Agents |-> FALSE]
    /\ gone = [a \in Agents |-> {}]
    /\ pass = [r \in Replicas |-> IdlePass]
    /\ creating = {}
    /\ tool = [a \in Agents |-> NoWrite]
    /\ assign = NoWrite
    /\ requests = 0 /\ faults = 0

Fault == faults < MaxFaults /\ faults' = faults + 1
Asked == requests < MaxRequests /\ requests' = requests + 1

\* UpdateIncidentInvestigationStatus: whatever the row has become; or an error,
\* which every caller logs or drops.
WriteStatus(v, s) ==
    \/ status' = [status EXCEPT ![v] = s] /\ UNCHANGED faults
    \/ Fault /\ UNCHANGED status

-----------------------------------------------------------------------------
(* Creation. *)

HasActive == \E v \in Invs : status[v] \in Active

\* Nobody is about to write the row.
Untouched(v) ==
    /\ \A r \in Replicas : pass[r].inv # v
    /\ \A a \in Agents : tool[a].inv # v
    /\ assign.inv # v

\* An id for the next row.
Unused(v) == status[v] = "none" \/ (status[v] = "cancelled" /\ Untouched(v))

\* Mutant of CreateCheck: a row that is over counts, too.
CreateCheckOnce(c) ==
    /\ c \notin creating /\ \A v \in Invs : status[v] = "none"
    /\ IF c = "sweep" THEN open /\ UNCHANGED requests ELSE Asked
    /\ creating' = creating \cup {c}
    /\ UNCHANGED <<open, row, links, pass, tool, assign, faults>>

\* incidentHasOpenInvestigation, and the SELECT that opens the creation: only
\* the sweep asks whether the incident is still active.
CreateCheck(c) ==
    /\ c \notin creating /\ ~HasActive
    /\ IF c = "sweep" THEN open /\ UNCHANGED requests ELSE Asked
    /\ creating' = creating \cup {c}
    /\ UNCHANGED <<open, row, links, pass, tool, assign, faults>>

\* The INSERT of the same transaction: nothing makes it look again.
CreateInsert(c) ==
    /\ c \in creating
    /\ \E v \in Invs :
          /\ Unused(v)
          /\ status' = [status EXCEPT ![v] = "pending"]
          /\ agent' = [agent EXCEPT ![v] = None]
          /\ lease' = [lease EXCEPT ![v] = NoLease]
    /\ creating' = creating \ {c}
    /\ UNCHANGED <<open, links, pass, tool, assign, requests, faults>>

CreateFails(c) ==
    /\ c \in creating /\ creating' = creating \ {c}
    /\ Fault
    /\ UNCHANGED <<open, row, links, pass, tool, assign, requests>>

\* The incident is resolved or closed, or reopened: no row is touched.
IncidentChanges ==
    /\ Asked
    /\ open' = ~open
    /\ UNCHANGED <<row, links, pass, calls, faults>>

-----------------------------------------------------------------------------
(* scheduleIncidentInvestigations and dispatchIncidentInvestigation. *)

\* The listing of agents and rows.  Capability, circuit, capacity and the role
\* of commander leave some of the agents that are online.
PassBegin(r) ==
    /\ pass[r].pc = "idle"
    /\ \E up \in SUBSET {a \in Agents : online[a]} :
          /\ up # {}
          /\ pass' = [pass EXCEPT ![r] = Scan(up)]
    /\ UNCHANGED <<open, row, links, calls, requests, faults>>

PassEnd(r) ==
    /\ pass[r].pc = "scan"
    /\ pass' = [pass EXCEPT ![r] = IdlePass]
    /\ UNCHANGED <<open, row, links, calls, requests, faults>>

\* Mutant of Claimed: the grace is added to the lease.
ClaimedForLonger(v, a) ==
    /\ status' = [status EXCEPT ![v] = "assigned"]
    /\ agent' = [agent EXCEPT ![v] = a]
    /\ lease' = [lease EXCEPT ![v] = Lease + Grace]

\* The row as the claim leaves it.
Claimed(v, a) ==
    /\ status' = [status EXCEPT ![v] = "assigned"]
    /\ agent' = [agent EXCEPT ![v] = a]
    /\ lease' = [lease EXCEPT ![v] = Lease]

\* ClaimPendingIncidentInvestigation: the guard is the status alone.  The claim
\* is committed and the reload after it may fail, and the pass moves on.
Claim(r, v) ==
    /\ pass[r].pc = "scan" /\ status[v] = "pending"
    /\ \E a \in pass[r].up :
          /\ Claimed(v, a)
          /\ \/ /\ pass' = [pass EXCEPT ![r].pc = "forward", ![r].inv = v, ![r].tgt = a]
                /\ UNCHANGED faults
             \/ Fault /\ UNCHANGED pass
    /\ UNCHANGED <<open, links, calls, requests>>

\* ForwardDispatchToAgent: what follows is the write of its outcome.
Forward(r) ==
    /\ pass[r].pc = "forward"
    /\ \E s \in {"investigating", "pending"} :
          pass' = [pass EXCEPT ![r].pc = "write", ![r].to = s]
    /\ UNCHANGED <<open, row, links, calls, requests, faults>>

\* investigating after a forward, pending again after a failed one.
DispatchWrite(r) ==
    /\ pass[r].pc = "write"
    /\ WriteStatus(pass[r].inv, pass[r].to)
    /\ pass' = [pass EXCEPT ![r] = Scan(@.up)]
    /\ UNCHANGED <<open, agent, lease, links, calls, requests>>

\* Mutant of Lapsed: a row the agent has not started is left to it.
LapsedStarted(v) == status[v] = "investigating" /\ lease[v] = 0

Lapsed(v) == status[v] \in Working /\ lease[v] = 0

\* Mutant of TakenBack: the agent stays on the row.
TakenBackNamed(S) ==
    /\ status' = [v \in Invs |-> IF v \in S THEN "pending" ELSE status[v]]
    /\ agent' = agent
    /\ lease' = [v \in Invs |-> IF v \in S THEN NoLease ELSE lease[v]]

\* The rows the sweep takes back.
TakenBack(S) ==
    /\ status' = [v \in Invs |-> IF v \in S THEN "pending" ELSE status[v]]
    /\ agent' = [v \in Invs |-> IF v \in S THEN None ELSE agent[v]]
    /\ lease' = [v \in Invs |-> IF v \in S THEN NoLease ELSE lease[v]]

\* ExpireIncidentInvestigationLeases, before every pass: one UPDATE.
ExpireLeases ==
    /\ \E v \in Invs : Lapsed(v)
    /\ TakenBack({v \in Invs : Lapsed(v)})
    /\ UNCHANGED <<open, links, pass, calls, requests, faults>>

\* Time passes, and the contexts of the passes in progress are over.
Tick ==
    /\ lease' = [v \in Invs |-> IF lease[v] \in {0, NoLease} THEN lease[v] ELSE lease[v] - 1]
    /\ pass' = [r \in Replicas |-> IdlePass]
    /\ UNCHANGED <<open, status, agent, links, calls, requests, faults>>

\* The process ends: its pass, and the offline events it had not handled.
Crash(r) ==
    /\ pass' = [pass EXCEPT ![r] = IdlePass]
    /\ gone' = [a \in Agents |-> gone[a] \ {r}]
    /\ Fault
    /\ UNCHANGED <<open, row, alive, online, calls, requests>>

-----------------------------------------------------------------------------
(* The agents: streams, heartbeats and tools. *)

GoOnline(a) ==
    /\ alive[a] /\ ~online[a]
    /\ online' = [online EXCEPT ![a] = TRUE]
    /\ UNCHANGED <<open, row, alive, gone, pass, calls, requests, faults>>

\* The last stream ends and every replica hears of it, or the event is lost
\* with the process that had the stream.
GoOffline(a) ==
    /\ online[a]
    /\ online' = [online EXCEPT ![a] = FALSE]
    /\ \/ gone' = [gone EXCEPT ![a] = Replicas] /\ UNCHANGED faults
       \/ UNCHANGED gone /\ Fault
    /\ UNCHANGED <<open, row, alive, pass, calls, requests>>

\* ExpireIncidentInvestigationLeasesByAgent.
OnAgentOffline(r, a) ==
    /\ r \in gone[a]
    /\ \/ UNCHANGED faults
          /\ lease' = [v \in Invs |->
                IF agent[v] # a THEN lease[v]
                ELSE IF status[v] = "assigned" THEN 0
                ELSE IF status[v] = "investigating" THEN Grace
                ELSE lease[v]]
       \/ Fault /\ UNCHANGED lease
    /\ gone' = [gone EXCEPT ![a] = @ \ {r}]
    /\ UNCHANGED <<open, status, agent, alive, online, pass, calls, requests>>

\* Mutant of Heartbeat: what is assigned is renewed, too.
HeartbeatOfAll(a) ==
    /\ alive[a]
    /\ lease' = [v \in Invs |->
          IF agent[v] = a /\ status[v] \in Working THEN Lease ELSE lease[v]]
    /\ UNCHANGED <<open, status, agent, links, pass, calls, requests, faults>>

\* RenewIncidentInvestigationLeases: what the agent investigates, not what it
\* was only assigned.
Heartbeat(a) ==
    /\ alive[a]
    /\ lease' = [v \in Invs |->
          IF agent[v] = a /\ status[v] = "investigating" THEN Lease ELSE lease[v]]
    /\ UNCHANGED <<open, status, agent, links, pass, calls, requests, faults>>

\* The agent stops, for good or until it is started again.
Stops(a) ==
    /\ alive' = [alive EXCEPT ![a] = ~@]
    /\ UNCHANGED <<open, row, online, gone, pass, calls, requests, faults>>

\* pause_investigation and cancel_investigation: any active row of the incident,
\* whoever works on it.
ToolRead(a, v) ==
    /\ alive[a] /\ tool[a].pc = "idle" /\ status[v] \in Active
    /\ Asked
    /\ \E s \in {"paused", "cancelled"} :
          tool' = [tool EXCEPT ![a] = Write("write", v, s, "none")]
    /\ UNCHANGED <<open, row, links, pass, creating, assign, faults>>

ToolWrite(a) ==
    /\ tool[a].pc = "write"
    /\ WriteStatus(tool[a].inv, tool[a].to)
    /\ tool' = [tool EXCEPT ![a] = NoWrite]
    /\ UNCHANGED <<open, agent, lease, links, pass, creating, assign, requests>>

-----------------------------------------------------------------------------
(* The operator's assignment. *)

\* The status the answer will be written over with, from the one that was read.
Due(to, s) ==
    IF to = "user" /\ s = "pending" THEN "assigned"
    ELSE IF to = "agent" /\ s = "assigned" THEN "pending" ELSE "none"

AssignRead(v) ==
    /\ assign.pc = "idle" /\ status[v] \in Active
    /\ Asked
    /\ \E to \in {"user", "agent"} : assign' = Write("set", v, to, Due(to, status[v]))
    /\ UNCHANGED <<open, row, links, pass, creating, tool, faults>>

\* SetIncidentInvestigationAssignee: a user takes the row from its agent.
AssignSet ==
    /\ assign.pc = "set"
    /\ \/ /\ agent' = IF assign.to = "user" THEN [agent EXCEPT ![assign.inv] = None] ELSE agent
          /\ assign' = IF assign.due = "none" THEN NoWrite ELSE [assign EXCEPT !.pc = "write"]
          /\ UNCHANGED faults
       \/ Fault /\ assign' = NoWrite /\ UNCHANGED agent
    /\ UNCHANGED <<open, status, lease, links, pass, creating, tool, requests>>

AssignWrite ==
    /\ assign.pc = "write"
    /\ WriteStatus(assign.inv, assign.due)
    /\ assign' = NoWrite
    /\ UNCHANGED <<open, agent, lease, links, pass, creating, tool, requests>>

-----------------------------------------------------------------------------
PassStep(r) ==
    PassBegin(r) \/ PassEnd(r) \/ Forward(r) \/ DispatchWrite(r) \/ \E v \in Invs : Claim(r, v)

AgentStep(a) ==
    \/ GoOnline(a) \/ GoOffline(a) \/ Heartbeat(a) \/ Stops(a) \/ ToolWrite(a)
    \/ \E v \in Invs : ToolRead(a, v)

CreateStep(c) == CreateCheck(c) \/ CreateInsert(c) \/ CreateFails(c)

AssignStep == AssignSet \/ AssignWrite \/ \E v \in Invs : AssignRead(v)

Next ==
    \/ \E c \in Creators : CreateStep(c)
    \/ \E r \in Replicas : PassStep(r) \/ Crash(r) \/ \E a \in Agents : OnAgentOffline(r, a)
    \/ \E a \in Agents : AgentStep(a)
    \/ AssignStep \/ ExpireLeases \/ Tick \/ IncidentChanges

Spec == Init /\ [][Next]_vars

\* Time, the sweeps of whoever is leader, and handlers that have begun.
Fairness ==
    /\ WF_vars(Tick) /\ WF_vars(ExpireLeases)
    /\ WF_vars(CreateCheck("sweep")) /\ WF_vars(CreateInsert("sweep"))
    /\ WF_vars(AssignSet) /\ WF_vars(AssignWrite)
    /\ \A a \in Agents : WF_vars(ToolWrite(a))

FairSpec == Spec /\ Fairness

-----------------------------------------------------------------------------
(* What is promised. *)

\* Among all the writes without a guard, a row that names an agent still has a
\* deadline, so that some sweep finds it: the late write of a dispatch whose row
\* was swept meanwhile makes it investigating, but nobody's.
NamedAgentHasLease == \A v \in Invs : agent[v] # None => lease[v] # NoLease

\* A dispatch the agent has not started does not stay with it, whether or not
\* its heartbeats come: only what is investigating is renewed.
DispatchMovesOn ==
    \A v \in Invs :
        (status[v] = "assigned" /\ agent[v] # None)
            ~> (status[v] # "assigned" \/ agent[v] = None)

\* The work of an agent that stopped comes back, also when no replica heard of
\* the end of its stream.
SilentWorkReturns ==
    \A v \in Invs, a \in Agents :
        (~alive[a] /\ agent[v] = a /\ status[v] \in Working)
            ~> (alive[a] \/ agent[v] # a \/ status[v] \notin Working)

\* An active incident that has lost its investigation is given another.
OpenIncidentIsWorked == (open /\ ~HasActive) ~> (~open \/ HasActive)
=============================================================================
