------------------------- MODULE AlertInvestigation -------------------------
(***************************************************************************)
(* Alert investigations from creation to the end: the rows of              *)
(* store/alert_investigation*.go and everyone who writes them at the same  *)
(* time.  The scheduler pass of every replica sweeps lapsed leases, claims *)
(* pending rows and forwards them to agents; agents acknowledge, work,     *)
(* pause, cancel, promote, hand off and send heartbeats; alerts resolve    *)
(* and complete their investigation; operators reopen and reassign.        *)
(*                                                                         *)
(* Every write is one SQL statement with the guard its WHERE clause has,   *)
(* and what a handler read before the write is kept until the write, so    *)
(* any step of anyone else may come between.  LeaderLease shows that       *)
(* passes of two replicas may overlap; here each replica may start one at  *)
(* any time.  A lease is the number of ticks it has left.                  *)
(***************************************************************************)
EXTENDS Naturals, FiniteSets

CONSTANTS Invs,          \* investigations, each of one alert
          Agents,        \* agents with an enabled token
          Replicas,      \* backend processes
          Eligible,      \* Eligible[i]: agents whose capability and labels fit
          Ops,           \* the requests of this instance
          Lease,         \* INVESTIGATION_TIMEOUT, in ticks
          Grace,         \* the disconnect grace, in ticks
          ListLimit,     \* pending rows one listing returns
          MaxOthers,     \* bound: pending rows beside those of Invs
          MaxConcurrent, \* investigations an agent may hold
          MaxAttempts,   \* maxDispatchAttempts
          None,          \* no agent, no investigation
          NoLease        \* lease_until IS NULL

AllOps == {"message", "pause", "cancel", "promote", "handoff", "finalize",
           "reopen", "assign", "incident", "supersede"}

ASSUME InvsAssumption == IsFiniteSet(Invs)
ASSUME OpsAssumption == Ops \subseteq AllOps
ASSUME EligibleAssumption == Eligible \in [Invs -> SUBSET Agents]
ASSUME LeaseAssumption == Lease \in Nat \ {0} /\ Grace \in Nat
ASSUME LimitsAssumption ==
    /\ MaxConcurrent \in Nat /\ MaxAttempts \in Nat
    /\ ListLimit \in Nat \ {0} /\ MaxOthers \in Nat
ASSUME NoneAssumption == None \notin Agents /\ None \notin Invs
ASSUME NoLeaseAssumption == NoLease \notin Nat

VARIABLES
    \* the row
    status, agent, lease,
    human,     \* assignee_type = 'user'
    incident,  \* promoted_incident_id IS NOT NULL
    firing,    \* the linked alert, as its fingerprint finds it, is not resolved
    current,   \* the row is its alert's current investigation
    others,    \* how many more rows of the table are pending
    \* the agents' connections
    online,    \* presence of the agent's event stream
    gone,      \* gone[a]: replicas that still have to run OnAgentOffline(a)
    \* the scheduler of every replica
    pass,      \* the pass in progress
    attempts,  \* dispatchAttempts
    backoff,   \* investigations refused until their backoff is over
    \* requests in progress
    req,       \* req[a]: the agent's tool call or message
    reopen,    \* the operator's reopen
    due,       \* CompleteIfAllAlertsResolved is about to read
    checked    \* ... has found all alerts resolved and is about to write

row == <<status, agent, lease>>
facts == <<human, incident, firing, current>>
around == <<others, online, gone>>
memory == <<attempts, backoff>>
calls == <<due, checked>>
vars == <<row, facts, around, pass, memory, req, reopen, calls>>

L == INSTANCE InvestigationLifecycle

Working == L!Working
Terminal == L!Terminal
Statuses == L!Statuses

\* reopenableAlertInvestigationStatuses: the terminal ones but promoted.
Reopenable == {"complete", "failed", "cancelled", "timed_out", "paused"}

LeaseTicks == 0 .. (IF Lease > Grace THEN Lease ELSE Grace)

NoLoad == [a \in Agents |-> 0]
Scan(pc, todo, up, load) ==
    [pc |-> pc, todo |-> todo, up |-> up, load |-> load, cur |-> None, tgt |-> None]
Dispatch(pc, p, i, a) ==
    [pc |-> pc, todo |-> p.todo, up |-> p.up, load |-> p.load, cur |-> i, tgt |-> a]
IdlePass == Scan("idle", {}, {}, NoLoad)
Request(pc, op, i, seen, fresh) ==
    [pc |-> pc, op |-> op, inv |-> i, seen |-> seen, fresh |-> fresh]
NoReq == Request("idle", "none", None, "none", FALSE)
NoReopen == [pc |-> "idle", inv |-> None]

Passes == [pc : {"idle", "agents", "pending", "bind", "forward", "giveup"},
           todo : SUBSET Invs, up : SUBSET Agents, load : [Agents -> Nat],
           cur : Invs \cup {None}, tgt : Agents \cup {None}]
Reqs == [pc : {"idle", "ack", "act", "write"}, op : AllOps \cup {"none"},
         inv : Invs \cup {None}, seen : Statuses, fresh : BOOLEAN]
Reopens == [pc : {"idle", "read", "resume", "clear", "requeue"},
            inv : Invs \cup {None}]

RowType ==
    /\ status \in [Invs -> Statuses]
    /\ agent \in [Invs -> Agents \cup {None}]
    /\ lease \in [Invs -> LeaseTicks \cup {NoLease}]
    /\ human \in [Invs -> BOOLEAN]
    /\ incident \in [Invs -> BOOLEAN]
    /\ firing \in [Invs -> BOOLEAN]
    /\ current \in [Invs -> BOOLEAN]

AroundType ==
    /\ others \in Nat
    /\ online \in [Agents -> BOOLEAN]
    /\ gone \in [Agents -> SUBSET Replicas]

PassType ==
    /\ pass \in [Replicas -> Passes]
    /\ attempts \in [Replicas -> [Invs -> Nat]]
    /\ backoff \in [Replicas -> SUBSET Invs]
    /\ \A r \in Replicas :
          pass[r].pc \in {"forward", "giveup"} =>
              pass[r].cur \in Invs /\ pass[r].tgt \in Agents

RequestType ==
    /\ req \in [Agents -> Reqs]
    /\ reopen \in Reopens
    /\ due \in SUBSET Invs
    /\ checked \in SUBSET Invs
    /\ \A a \in Agents : req[a].pc # "idle" => req[a].inv \in Invs
    /\ reopen.pc # "idle" => reopen.inv \in Invs

\* Types; a pass that dispatches names its investigation and its agent, and a
\* request in progress its investigation.
TypeOK == RowType /\ AroundType /\ PassType /\ RequestType

Init ==
    /\ status = [i \in Invs |-> "none"]
    /\ agent = [i \in Invs |-> None]
    /\ lease = [i \in Invs |-> NoLease]
    /\ human = [i \in Invs |-> FALSE]
    /\ incident = [i \in Invs |-> FALSE]
    /\ firing = [i \in Invs |-> FALSE]
    /\ current = [i \in Invs |-> TRUE]
    /\ others = 0
    /\ online = [a \in Agents |-> FALSE]
    /\ gone = [a \in Agents |-> {}]
    /\ pass = [r \in Replicas |-> IdlePass]
    /\ attempts = [r \in Replicas |-> [i \in Invs |-> 0]]
    /\ backoff = [r \in Replicas |-> {}]
    /\ req = [a \in Agents |-> NoReq]
    /\ reopen = NoReopen
    /\ due = {}
    /\ checked = {}

(***************************************************************************)
(* Rows appear.  The worker's queue message may be older than the alert's  *)
(* recovery; an operator's new incident queues its alert with the incident *)
(* already set.                                                            *)
(***************************************************************************)
CreateAlertInvestigation(i) ==
    /\ status[i] = "none"
    /\ status' = [status EXCEPT ![i] = "pending"]
    /\ \E f \in BOOLEAN : firing' = [firing EXCEPT ![i] = f]
    /\ \/ UNCHANGED incident
       \/ "incident" \in Ops /\ incident' = [incident EXCEPT ![i] = TRUE]
    /\ UNCHANGED <<agent, lease, human, current, around, pass, memory, req, reopen,
                   calls>>

\* A message queued twice inserts a second row for the alert, or another row is
\* given the alert: retireCurrentAlertInvestigationLinks takes it from this one,
\* and nothing gives it back.
Supersede(i) ==
    /\ "supersede" \in Ops
    /\ status[i] # "none"
    /\ current[i]
    /\ current' = [current EXCEPT ![i] = FALSE]
    /\ UNCHANGED <<row, human, incident, firing, around, pass, memory, req, reopen,
                   calls>>

\* Rows of other alerts become pending and are claimed or completed; they matter
\* here for their places in a listing.
OtherRows ==
    /\ others' \in 0 .. MaxOthers
    /\ UNCHANGED <<row, facts, online, gone, pass, memory, req, reopen, calls>>

(***************************************************************************)
(* The scheduler pass of replica r: sweep, snapshot, bind, forward.        *)
(***************************************************************************)
\* Mutant of Lapsed: a sweep of assigned rows only.
LapsedAssigned == {i \in Invs : status[i] = "assigned" /\ lease[i] = 0}

Lapsed == {i \in Invs : status[i] \in Working /\ lease[i] = 0}

\* Mutant of ExpireLeases: the agent stays in the row.
ExpireKeepsAgent(r) ==
    /\ pass[r].pc = "idle"
    /\ status' = [i \in Invs |-> IF i \in Lapsed THEN "pending" ELSE status[i]]
    /\ lease' = [i \in Invs |-> IF i \in Lapsed THEN NoLease ELSE lease[i]]
    /\ pass' = [pass EXCEPT ![r] = Scan("agents", {}, {}, NoLoad)]
    /\ UNCHANGED <<agent, facts, around, memory, req, reopen, calls>>

\* The one UPDATE of ExpireAlertInvestigationLeases.
TakeLapsedBack ==
    /\ status' = [i \in Invs |-> IF i \in Lapsed THEN "pending" ELSE status[i]]
    /\ agent' = [i \in Invs |-> IF i \in Lapsed THEN None ELSE agent[i]]
    /\ lease' = [i \in Invs |-> IF i \in Lapsed THEN NoLease ELSE lease[i]]

\* expireInvestigationLeases: the UPDATE, then CleanupCompleted per row.
ExpireLeases(r) ==
    /\ pass[r].pc = "idle"
    /\ TakeLapsedBack
    /\ attempts' = [attempts EXCEPT ![r] =
                       [i \in Invs |-> IF i \in Lapsed THEN 0 ELSE @[i]]]
    /\ backoff' = [backoff EXCEPT ![r] = @ \ Lapsed]
    /\ pass' = [pass EXCEPT ![r] = Scan("agents", {}, {}, NoLoad)]
    /\ UNCHANGED <<facts, around, req, reopen, calls>>

\* The sweep's error is logged and the pass goes on; the UPDATE may have been
\* committed all the same.
ExpireLeasesError(r) ==
    /\ pass[r].pc = "idle"
    /\ TakeLapsedBack \/ UNCHANGED row
    /\ pass' = [pass EXCEPT ![r] = Scan("agents", {}, {}, NoLoad)]
    /\ UNCHANGED <<facts, around, memory, req, reopen, calls>>

\* CountActiveByAgents.
Held(a) ==
    Cardinality({i \in Invs : agent[i] = a /\ status[i] \in Working \cup {"paused"}})

\* Who is online, and how loaded; a failed count leaves an empty cache.  Agents
\* whose circuit is open are dropped after the count: any may be.
ListAgents(r) ==
    /\ pass[r].pc = "agents"
    /\ LET on == {a \in Agents : online[a]}
       IN  /\ on # {}
           /\ \E broken \in SUBSET on,
                 load \in {[a \in Agents |-> IF a \in on THEN Held(a) ELSE 0],
                           NoLoad} :
                 pass' = [pass EXCEPT ![r] =
                             Scan("pending", {}, on \ broken, load)]
    /\ UNCHANGED <<row, facts, around, memory, req, reopen, calls>>

Pending == {i \in Invs : status[i] = "pending"}

\* ListPendingAlertInvestigations: all pending rows or, when there are more than
\* ListLimit, the oldest: which of ours are among them is left open.
Listings ==
    {S \in SUBSET Pending :
        \/ S = Pending /\ Cardinality(S) + others <= ListLimit
        \/ Cardinality(S) <= ListLimit /\ Cardinality(S) + others >= ListLimit}

\* applyBackoff and filterScope.
Scope(r) == {i \in Pending : i \notin backoff[r] /\ ~human[i]}

\* filterInactiveAlertInvestigations keeps what has a firing alert, and also what
\* it cannot look up or finds a newer alert of the same fingerprint for.
ListPending(r) ==
    /\ pass[r].pc = "pending"
    /\ \E page \in Listings :
       \E todo \in SUBSET (page \cap Scope(r)) :
          /\ todo # {}
          /\ {i \in page \cap Scope(r) : firing[i]} \subseteq todo
          /\ pass' = [pass EXCEPT ![r] =
                         Scan("bind", todo, pass[r].up, pass[r].load)]
    /\ UNCHANGED <<row, facts, around, memory, req, reopen, calls>>

\* Nobody online, nothing to do, a failed query or the pass's timeout.
EndPass(r) ==
    /\ pass[r].pc \in {"agents", "pending", "bind"}
    /\ pass' = [pass EXCEPT ![r] = IdlePass]
    /\ UNCHANGED <<row, facts, around, memory, req, reopen, calls>>

\* The pass after one investigation is done with.
Rest(p, i, load) ==
    IF p.todo = {i} THEN IdlePass ELSE Scan("bind", p.todo \ {i}, p.up, load)

\* pickCandidate by its filters; its scoring chooses any one of these.
Candidates(r, i) ==
    {a \in pass[r].up \cap Eligible[i] : pass[r].load[a] < MaxConcurrent}

\* No candidate, or the claim finds the row no longer pending.
SkipPending(r, i) ==
    /\ pass[r].pc = "bind"
    /\ i \in pass[r].todo
    /\ Candidates(r, i) = {} \/ status[i] # "pending"
    /\ pass' = [pass EXCEPT ![r] = Rest(pass[r], i, pass[r].load)]
    /\ UNCHANGED <<row, facts, around, memory, req, reopen, calls>>

\* Mutant of ClaimRow: a claim without a lease.
ClaimRowNoLease(i, a) ==
    /\ status[i] = "pending"
    /\ status' = [status EXCEPT ![i] = "assigned"]
    /\ agent' = [agent EXCEPT ![i] = a]
    /\ UNCHANGED lease

\* The row ClaimPendingAlertInvestigation writes.
ClaimRow(i, a) ==
    /\ status[i] = "pending"
    /\ status' = [status EXCEPT ![i] = "assigned"]
    /\ agent' = [agent EXCEPT ![i] = a]
    /\ lease' = [lease EXCEPT ![i] = Lease]

\* The claim, and the attempt dispatch counts before it forwards.
Claim(r, i, a) ==
    /\ pass[r].pc = "bind"
    /\ i \in pass[r].todo
    /\ a \in Candidates(r, i)
    /\ ClaimRow(i, a)
    /\ attempts' = [attempts EXCEPT ![r][i] = @ + 1]
    /\ LET pc == IF attempts[r][i] + 1 > MaxAttempts THEN "giveup" ELSE "forward"
       IN  pass' = [pass EXCEPT ![r] = Dispatch(pc, pass[r], i, a)]
    /\ UNCHANGED <<facts, around, backoff, req, reopen, calls>>

\* The claim fails, or it is written and the reload of the row fails: the pass
\* moves on and nobody is told about the row.
ClaimError(r, i, a) ==
    /\ pass[r].pc = "bind"
    /\ i \in pass[r].todo
    /\ a \in Candidates(r, i)
    /\ ClaimRow(i, a) \/ UNCHANGED row
    /\ pass' = [pass EXCEPT ![r] = Rest(pass[r], i, pass[r].load)]
    /\ UNCHANGED <<facts, around, memory, req, reopen, calls>>

\* Mutant of GiveUp: the attempts are not forgotten.
GiveUpKeepsAttempts(r) ==
    LET i == pass[r].cur
    IN  /\ pass[r].pc = "giveup"
        /\ status' \in {[status EXCEPT ![i] = "timed_out"], status}
        /\ pass' = [pass EXCEPT ![r] = Rest(pass[r], i, pass[r].load)]
        /\ UNCHANGED <<agent, lease, facts, around, memory, req, reopen, calls>>

\* dispatch past the limit: timed_out whatever the row is now (errors ignored).
GiveUp(r) ==
    LET i == pass[r].cur
    IN  /\ pass[r].pc = "giveup"
        /\ status' \in {[status EXCEPT ![i] = "timed_out"], status}
        /\ attempts' = [attempts EXCEPT ![r][i] = 0]
        /\ pass' = [pass EXCEPT ![r] = Rest(pass[r], i, pass[r].load)]
        /\ UNCHANGED <<agent, lease, facts, around, backoff, req, reopen, calls>>

\* The agent has the dispatch; the attempts are forgotten and the cache counts.
ForwardOk(r) ==
    LET i == pass[r].cur
        a == pass[r].tgt
        load == [pass[r].load EXCEPT ![a] = pass[r].load[a] + 1]
    IN  /\ pass[r].pc = "forward"
        /\ attempts' = [attempts EXCEPT ![r][i] = 0]
        /\ pass' = [pass EXCEPT ![r] = Rest(pass[r], i, load)]
        /\ UNCHANGED <<row, facts, around, backoff, req, reopen, calls>>

\* Mutant of ForwardError: back to pending whatever the row is now.
ForwardErrorUnguarded(r) ==
    LET i == pass[r].cur
    IN  /\ pass[r].pc = "forward"
        /\ status' = [status EXCEPT ![i] = "pending"]
        /\ backoff' = [backoff EXCEPT ![r] = @ \cup {i}]
        /\ pass' = [pass EXCEPT ![r] = Rest(pass[r], i, pass[r].load)]
        /\ UNCHANGED <<agent, lease, facts, around, attempts, req, reopen, calls>>

\* The agent could not be reached: back to pending if still assigned (errors
\* ignored), with a backoff; agent and lease stay in the row.
ForwardError(r) ==
    LET i == pass[r].cur
    IN  /\ pass[r].pc = "forward"
        /\ \/ UNCHANGED status
           \/ status[i] = "assigned" /\ status' = [status EXCEPT ![i] = "pending"]
        /\ backoff' = [backoff EXCEPT ![r] = @ \cup {i}]
        /\ pass' = [pass EXCEPT ![r] = Rest(pass[r], i, pass[r].load)]
        /\ UNCHANGED <<agent, lease, facts, around, attempts, req, reopen, calls>>

BackoffOver(r, i) ==
    /\ i \in backoff[r]
    /\ backoff' = [backoff EXCEPT ![r] = @ \ {i}]
    /\ UNCHANGED <<row, facts, around, pass, attempts, req, reopen, calls>>

\* purgeDispatchAttempts: an entry no dispatch has touched for two timeouts.
PurgeAttempts(r, i) ==
    /\ attempts[r][i] > 0
    /\ pass[r].cur # i
    /\ attempts' = [attempts EXCEPT ![r][i] = 0]
    /\ UNCHANGED <<row, facts, around, pass, backoff, req, reopen, calls>>

\* The process dies and starts again: its pass and its maps are lost, and the
\* disconnects it had still to handle.
Crash(r) ==
    /\ pass' = [pass EXCEPT ![r] = IdlePass]
    /\ attempts' = [attempts EXCEPT ![r] = [i \in Invs |-> 0]]
    /\ backoff' = [backoff EXCEPT ![r] = {}]
    /\ gone' = [a \in Agents |-> gone[a] \ {r}]
    /\ UNCHANGED <<row, facts, others, online, req, reopen, calls>>

(***************************************************************************)
(* The agents' connections and heartbeats, and time.                       *)
(***************************************************************************)
GoOnline(a) ==
    /\ ~online[a]
    /\ online' = [online EXCEPT ![a] = TRUE]
    /\ UNCHANGED <<row, facts, others, gone, pass, memory, req, reopen, calls>>

\* The offline event reaches every replica, each in its own time.
GoOffline(a) ==
    /\ online[a]
    /\ online' = [online EXCEPT ![a] = FALSE]
    /\ gone' = [gone EXCEPT ![a] = Replicas]
    /\ UNCHANGED <<row, facts, others, pass, memory, req, reopen, calls>>

\* OnAgentOffline: what is assigned lapses now, what is investigating gets the
\* grace, what is paused is left alone.  After an error of the first or of the
\* second UPDATE, which is logged, the rest is not done.
OnAgentOffline(r, a) ==
    /\ r \in gone[a]
    /\ \/ UNCHANGED lease
       \/ \E done \in {{"assigned"}, Working} :
             lease' = [i \in Invs |->
                IF agent[i] = a /\ status[i] \in done
                THEN IF status[i] = "assigned" THEN 0 ELSE Grace
                ELSE lease[i]]
    /\ gone' = [gone EXCEPT ![a] = @ \ {r}]
    /\ UNCHANGED <<status, agent, facts, others, online, pass, memory, req, reopen,
                   calls>>

\* Mutant of Heartbeat: the lease is lengthened, not set.
HeartbeatExtends(a) ==
    /\ lease' = [i \in Invs |->
          IF agent[i] = a /\ status[i] = "investigating" /\ lease[i] # NoLease
          THEN lease[i] + Lease ELSE lease[i]]
    /\ UNCHANGED <<status, agent, facts, around, pass, memory, req, reopen, calls>>

\* Mutant of Heartbeat: assigned rows are renewed too.
HeartbeatRenewsAll(a) ==
    /\ lease' = [i \in Invs |->
          IF agent[i] = a /\ status[i] \in Working THEN Lease ELSE lease[i]]
    /\ UNCHANGED <<status, agent, facts, around, pass, memory, req, reopen, calls>>

\* RenewAlertInvestigationLeases: investigating rows only.
Heartbeat(a) ==
    /\ lease' = [i \in Invs |->
          IF agent[i] = a /\ status[i] = "investigating" THEN Lease ELSE lease[i]]
    /\ UNCHANGED <<status, agent, facts, around, pass, memory, req, reopen, calls>>

Tick ==
    /\ lease' = [i \in Invs |->
          IF lease[i] \in LeaseTicks \ {0} THEN lease[i] - 1 ELSE lease[i]]
    /\ UNCHANGED <<status, agent, facts, around, pass, memory, req, reopen, calls>>

(***************************************************************************)
(* An agent's tool call or message: the row is read and the caller is      *)
(* compared with agent_id, an assigned row is acknowledged, the tool runs. *)
(* The row may change under each of these steps.                           *)
(***************************************************************************)
RequestBegin(a, i, op) ==
    /\ op \in Ops \cap {"message", "pause", "cancel", "promote", "handoff"}
    /\ req[a].pc = "idle"
    /\ agent[i] = a
    /\ LET pc == IF status[i] = "assigned" THEN "ack" ELSE "act"
       IN  req' = [req EXCEPT ![a] = Request(pc, op, i, status[i], ~incident[i])]
    /\ UNCHANGED <<row, facts, around, pass, memory, reopen, calls>>

\* Mutant of Acknowledge: the status is not compared at the write.
AcknowledgeUnguarded(a) ==
    LET i == req[a].inv
    IN  /\ req[a].pc = "ack"
        /\ status' = [status EXCEPT ![i] = "investigating"]
        /\ req' = [req EXCEPT ![a] =
                     Request("act", req[a].op, i, "investigating", req[a].fresh)]
        /\ UNCHANGED <<agent, lease, facts, around, pass, memory, reopen, calls>>

\* assigned -> investigating, guarded by the status alone.
Acknowledge(a) ==
    LET i == req[a].inv
    IN  /\ req[a].pc = "ack"
        /\ status[i] = "assigned"
        /\ status' = [status EXCEPT ![i] = "investigating"]
        /\ req' = [req EXCEPT ![a] =
                     Request("act", req[a].op, i, "investigating", req[a].fresh)]
        /\ UNCHANGED <<agent, lease, facts, around, pass, memory, reopen, calls>>

\* The call ends with nothing (more) written: a message is posted, the tool
\* refuses, a guard or the database says no, or the process serving it dies.
RequestEnd(a) ==
    /\ req[a].pc # "idle"
    /\ req' = [req EXCEPT ![a] = NoReq]
    /\ UNCHANGED <<row, facts, around, pass, memory, reopen, calls>>

\* pause_investigation.
Pause(a) ==
    LET i == req[a].inv
    IN  /\ req[a].pc = "act" /\ req[a].op = "pause"
        /\ req[a].seen = "investigating"
        /\ status[i] = "investigating"
        /\ status' = [status EXCEPT ![i] = "paused"]
        /\ req' = [req EXCEPT ![a] = NoReq]
        /\ UNCHANGED <<agent, lease, facts, around, pass, memory, reopen, calls>>

\* cancel_investigation resolves the alerts first ...
CancelAlerts(a) ==
    LET i == req[a].inv
    IN  /\ req[a].pc = "act" /\ req[a].op = "cancel"
        /\ req[a].seen \in Working
        /\ \E f \in {FALSE, firing[i]} : firing' = [firing EXCEPT ![i] = f]
        /\ req' = [req EXCEPT ![a] =
                     Request("write", req[a].op, i, req[a].seen, req[a].fresh)]
        /\ UNCHANGED <<row, human, incident, current, around, pass, memory, reopen,
                       calls>>

\* Mutant of CancelWrite: the status is not compared at the write.
CancelWriteUnguarded(a) ==
    LET i == req[a].inv
    IN  /\ req[a].pc = "write" /\ req[a].op = "cancel"
        /\ status' = [status EXCEPT ![i] = "cancelled"]
        /\ req' = [req EXCEPT ![a] = NoReq]
        /\ UNCHANGED <<agent, lease, facts, around, pass, memory, reopen, calls>>

\* ... and then writes the status.
CancelWrite(a) ==
    LET i == req[a].inv
    IN  /\ req[a].pc = "write" /\ req[a].op = "cancel"
        /\ status[i] \in Working
        /\ status' = [status EXCEPT ![i] = "cancelled"]
        /\ req' = [req EXCEPT ![a] = NoReq]
        /\ UNCHANGED <<agent, lease, facts, around, pass, memory, reopen, calls>>

\* performPromoteToIncident: the row as it was read has no incident and an
\* alert is firing; the incident is created (not modelled here) ...
PromoteCheck(a) ==
    LET i == req[a].inv
    IN  /\ req[a].pc = "act" /\ req[a].op = "promote"
        /\ req[a].fresh
        /\ firing[i]
        /\ req' = [req EXCEPT ![a] =
                     Request("write", req[a].op, i, req[a].seen, req[a].fresh)]
        /\ UNCHANGED <<row, facts, around, pass, memory, reopen, calls>>

\* ... and MarkAlertInvestigationPromoted writes whatever the status is now.
PromoteWrite(a) ==
    LET i == req[a].inv
    IN  /\ req[a].pc = "write" /\ req[a].op = "promote"
        /\ status' = [status EXCEPT ![i] = "promoted"]
        /\ incident' = [incident EXCEPT ![i] = TRUE]
        /\ req' = [req EXCEPT ![a] = NoReq]
        /\ UNCHANGED <<agent, lease, human, firing, current, around, pass, memory,
                       reopen, calls>>

\* assign_investigation reads the row again ...
HandoffCheck(a) ==
    LET i == req[a].inv
    IN  /\ req[a].pc = "act" /\ req[a].op = "handoff"
        /\ agent[i] = a
        /\ req' = [req EXCEPT ![a] =
                     Request("write", req[a].op, i, req[a].seen, req[a].fresh)]
        /\ UNCHANGED <<row, facts, around, pass, memory, reopen, calls>>

\* ... and writes the agent without a guard; status and lease stay.
HandoffWrite(a, b) ==
    LET i == req[a].inv
    IN  /\ req[a].pc = "write" /\ req[a].op = "handoff"
        /\ agent' = [agent EXCEPT ![i] = b]
        /\ req' = [req EXCEPT ![a] = NoReq]
        /\ UNCHANGED <<status, lease, facts, around, pass, memory, reopen, calls>>

\* finalizeIncidentRelatedInvestigations, when an agent resolves the incident:
\* open rows of the incident that are its own or nobody's.
FinalizeBegin(a, i) ==
    /\ "finalize" \in Ops
    /\ req[a].pc = "idle"
    /\ incident[i]
    /\ status[i] \notin Terminal
    /\ agent[i] \in {None, a}
    /\ req' = [req EXCEPT ![a] = Request("write", "finalize", i, status[i], FALSE)]
    /\ UNCHANGED <<row, facts, around, pass, memory, reopen, calls>>

FinalizeWrite(a) ==
    LET i == req[a].inv
    IN  /\ req[a].pc = "write" /\ req[a].op = "finalize"
        /\ status[i] \in Working
        /\ status' = [status EXCEPT ![i] = "complete"]
        /\ req' = [req EXCEPT ![a] = NoReq]
        /\ UNCHANGED <<agent, lease, facts, around, pass, memory, reopen, calls>>

(***************************************************************************)
(* Alerts resolve (operator, agent, webhook or triage), and every such     *)
(* path then calls CompleteIfAllAlertsResolved.                            *)
(***************************************************************************)
ResolveAlert(i) ==
    /\ status[i] # "none"
    /\ firing[i]
    /\ firing' = [firing EXCEPT ![i] = FALSE]
    /\ due' = due \cup {i}
    /\ UNCHANGED <<row, human, incident, current, around, pass, memory, req, reopen,
                   checked>>

\* Mutant of Backstop: behind the filter the scheduling pass has.
BackstopFiltered ==
    /\ \E page \in Listings : due' = due \cup {i \in page : firing[i]}
    /\ UNCHANGED <<row, facts, around, pass, memory, req, reopen, checked>>

\* completeResolvedInvestigations: the five-minute backstop for missed calls
\* makes the call for every alert of the pending rows it lists.
Backstop ==
    /\ \E page \in Listings : due' = due \cup page
    /\ UNCHANGED <<row, facts, around, pass, memory, req, reopen, checked>>

\* CompleteIfAllAlertsResolved reads the alert's current investigation: a row
\* that is not is never found.  It is open and its alerts are resolved: go on to
\* the write.
CompleteCheck(i) ==
    /\ i \in due
    /\ due' = due \ {i}
    /\ checked' = IF current[i] /\ status[i] \notin Terminal /\ ~firing[i]
                  THEN checked \cup {i} ELSE checked
    /\ UNCHANGED <<row, facts, around, pass, memory, req, reopen>>

\* CompleteAlertInvestigation; already terminal is taken for success.
CompleteWrite(i) ==
    /\ i \in checked
    /\ checked' = checked \ {i}
    /\ status' = IF status[i] \in L!Open
                 THEN [status EXCEPT ![i] = "complete"] ELSE status
    /\ UNCHANGED <<agent, lease, facts, around, pass, memory, req, reopen, due>>

\* The call is lost: an error (only logged) or the death of its process.
CompleteLost(i) ==
    /\ i \in due \cup checked
    /\ due' = due \ {i}
    /\ checked' = checked \ {i}
    /\ UNCHANGED <<row, facts, around, pass, memory, req, reopen>>

(***************************************************************************)
(* The operator reopens an alert: reopenLinkedInvestigations reads the     *)
(* investigation, then resumes it under its agent, or clears the agent and *)
(* queues it again.  An agent's reopen_alert stops after the first step.   *)
(***************************************************************************)
ReopenAlert(i) ==
    /\ "reopen" \in Ops
    /\ reopen.pc = "idle"
    /\ status[i] # "none"
    /\ ~firing[i]
    /\ firing' = [firing EXCEPT ![i] = TRUE]
    /\ reopen' = [pc |-> "read", inv |-> i]
    /\ UNCHANGED <<row, human, incident, current, around, pass, memory, req, calls>>

ReopenRead ==
    LET i == reopen.inv
    IN  /\ reopen.pc = "read"
        /\ status[i] \in Reopenable
        /\ LET pc == IF agent[i] # None /\ online[agent[i]] THEN "resume" ELSE "clear"
           IN  reopen' = [pc |-> pc, inv |-> i]
        /\ UNCHANGED <<row, facts, around, pass, memory, req, calls>>

\* The guard is every terminal status, promoted included, and paused.
ReopenResume ==
    LET i == reopen.inv
    IN  /\ reopen.pc = "resume"
        /\ status[i] \in Terminal \cup {"paused"}
        /\ status' = [status EXCEPT ![i] = "investigating"]
        /\ reopen' = NoReopen
        /\ UNCHANGED <<agent, lease, facts, around, pass, memory, req, calls>>

ReopenClear ==
    LET i == reopen.inv
    IN  /\ reopen.pc = "clear"
        /\ agent' = [agent EXCEPT ![i] = None]
        /\ reopen' = [pc |-> "requeue", inv |-> i]
        /\ UNCHANGED <<status, lease, facts, around, pass, memory, req, calls>>

ReopenRequeue ==
    LET i == reopen.inv
    IN  /\ reopen.pc = "requeue"
        /\ status[i] \in Terminal \cup {"paused"}
        /\ status' = [status EXCEPT ![i] = "pending"]
        /\ reopen' = NoReopen
        /\ UNCHANGED <<agent, lease, facts, around, pass, memory, req, calls>>

\* Not reopenable, a guard that does not match, an error, or a crash.
ReopenEnd ==
    /\ reopen.pc # "idle"
    /\ reopen' = NoReopen
    /\ UNCHANGED <<row, facts, around, pass, memory, req, calls>>

\* handleAlertInvestigationAssign to a user or to the agents.  Its check that
\* the row is not terminal reads an earlier state (every row was open once) and
\* SetAlertInvestigationAssignee repeats no guard; the status update after it
\* looks the row's id up among the public ids and matches none.
Assign(i, toUser) ==
    /\ "assign" \in Ops
    /\ status[i] # "none"
    /\ human' = [human EXCEPT ![i] = toUser]
    /\ agent' = IF toUser THEN [agent EXCEPT ![i] = None] ELSE agent
    /\ UNCHANGED <<status, lease, incident, firing, current, around, pass, memory,
                   req, reopen, calls>>

-----------------------------------------------------------------------------
PassStep(r) ==
    \/ ExpireLeases(r) \/ ExpireLeasesError(r)
    \/ ListAgents(r) \/ ListPending(r) \/ EndPass(r)
    \/ \E i \in Invs :
          \/ SkipPending(r, i)
          \/ \E a \in Agents : Claim(r, i, a) \/ ClaimError(r, i, a)
    \/ GiveUp(r) \/ ForwardOk(r) \/ ForwardError(r)

ReplicaStep(r) ==
    \/ PassStep(r)
    \/ \E i \in Invs : BackoffOver(r, i) \/ PurgeAttempts(r, i)
    \/ \E a \in Agents : OnAgentOffline(r, a)
    \/ Crash(r)

AgentStep(a) ==
    \/ GoOnline(a) \/ GoOffline(a) \/ Heartbeat(a)
    \/ \E i \in Invs, op \in Ops : RequestBegin(a, i, op)
    \/ Acknowledge(a) \/ RequestEnd(a) \/ Pause(a)
    \/ CancelAlerts(a) \/ CancelWrite(a)
    \/ PromoteCheck(a) \/ PromoteWrite(a)
    \/ HandoffCheck(a) \/ \E b \in Agents : HandoffWrite(a, b)
    \/ \E i \in Invs : FinalizeBegin(a, i)
    \/ FinalizeWrite(a)

AlertStep(i) ==
    \/ CreateAlertInvestigation(i) \/ Supersede(i)
    \/ ResolveAlert(i) \/ CompleteCheck(i) \/ CompleteWrite(i) \/ CompleteLost(i)

OperatorStep ==
    \/ ReopenRead \/ ReopenResume \/ ReopenClear \/ ReopenRequeue \/ ReopenEnd
    \/ \E i \in Invs :
          \/ ReopenAlert(i)
          \/ \E toUser \in BOOLEAN : Assign(i, toUser)

Next ==
    \/ \E r \in Replicas : ReplicaStep(r)
    \/ \E a \in Agents : AgentStep(a)
    \/ \E i \in Invs : AlertStep(i)
    \/ OtherRows
    \/ Backstop
    \/ OperatorStep
    \/ Tick

Spec == Init /\ [][Next]_vars

(***************************************************************************)
(* Fairness: time passes; a pass that was started goes on; some replica    *)
(* starts passes again and again (LeaderLease!PassesKeepComing) and not    *)
(* every sweep, completion read and completion write meets an error; the   *)
(* five-minute backstop runs.  Agents and operators owe nothing.           *)
(***************************************************************************)
Fairness ==
    /\ WF_vars(Tick)
    /\ \A r \in Replicas : WF_vars(pass[r].pc # "idle" /\ PassStep(r))
    /\ SF_vars(\E r \in Replicas : ExpireLeases(r))
    /\ WF_vars(Backstop)
    /\ \A i \in Invs : SF_vars(CompleteCheck(i)) /\ SF_vars(CompleteWrite(i))

FairSpec == Spec /\ Fairness

-----------------------------------------------------------------------------
(***************************************************************************)
(* Properties.                                                             *)
(***************************************************************************)

\* All the writers together keep to the life cycle: each guard is repeated at
\* the write, so no stale read takes a row along an edge it does not have.
Lifecycle == L!Lifecycle

\* A row that was assigned always has a deadline, so a dispatch nobody hears of
\* (a lost claim, a crash between claim and forward) is taken back by the sweep.
AssignedHasLease ==
    \A i \in Invs : status[i] = "assigned" => lease[i] # NoLease

\* Without hand-offs, a row an agent is named in has a deadline whatever its
\* status: the sweep clears both together, every other writer of one keeps it.
OwnedHasLease ==
    \A i \in Invs : agent[i] # None => lease[i] # NoLease

\* What is over stays over, under late answers of passes, agents and completion
\* calls: only the operator's reopen brings a row back.
OverStaysOver ==
    [][\A i \in Invs :
          status[i] \in Terminal /\ status'[i] \notin Terminal =>
              reopen.inv = i /\ reopen.pc \in {"resume", "requeue"}]_vars

\* The attempts counted by a replica pass the limit by one at most, and only
\* while the dispatch that found out is being given up.
AttemptsBounded ==
    \A r \in Replicas, i \in Invs :
        \/ attempts[r][i] <= MaxAttempts
        \/ /\ attempts[r][i] = MaxAttempts + 1
           /\ pass[r].pc = "giveup"
           /\ pass[r].cur = i

\* An assigned row does not stay assigned, whatever agents do: they start it,
\* or it is swept ("assigned rows are deliberately NOT renewed").
AssignedMovesOn ==
    \A i \in Invs : (status[i] = "assigned") ~> (status[i] # "assigned")

\* From here on no agent does anything, and none is seen to connect or leave.
Silent == [][\A a \in Agents : ~AgentStep(a)]_vars

\* Work of agents that fell silent is taken back by the sweep, or ended.
SilenceIsSwept ==
    <>Silent =>
        \A i \in Invs :
            (status[i] = "investigating" /\ lease[i] # NoLease)
                ~> (status[i] # "investigating")

\* The backstop reaches a pending row whose alert recovered, even when every
\* completion call so far was lost or came before the row existed, as long as the
\* row is its alert's current investigation and from some time on one listing
\* shows all pending rows.  (A row that is superseded while it is pending stays
\* pending for ever.)
RecoveredIsCompleted ==
    <>[](Cardinality(Pending) + others <= ListLimit) =>
        \A i \in Invs :
            (status[i] = "pending" /\ ~firing[i] /\ current[i])
                ~> (status[i] # "pending" \/ firing[i] \/ ~current[i])
=============================================================================
