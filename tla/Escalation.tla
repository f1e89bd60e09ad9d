----------------------------- MODULE Escalation -----------------------------
(***************************************************************************)
(* One incident, the people and agents who change its status, the SLA      *)
(* sweep that watches its targets, and the escalation that pages one level *)
(* of a policy after the other until somebody answers.  The status lives   *)
(* in PostgreSQL, the escalation state in a Valkey hash, a sorted set and  *)
(* two claim keys, and the level messages in RabbitMQ: every handler below *)
(* is a sequence of commands to these three, and others run in between.    *)
(***************************************************************************)
EXTENDS IncidentLifecycle, Integers, Bags

CONSTANTS Callers,     \* API requests and agent tool calls served at the same time
          Sweepers,    \* replicas running EscalationSweepWorker
          Workers,     \* replicas consuming the escalation queue
          Requests,    \* the requests callers make
          MaxLevel,    \* levels of the policy
          RepeatCount, \* its repeat_count
          MaxRetries,  \* MaxEscalationRetries
          MaxRequests, \* bound: requests, findings and targets that pass
          MaxQueue,    \* bound: messages in the queue when a sweep publishes
          MaxFaults    \* bound: crashes, failed commands and keys that expire

AllRequests == Transitions \union {"answer", "silence", "escalate", "trigger",
                                   "delete", "set-priority"}

ASSUME EscalationRequests == Requests \subseteq AllRequests
ASSUME EscalationBounds ==
    /\ MaxLevel \in Nat \ {0} /\ RepeatCount \in Nat /\ MaxRetries \in Nat
    /\ MaxRequests \in Nat /\ MaxFaults \in Nat
    /\ MaxQueue \in Nat \ {0}

VARIABLES
    status, deleted,       \* the incident row
    slaAck, slaRes,        \* sla_acknowledged_at, sla_resolved_at are set
    respondDue, resolveDue,\* the SLA targets have passed
    breach,                \* alga:sla:breach:<n>:* markers
    cancelSet,             \* the incident is in the cancel set
    hash,                  \* alga:esc:<n>
    pending,               \* its entry in alga:esc:pending: absent, waiting or due
    claim, manual,         \* alga:esc:<n>:claim, alga:esc:manual:<n>
    queue,                 \* bag of escalation messages
    caller,                \* caller[c]: [req, pc] the request being served
    pub,                   \* pub[p]: step of a guarded publisher
    sla,                   \* the SLA worker: step, overdue targets it listed
    sweep,                 \* sweep[s]: step, level
    worker,                \* worker[w]: step, message
    requests, faults,
    stopped                \* history: escalation cancelled, nobody asked for one since

row == <<status, deleted, slaAck, slaRes, respondDue, resolveDue>>
sets == <<breach, cancelSet>>
esc == <<hash, pending, claim, manual>>
procs == <<caller, pub, sla, sweep, worker>>
count == <<requests, faults>>
vars == <<row, sets, esc, queue, procs, stopped, count>>

Levels == 1 .. MaxLevel
Messages == [level : Levels, retry : 0 .. MaxRetries]
Level1 == [level |-> 1, retry |-> 0]

\* claimEscalationFirstPublish is called by the incident worker's autoAssignIC,
\* the SLA worker and the stuck-investigation worker.
Publishers == {"ic", "sla", "stuck"}

\* The fields of the hash; a field that is not set is "" or 0 here.  policy_id
\* is set by whoever sets current_level, and level_schedule only caches it.
NoHash == [level |-> 0, ack |-> "", silenced |-> FALSE, repeat |-> 0, ttl |-> FALSE]

Idle == [req |-> "none", pc |-> "idle"]
NoSweep == [pc |-> "idle", level |-> 0]
NoWork == [pc |-> "idle", msg |-> Level1]

Fault == faults < MaxFaults /\ faults' = faults + 1
Send(m) == queue' = queue (+) SetToBag({m})

\* The incident was just created, or it was resolved in an earlier life, which
\* left the stamps and an acknowledged hash behind.
Init ==
    /\ status \in {"detected", "active", "resolved"} /\ deleted = FALSE
    /\ slaAck = (status # "detected") /\ slaRes = (status = "resolved")
    /\ respondDue = FALSE /\ resolveDue = FALSE
    /\ breach = {} /\ cancelSet = FALSE
    /\ hash = [NoHash EXCEPT !.ack = IF status = "resolved" THEN "1" ELSE ""]
    /\ pending = "absent" /\ claim = FALSE /\ manual = FALSE
    /\ queue = EmptyBag
    /\ caller = [c \in Callers |-> Idle]
    /\ pub = [p \in Publishers |-> IF p = "ic" /\ status # "resolved" THEN "created"
                              ELSE "idle"]
    /\ sla = [pc |-> "idle", response |-> FALSE, resolve |-> FALSE]
    /\ sweep = [s \in Sweepers |-> NoSweep]
    /\ worker = [w \in Workers |-> NoWork]
    /\ requests = 0 /\ faults = 0
    /\ stopped = FALSE

-----------------------------------------------------------------------------
(* Requests: the lifecycle handlers, the agent tools, the phone and Slack *)

Serve(c, pc) == caller' = [caller EXCEPT ![c].pc = pc]
Reply(c) == caller' = [caller EXCEPT ![c] = Idle]
At(c, pc) == caller[c].pc = pc

\* What a handler reads before it writes anything.
Admits(r) ==
    CASE r \in {"acknowledge", "begin-triage"} -> status = "detected" /\ ~deleted
      [] r = "promote"  -> status = "triaging" /\ ~deleted
      [] r = "resolve"  -> ~deleted
      [] r = "delete"   -> ~deleted
      [] r = "escalate" -> ~deleted /\ ~IsTerminalIncidentStatus(status)
      [] OTHER -> TRUE

FirstStep(r) ==
    CASE r \in Transitions -> "transition"
      [] r = "silence"  -> "silence"
      [] r = "escalate" -> "limit"
      [] r = "trigger"  -> "publish"
      [] r = "set-priority" -> "retarget"
      [] r \in {"answer", "delete"} -> "mark"

Request(c, r) ==
    /\ At(c, "idle") /\ requests < MaxRequests /\ r \in Requests
    /\ Admits(r)
    /\ caller' = [caller EXCEPT ![c] = [req |-> r, pc |-> FirstStep(r)]]
    /\ requests' = requests + 1
    /\ UNCHANGED <<row, sets, esc, queue, pub, sla, sweep, worker, stopped, faults>>

\* TransitionIncidentStatus: one UPDATE guarded by the sources, with the
\* stamps of applyStatusTimestampsBun.
TransitionIncidentStatus(action) ==
    /\ status' = ActionTarget(action)
    /\ slaAck' = (slaAck \/ ActionTarget(action) = "active")
    /\ slaRes' = (slaRes \/ ActionTarget(action) = "resolved")
    /\ UNCHANGED <<deleted, respondDue, resolveDue>>

\* Mutant of Guarded: the UPDATE trusts what the handler read.
GuardedByRead(action) == ~deleted

Guarded(action) == ~deleted /\ status \in ActionSources(action)

\* Mutant of Then: a reopened incident keeps the stamp of its resolution.
ThenWithoutReset(action) ==
    IF action \in {"acknowledge", "resolve", "close", "cancel"} THEN "mark" ELSE "idle"

\* The step that follows the transition in its handler.
Then(action) ==
    CASE action \in {"acknowledge", "resolve", "close", "cancel"} -> "mark"
      [] action = "reopen" -> "stamp"
      [] OTHER -> "idle"

Transition(c) ==
    /\ At(c, "transition")
    /\ LET a == caller[c].req IN
       \/ /\ Guarded(a)
          /\ TransitionIncidentStatus(a)
          /\ IF Then(a) = "idle" THEN Reply(c) ELSE Serve(c, Then(a))
       \/ /\ ~Guarded(a)
          /\ Reply(c) /\ UNCHANGED row
    /\ UNCHANGED <<sets, esc, queue, pub, sla, sweep, worker, stopped, count>>

\* CancelForIncident, HSET acknowledged 1 ...
MarkAcknowledged(c) ==
    /\ At(c, "mark")
    /\ hash' = [hash EXCEPT !.ack = "1"]
    /\ Serve(c, "remove")
    /\ UNCHANGED <<row, sets, pending, claim, manual, queue, pub, sla, sweep, worker,
                   stopped, count>>

\* ... and ZREM.
RemovePending(c) ==
    /\ At(c, "remove")
    /\ pending' = "absent" /\ stopped' = TRUE
    /\ IF caller[c].req = "delete" THEN Serve(c, "delete") ELSE Reply(c)
    /\ UNCHANGED <<row, sets, hash, claim, manual, queue, pub, sla, sweep, worker,
                   count>>

\* DeleteIncident, then the cancel set.
DeleteIncident(c) ==
    /\ At(c, "delete")
    /\ deleted' = TRUE
    /\ cancelSet' = (cancelSet \/ ~deleted)
    /\ Reply(c)
    /\ UNCHANGED <<status, slaAck, slaRes, respondDue, resolveDue, breach, esc, queue,
                   pub, sla, sweep, worker, stopped, count>>

\* The reset of a reopened incident: the resolve stamp, then the markers.
ClearSLAResolvedAt(c) ==
    /\ At(c, "stamp")
    /\ \/ slaRes' = (slaRes /\ deleted) /\ UNCHANGED faults
       \/ Fault /\ UNCHANGED slaRes
    /\ Serve(c, "markers")
    /\ UNCHANGED <<status, deleted, slaAck, respondDue, resolveDue, sets, esc, queue,
                   pub, sla, sweep, worker, stopped, requests>>

ClearBreachDedupKeys(c) ==
    /\ At(c, "markers")
    /\ breach' = {}
    /\ Reply(c)
    /\ UNCHANGED <<row, cancelSet, esc, queue, pub, sla, sweep, worker, stopped, count>>

\* set_incident_priority writes new targets counted from now.
SetPriority(c) ==
    /\ At(c, "retarget")
    /\ respondDue' = (respondDue /\ deleted)
    /\ resolveDue' = (resolveDue /\ deleted)
    /\ Reply(c)
    /\ UNCHANGED <<status, deleted, slaAck, slaRes, sets, esc, queue, pub, sla, sweep,
                   worker, stopped, count>>

\* The keypad's 2: HSET silenced_until.
Silence(c) ==
    /\ At(c, "silence")
    /\ hash' = [hash EXCEPT !.silenced = TRUE]
    /\ Reply(c)
    /\ UNCHANGED <<row, sets, pending, claim, manual, queue, pub, sla, sweep, worker,
                   stopped, count>>

\* handleEscalateIncident: the 60 s limit and the guards.
EscalateLimit(c) ==
    /\ At(c, "limit")
    /\ manual' = TRUE
    /\ IF manual \/ hash.ack = "1" \/ hash.silenced THEN Reply(c) ELSE Serve(c, "publish")
    /\ UNCHANGED <<row, sets, hash, pending, claim, queue, pub, sla, sweep, worker,
                   stopped, count>>

\* ... and the message; performTriggerEscalation publishes without a guard.
EscalatePublish(c) ==
    /\ At(c, "publish")
    /\ Reply(c)
    /\ \/ Send(Level1) /\ stopped' = FALSE /\ UNCHANGED faults
       \/ Fault /\ UNCHANGED <<queue, stopped>>
    /\ UNCHANGED <<row, sets, esc, pub, sla, sweep, worker, requests>>

CallerNext ==
    \E c \in Callers :
        \/ \E r \in Requests : Request(c, r)
        \/ Transition(c) \/ MarkAcknowledged(c) \/ RemovePending(c) \/ DeleteIncident(c)
        \/ ClearSLAResolvedAt(c) \/ ClearBreachDedupKeys(c) \/ SetPriority(c)
        \/ Silence(c) \/ EscalateLimit(c) \/ EscalatePublish(c)

-----------------------------------------------------------------------------
(* Guarded publishers *)

\* The incident worker created the incident and made the on-call user its
\* commander: once.  The stuck-investigation worker found an investigation of it past its
\* threshold: again and again.
Found(p) ==
    /\ pub[p] = (IF p = "ic" THEN "created" ELSE "idle") /\ requests < MaxRequests
    /\ pub' = [pub EXCEPT ![p] = "preflight"]
    /\ requests' = requests + 1
    /\ UNCHANGED <<row, sets, esc, queue, caller, sla, sweep, worker, stopped, faults>>

\* preflightEscalationState: acknowledged and silenced_until.
Preflight(p) ==
    /\ pub[p] = "preflight"
    /\ pub' = [pub EXCEPT ![p] = IF hash.ack = "1" \/ hash.silenced THEN "idle"
                                 ELSE "claim"]
    /\ UNCHANGED <<row, sets, esc, queue, caller, sla, sweep, worker, stopped, count>>

\* SET NX with 60 s to live, then policy_id and current_level.
Claim(p) ==
    /\ pub[p] = "claim"
    /\ \/ /\ ~claim
          /\ claim' = TRUE
          /\ hash' = [hash EXCEPT !.level = 1]
          /\ pub' = [pub EXCEPT ![p] = "publish"]
       \/ /\ claim
          /\ pub' = [pub EXCEPT ![p] = "idle"]
          /\ UNCHANGED <<claim, hash>>
    /\ UNCHANGED <<row, sets, pending, manual, queue, caller, sla, sweep, worker,
                   stopped, count>>

Publish(p) ==
    /\ pub[p] = "publish"
    /\ pub' = [pub EXCEPT ![p] = "idle"]
    /\ \/ Send(Level1) /\ stopped' = FALSE /\ UNCHANGED faults
       \/ Fault /\ UNCHANGED <<queue, stopped>>
    /\ UNCHANGED <<row, sets, esc, caller, sla, sweep, worker, requests>>

\* SLAWorker.Handle: the eligible incidents and their overdue targets ...
SLAList ==
    /\ sla.pc = "idle" /\ status \in SLAEligible /\ ~deleted
    /\ LET response == respondDue /\ ~slaAck
           resolve  == resolveDue /\ ~slaRes
       IN /\ response \/ resolve
          /\ sla' = [pc |-> "response", response |-> response, resolve |-> resolve]
    /\ UNCHANGED <<row, sets, esc, queue, caller, pub, sweep, worker, stopped, count>>

\* ... the marker of the response breach, which triggers an escalation, and does
\* so too when it cannot be read or set ...
SLAResponse ==
    /\ sla.pc = "response"
    /\ sla' = [sla EXCEPT !.pc = "resolve"]
    /\ \/ /\ sla.response /\ "response" \notin breach
          /\ breach' = breach \union {"response"}
          /\ pub' = [pub EXCEPT !["sla"] = "preflight"]
          /\ UNCHANGED faults
       \/ /\ sla.response /\ Fault
          /\ pub' = [pub EXCEPT !["sla"] = "preflight"]
          /\ UNCHANGED breach
       \/ /\ ~sla.response \/ "response" \in breach
          /\ UNCHANGED <<breach, pub, faults>>
    /\ UNCHANGED <<row, cancelSet, esc, queue, caller, sweep, worker, stopped, requests>>

\* ... and the one of the resolve breach.
SLAResolve ==
    /\ sla.pc = "resolve" /\ pub["sla"] = "idle"
    /\ sla' = [pc |-> "idle", response |-> FALSE, resolve |-> FALSE]
    /\ breach' = IF sla.resolve THEN breach \union {"resolve"} ELSE breach
    /\ UNCHANGED <<row, cancelSet, esc, queue, caller, pub, sweep, worker, stopped, count>>

PublisherNext ==
    \/ Found("ic") \/ Found("stuck") \/ SLAList \/ SLAResponse \/ SLAResolve
    \/ \E p \in Publishers : Preflight(p) \/ Claim(p) \/ Publish(p)

-----------------------------------------------------------------------------
(* EscalationWorker *)

\* A delivery: dropped for a deleted or terminal incident, unless the read of the
\* incident fails.
Take(w, m) ==
    /\ worker[w].pc = "idle" /\ BagIn(m, queue)
    /\ queue' = queue (-) SetToBag({m})
    /\ LET over == deleted \/ IsTerminalIncidentStatus(status)
       IN  \/ /\ worker' = [worker EXCEPT ![w] =
                             IF cancelSet \/ over
                             THEN NoWork ELSE [pc |-> "dispatch", msg |-> m]]
              /\ UNCHANGED faults
           \/ /\ ~cancelSet /\ over /\ Fault
              /\ worker' = [worker EXCEPT ![w] = [pc |-> "dispatch", msg |-> m]]
    /\ UNCHANGED <<row, sets, esc, caller, pub, sla, sweep, stopped, requests>>

\* EvaluatePolicy and one notification for every user of the level.
Dispatch(w) ==
    /\ worker[w].pc = "dispatch"
    /\ worker' = [worker EXCEPT ![w] = IF worker[w].msg.level = 1
                                       THEN [@ EXCEPT !.pc = "seed"] ELSE NoWork]
    /\ UNCHANGED <<row, sets, esc, queue, caller, pub, sla, sweep, stopped, count>>

\* EvaluatePolicy fails: a retry queue, and at last the message is refused for
\* good, which nothing keeps.
EvaluateFails(w) ==
    /\ worker[w].pc = "dispatch" /\ Fault
    /\ LET m == worker[w].msg IN
       IF m.retry < MaxRetries THEN Send([m EXCEPT !.retry = @ + 1]) ELSE UNCHANGED queue
    /\ worker' = [worker EXCEPT ![w] = NoWork]
    /\ UNCHANGED <<row, sets, esc, caller, pub, sla, sweep, stopped, requests>>

\* seedLevel1State: HMSET and EXPIRE ...
SeedHash(w) ==
    /\ worker[w].pc = "seed"
    /\ hash' = [level |-> 1, ack |-> "0", silenced |-> hash.silenced,
                repeat |-> RepeatCount, ttl |-> TRUE]
    /\ worker' = [worker EXCEPT ![w].pc = "arm"]
    /\ UNCHANGED <<row, sets, pending, claim, manual, queue, caller, pub, sla, sweep,
                   stopped, count>>

\* ... and ZADD with the delay of level 1.
SeedPending(w) ==
    /\ worker[w].pc = "arm"
    /\ pending' = "waiting"
    /\ worker' = [worker EXCEPT ![w] = NoWork]
    /\ UNCHANGED <<row, sets, hash, claim, manual, queue, caller, pub, sla, sweep,
                   stopped, count>>

\* The process dies before the ack: the broker delivers the message again.
WorkerCrash(w) ==
    /\ worker[w].pc # "idle" /\ Fault
    /\ Send(worker[w].msg)
    /\ worker' = [worker EXCEPT ![w] = NoWork]
    /\ UNCHANGED <<row, sets, esc, caller, pub, sla, sweep, stopped, requests>>

WorkerNext ==
    \E w \in Workers :
        \/ \E m \in BagToSet(queue) : Take(w, m)
        \/ Dispatch(w) \/ EvaluateFails(w) \/ SeedHash(w) \/ SeedPending(w)
        \/ WorkerCrash(w)

-----------------------------------------------------------------------------
(* EscalationSweepWorker *)

Sweeping(s, pc) == sweep[s].pc = pc
Rest(s) == sweep' = [sweep EXCEPT ![s] = NoSweep]

\* claimLua: ZSCORE and ZREM in one script.
AtomicClaim(s) ==
    /\ Sweeping(s, "idle") /\ pending = "due"
    /\ pending' = "absent"
    /\ sweep' = [sweep EXCEPT ![s].pc = "check"]
    /\ UNCHANGED <<row, sets, hash, claim, manual, queue, caller, pub, sla, worker,
                   stopped, count>>

CheckAcknowledged(s) ==
    /\ Sweeping(s, "check")
    /\ IF hash.ack = "1" THEN Rest(s) ELSE sweep' = [sweep EXCEPT ![s].pc = "read"]
    /\ UNCHANGED <<row, sets, esc, queue, caller, pub, sla, worker, stopped, count>>

\* An incident that is silenced waits again, at the same level.
Silenced(s) ==
    /\ Sweeping(s, "read") /\ hash.level # 0 /\ hash.silenced
    /\ sweep' = [sweep EXCEPT ![s] = [pc |-> "state", level |-> hash.level]]
    /\ UNCHANGED <<row, sets, esc, queue, caller, pub, sla, worker, stopped, count>>

\* Mutant of NextLevel: one level too many.
NextLevelBeyond(s) ==
    /\ Sweeping(s, "read") /\ hash.level # 0 /\ ~hash.silenced
    /\ sweep' = [sweep EXCEPT ![s] = [pc |-> "publish", level |-> hash.level + 1]]
    /\ UNCHANGED <<row, sets, esc, queue, caller, pub, sla, worker, stopped, count>>

\* The level after the current one, from the top again while repeats remain.
NextLevel(s) ==
    /\ Sweeping(s, "read") /\ hash.level # 0 /\ ~hash.silenced
    /\ \/ /\ hash.level < MaxLevel
          /\ UNCHANGED hash
          /\ sweep' = [sweep EXCEPT ![s] = [pc |-> "publish", level |-> hash.level + 1]]
       \/ /\ hash.level >= MaxLevel /\ hash.repeat > 0
          /\ hash' = [hash EXCEPT !.repeat = @ - 1]
          /\ sweep' = [sweep EXCEPT ![s] = [pc |-> "publish", level |-> 1]]
    /\ UNCHANGED <<row, sets, pending, claim, manual, queue, caller, pub, sla, worker,
                   stopped, count>>

\* Mutant of Exhausted: the last level waits for another tick.
ExhaustedWaits(s) ==
    /\ Sweeping(s, "read") /\ hash.level >= MaxLevel /\ ~hash.silenced
    /\ hash.repeat = 0
    /\ pending' = "waiting"
    /\ Rest(s)
    /\ UNCHANGED <<row, sets, hash, claim, manual, queue, caller, pub, sla, worker,
                   stopped, count>>

\* The last level has been paged: dropEntry, a ZREM.
Exhausted(s) ==
    /\ Sweeping(s, "read") /\ hash.level >= MaxLevel /\ ~hash.silenced
    /\ hash.repeat = 0
    /\ pending' = "absent"
    /\ Rest(s)
    /\ UNCHANGED <<row, sets, hash, claim, manual, queue, caller, pub, sla, worker,
                   stopped, count>>

\* No level or no policy in the hash: the entry, claimed already, is gone.
NothingToDo(s) ==
    /\ Sweeping(s, "read") /\ hash.level = 0
    /\ Rest(s)
    /\ UNCHANGED <<row, sets, esc, queue, caller, pub, sla, worker, stopped, count>>

\* publishAdvance.
PublishAdvance(s) ==
    /\ Sweeping(s, "publish") /\ BagCardinality(queue) < MaxQueue
    /\ Send([level |-> sweep[s].level, retry |-> 0])
    /\ sweep' = [sweep EXCEPT ![s].pc = "state"]
    /\ UNCHANGED <<row, sets, esc, caller, pub, sla, worker, stopped, count>>

\* The publisher, or the read of a policy, fails: dropEntry.
AdvanceFails(s) ==
    /\ Sweeping(s, "publish") /\ Fault
    /\ pending' = "absent"
    /\ Rest(s)
    /\ UNCHANGED <<row, sets, hash, claim, manual, queue, caller, pub, sla, worker,
                   stopped, requests>>

\* Mutant of EscalateState: the level without the due time.
EscalateLevelOnly(s) ==
    /\ Sweeping(s, "state")
    /\ hash' = [hash EXCEPT !.level = sweep[s].level]
    /\ Rest(s)
    /\ UNCHANGED <<row, sets, pending, claim, manual, queue, caller, pub, sla, worker,
                   stopped, count>>

\* escalateLua: current_level and the next due time in one script.
EscalateState(s) ==
    /\ Sweeping(s, "state")
    /\ hash' = [hash EXCEPT !.level = sweep[s].level]
    /\ pending' = "waiting"
    /\ Rest(s)
    /\ UNCHANGED <<row, sets, claim, manual, queue, caller, pub, sla, worker, stopped, count>>

SweepCrash(s) ==
    /\ ~Sweeping(s, "idle") /\ Fault
    /\ Rest(s)
    /\ UNCHANGED <<row, sets, esc, queue, caller, pub, sla, worker, stopped, requests>>

SweepNext ==
    \E s \in Sweepers :
        \/ AtomicClaim(s) \/ CheckAcknowledged(s) \/ Silenced(s) \/ NextLevel(s)
        \/ Exhausted(s) \/ NothingToDo(s) \/ PublishAdvance(s) \/ AdvanceFails(s)
        \/ EscalateState(s) \/ SweepCrash(s)

-----------------------------------------------------------------------------
(* Time *)

PendingDue ==
    /\ pending = "waiting" /\ pending' = "due"
    /\ UNCHANGED <<row, sets, hash, claim, manual, queue, procs, stopped, count>>

SilenceEnds ==
    /\ hash.silenced /\ hash' = [hash EXCEPT !.silenced = FALSE]
    /\ UNCHANGED <<row, sets, pending, claim, manual, queue, procs, stopped, count>>

KeyExpires ==
    /\ Fault
    /\ \/ claim /\ claim' = FALSE /\ UNCHANGED <<manual, hash, breach>>
       \/ manual /\ manual' = FALSE /\ UNCHANGED <<claim, hash, breach>>
       \/ hash.ttl /\ hash' = NoHash /\ UNCHANGED <<claim, manual, breach>>
       \/ breach # {} /\ breach' = {} /\ UNCHANGED <<claim, manual, hash>>
    /\ UNCHANGED <<row, cancelSet, pending, queue, procs, stopped, requests>>

TargetPasses ==
    /\ requests < MaxRequests /\ requests' = requests + 1
    /\ \/ ~respondDue /\ respondDue' = TRUE /\ UNCHANGED resolveDue
       \/ respondDue /\ ~resolveDue /\ resolveDue' = TRUE /\ UNCHANGED respondDue
    /\ UNCHANGED <<status, deleted, slaAck, slaRes, sets, esc, queue, procs, stopped,
                   faults>>

Time == PendingDue \/ SilenceEnds \/ KeyExpires \/ TargetPasses

Next == CallerNext \/ PublisherNext \/ WorkerNext \/ SweepNext \/ Time

Spec == Init /\ [][Next]_vars

\* A handler that has begun goes on, the queue is consumed, the sweep ticks
\* every 10 s, and time passes.
Fairness ==
    /\ \A c \in Callers :
        /\ WF_vars(MarkAcknowledged(c)) /\ WF_vars(RemovePending(c))
        /\ WF_vars(DeleteIncident(c))
    /\ \A w \in Workers :
        WF_vars((\E m \in BagToSet(queue) : Take(w, m)) \/ Dispatch(w) \/ SeedHash(w)
                \/ SeedPending(w))
    /\ \A s \in Sweepers :
        WF_vars(CheckAcknowledged(s) \/ Silenced(s) \/ NextLevel(s) \/ Exhausted(s)
                \/ NothingToDo(s) \/ PublishAdvance(s) \/ EscalateState(s))
    /\ WF_vars(\E s \in Sweepers : AtomicClaim(s))
    /\ WF_vars(PendingDue) /\ WF_vars(SilenceEnds)

FairSpec == Spec /\ Fairness

-----------------------------------------------------------------------------
(* Properties *)

\* Every variable keeps its type: the hash, the keys and the queue hold only
\* what the handlers of api/incident_lifecycle.go and worker/escalation*.go write.
TypeOK ==
    /\ status \in Statuses /\ {deleted, slaAck, slaRes, cancelSet} \subseteq BOOLEAN
    /\ {respondDue, resolveDue, claim, manual, stopped} \subseteq BOOLEAN
    /\ breach \subseteq {"response", "resolve"}
    /\ hash \in [level : 0 .. MaxLevel, ack : {"", "0", "1"}, silenced : BOOLEAN,
                 repeat : 0 .. RepeatCount, ttl : BOOLEAN]
    /\ pending \in {"absent", "waiting", "due"}
    /\ IsABag(queue) /\ BagToSet(queue) \subseteq Messages
    /\ caller \in [Callers -> [req : AllRequests \union {"none"},
                     pc : {"idle", "transition", "mark", "remove", "delete", "stamp",
                           "markers", "retarget", "silence", "limit", "publish"}]]
    /\ pub \in [Publishers -> {"created", "idle", "preflight", "claim", "publish"}]
    /\ sla \in [pc : {"idle", "response", "resolve"}, response : BOOLEAN,
                resolve : BOOLEAN]
    /\ sweep \in [Sweepers -> [pc : {"idle", "check", "read", "publish", "state"},
                               level : 0 .. MaxLevel]]
    /\ worker \in [Workers -> [pc : {"idle", "dispatch", "seed", "arm"},
                               msg : Messages]]
    /\ requests \in 0 .. MaxRequests /\ faults \in 0 .. MaxFaults

\* The status of an incident changes only along validTransitions, whatever
\* handlers, agent tools and workers race: what they read is not trusted,
\* TransitionIncidentStatus repeats the sources in its UPDATE.
LegalTransitions ==
    [][status' = status \/ (status' \in validTransitions[status] /\ ~deleted)]_vars

\* While an incident is open its resolve clock runs, or the SLA sweep would
\* never see a breach: no stamp of an earlier resolution is left, except in a
\* reopen that is about to wipe it and in one whose UPDATE failed, whatever
\* resolutions, reopenings and deletions race.
OpenClockRuns ==
    status \in SLAEligible /\ ~deleted /\ slaRes =>
        faults > 0 \/ \E c \in Callers : At(c, "stamp")

Answered == hash.ack = "1" \/ stopped \/ IsTerminalIncidentStatus(status) \/ deleted

\* An escalation that waits for its next level and that nobody answers pages
\* the last level of the policy too, whatever other publishers restart it
\* meanwhile, unless a command failed, a process died or a key expired.
LadderIsClimbed ==
    (/\ pending # "absent" /\ hash.level \in 1 .. MaxLevel - 1
     /\ \A s \in Sweepers : Sweeping(s, "idle"))
        ~> (\/ \E w \in Workers :
                 worker[w].pc = "dispatch" /\ worker[w].msg.level = MaxLevel
            \/ Answered \/ faults > 0)

\* The escalation of an incident that has ended dies out, also when a message
\* on its way has started it again behind CancelForIncident: the time comes when
\* no entry is left for a sweep, no message for a worker, and both rest, unless
\* the incident is reopened.
EndedGoesQuiet ==
    (IsTerminalIncidentStatus(status) \/ deleted) ~>
        (\/ ~IsTerminalIncidentStatus(status) /\ ~deleted
         \/ /\ pending = "absent" /\ queue = EmptyBag
            /\ \A s \in Sweepers : Sweeping(s, "idle")
            /\ \A w \in Workers : worker[w].pc = "idle")


\* docs/on-call/escalation-policies.md: "If nobody ever responds, the policy
\* loops through a few times and then gives up."
GivesUp == <>[](pending = "absent" /\ queue = EmptyBag)
=============================================================================
