-------------------------- MODULE EscalationProofs --------------------------
(***************************************************************************)
(* For every policy, number of callers, publishers, sweepers and workers:  *)
(* the status of an incident follows validTransitions, and its resolve     *)
(* clock runs while it is open.  Both are about the incident row, which    *)
(* only the callers write, so their invariant says nothing of the queue    *)
(* and the Valkey keys.  The types, and that an escalation under way has a *)
(* level, follow from invariants of their own.                             *)
(***************************************************************************)
EXTENDS Escalation, TLAPS

Places == {"idle", "transition", "mark", "remove", "delete", "stamp", "markers",
           "retarget", "silence", "limit", "publish"}
Served == [req : AllRequests \union {"none"}, pc : Places]

RowTypes ==
    /\ status \in Statuses
    /\ deleted \in BOOLEAN /\ slaRes \in BOOLEAN
    /\ faults \in Nat
    /\ caller \in [Callers -> Served]

\* A caller that is about to change the status does so for an action of the
\* lifecycle.
Acting == \A c \in Callers : caller[c].pc = "transition" => caller[c].req \in Transitions

IInv == RowTypes /\ Acting /\ OpenClockRuns

-----------------------------------------------------------------------------
(* The two tables of the lifecycle. *)

\* Every source and target of an action is a transition the lifecycle declares
\* valid; only a reopening brings an ended incident back among those the SLA
\* sweep watches, and it goes on to clear the stamp.
LEMMA Tables ==
    ASSUME NEW a \in Transitions, NEW s \in Statuses, s \in ActionSources(a)
    PROVE  /\ ActionTarget(a) \in validTransitions[s]
           /\ ActionTarget(a) \in Statuses
           /\ ActionTarget(a) = "resolved" => ActionTarget(a) \notin SLAEligible
           /\ ActionTarget(a) \in SLAEligible /\ s \notin SLAEligible => Then(a) = "stamp"
           /\ Then(a) \in {"mark", "stamp", "idle"}
<1>1. CASE a \in {"acknowledge", "begin-triage", "promote", "mitigate"}
  BY <1>1 DEF ActionSources, ActionTarget, validTransitions, Statuses, SLAEligible, Then
<1>2. CASE a \in {"resolve", "close"}
  BY <1>2 DEF ActionSources, ActionTarget, validTransitions, Statuses, SLAEligible, Then
<1>3. CASE a \in {"reopen", "cancel"}
  BY <1>3 DEF ActionSources, ActionTarget, validTransitions, Statuses, SLAEligible, Then
<1>4. QED
  BY <1>1, <1>2, <1>3 DEF Transitions

-----------------------------------------------------------------------------
(* Steps that leave the stamps alone. *)

FaultsGrow == faults' \in Nat /\ faults' >= faults

LEMMA FaultOrNot ==
    ASSUME RowTypes, UNCHANGED faults \/ Fault
    PROVE  FaultsGrow
  BY DEF RowTypes, Fault, FaultsGrow

\* c, who was not about to clear the stamp, goes to v.
Moves(c, v) ==
    /\ ~At(c, "stamp")
    /\ v \in Served /\ (v.pc = "transition" => v.req \in Transitions)
    /\ caller' = [caller EXCEPT ![c] = v]

LEMMA KeepsInv ==
    ASSUME IInv, FaultsGrow, UNCHANGED <<status, deleted, slaRes>>,
           UNCHANGED caller \/ \E c \in Callers, v \in Served : Moves(c, v)
    PROVE  IInv'
<1>1. CASE UNCHANGED caller
  <2>1. RowTypes' /\ Acting'
    BY <1>1 DEF IInv, RowTypes, Acting, FaultsGrow
  <2>2. OpenClockRuns'
    BY <1>1 DEF IInv, RowTypes, OpenClockRuns, At, FaultsGrow
  <2>3. QED
    BY <2>1, <2>2 DEF IInv
<1>2. ASSUME NEW c \in Callers, NEW v \in Served, Moves(c, v)
      PROVE  IInv'
  <2>1. /\ caller' \in [Callers -> Served] /\ caller'[c] = v
        /\ \A d \in Callers \ {c} : caller'[d] = caller[d]
    BY <1>2 DEF Moves, IInv, RowTypes
  <2>2. RowTypes' /\ Acting'
    BY <1>2, <2>1 DEF IInv, RowTypes, Acting, Moves, FaultsGrow
  <2>3. OpenClockRuns'
    <3>1. \A d \in Callers : At(d, "stamp") => caller'[d].pc = "stamp"
      BY <1>2, <2>1 DEF Moves, At
    <3>2. faults > 0 => faults' > 0
      BY DEF FaultsGrow, IInv, RowTypes
    <3>3. QED
      BY <3>1, <3>2 DEF IInv, OpenClockRuns, At
  <2>4. QED
    BY <2>2, <2>3 DEF IInv
<1>3. QED
  BY <1>1, <1>2

LEMMA IdleServed == Idle \in Served /\ Idle.pc = "idle"
  BY DEF Idle, Served, Places

LEMMA ReplyMoves ==
    ASSUME RowTypes, NEW c \in Callers, Reply(c), ~At(c, "stamp")
    PROVE  \E d \in Callers, v \in Served : Moves(d, v)
  BY IdleServed DEF Reply, Moves

LEMMA ServeMoves ==
    ASSUME RowTypes, NEW c \in Callers, NEW pc \in Places \ {"transition"}, Serve(c, pc),
           ~At(c, "stamp")
    PROVE  \E d \in Callers, v \in Served : Moves(d, v)
<1> DEFINE v == [caller[c] EXCEPT !.pc = pc]
<1>1. caller[c] \in Served
  BY DEF RowTypes
<1>2. v \in Served /\ v.pc = pc
  BY <1>1 DEF Served
<1>3. caller' = [caller EXCEPT ![c] = v]
  BY <1>1 DEF Serve, RowTypes
<1> HIDE DEF v
<1>4. Moves(c, v)
  BY <1>2, <1>3 DEF Moves
<1>5. QED
  BY <1>2, <1>4

-----------------------------------------------------------------------------
(* The steps of the callers. *)

LEMMA RequestKeeps ==
    ASSUME IInv, NEW c \in Callers, NEW r \in Requests, Request(c, r)
    PROVE  IInv'
<1> DEFINE v == [req |-> r, pc |-> FirstStep(r)]
<1>1. r \in AllRequests
  BY EscalationRequests
<1>2. FirstStep(r) \in Places /\ (FirstStep(r) = "transition" => r \in Transitions)
  <2>1. CASE r \in Transitions
    BY <2>1 DEF FirstStep, Places
  <2>2. CASE r \notin Transitions
    BY <1>1, <2>2 DEF FirstStep, Places, AllRequests
  <2>3. QED
    BY <2>1, <2>2
<1>3. v \in Served /\ (v.pc = "transition" => v.req \in Transitions)
  BY <1>1, <1>2 DEF Served
<1>4. caller' = [caller EXCEPT ![c] = v] /\ ~At(c, "stamp")
  BY DEF Request, At
<1> HIDE DEF v
<1>5. Moves(c, v)
  BY <1>3, <1>4 DEF Moves
<1>6. FaultsGrow /\ UNCHANGED <<status, deleted, slaRes>>
  BY FaultOrNot DEF Request, IInv, row
<1>7. QED
  BY <1>3, <1>5, <1>6, KeepsInv

LEMMA TransitionKeeps ==
    ASSUME IInv, NEW c \in Callers, Transition(c)
    PROVE  IInv' /\ (status' = status \/ (status' \in validTransitions[status] /\ ~deleted))
<1> DEFINE a == caller[c].req
<1>1. a \in Transitions /\ ~At(c, "stamp") /\ status \in Statuses /\ UNCHANGED faults
  BY DEF Transition, At, IInv, Acting, RowTypes, count
<1>2. FaultsGrow
  BY <1>1, FaultOrNot DEF IInv
<1>3. CASE ~Guarded(a)
  <2>1. Reply(c) /\ UNCHANGED <<status, deleted, slaRes>>
    BY <1>3 DEF Transition, row
  <2>2. QED
    BY <1>1, <1>2, <2>1, ReplyMoves, KeepsInv DEF IInv
<1>4. CASE Guarded(a)
  <2>1. /\ status' = ActionTarget(a) /\ deleted' = deleted
        /\ slaRes' = (slaRes \/ ActionTarget(a) = "resolved")
        /\ IF Then(a) = "idle" THEN Reply(c) ELSE Serve(c, Then(a))
    BY <1>4 DEF Transition, TransitionIncidentStatus
  <2>2. ~deleted /\ status \in ActionSources(a)
    BY <1>4 DEF Guarded
  <2>3. /\ status' \in validTransitions[status] /\ status' \in Statuses
        /\ status' = "resolved" => status' \notin SLAEligible
        /\ status' \in SLAEligible /\ status \notin SLAEligible => Then(a) = "stamp"
        /\ Then(a) \in {"mark", "stamp", "idle"}
    BY <1>1, <2>1, <2>2, Tables
  <2>4. PICK v \in Served : /\ caller' = [caller EXCEPT ![c] = v]
                            /\ v.pc = Then(a)
    <3>1. CASE Then(a) = "idle"
      BY <2>1, <3>1, IdleServed DEF Reply
    <3>2. CASE Then(a) # "idle"
      <4> DEFINE u == [caller[c] EXCEPT !.pc = Then(a)]
      <4>1. caller[c] \in Served
        BY DEF IInv, RowTypes
      <4>2. u \in Served /\ u.pc = Then(a)
        BY <2>3, <4>1 DEF Served, Places
      <4>3. caller' = [caller EXCEPT ![c] = u]
        BY <2>1, <3>2, <4>1 DEF Serve, IInv, RowTypes
      <4>4. QED
        BY <4>2, <4>3
    <3>3. QED
      BY <3>1, <3>2
  <2>5. /\ caller' \in [Callers -> Served] /\ caller'[c] = v
        /\ \A d \in Callers \ {c} : caller'[d] = caller[d]
    BY <2>4 DEF IInv, RowTypes
  <2>6. RowTypes'
    BY <1>2, <2>1, <2>3, <2>5 DEF IInv, RowTypes, FaultsGrow
  <2>7. Acting'
    BY <2>3, <2>4, <2>5 DEF IInv, Acting
  <2>8. OpenClockRuns'
    <3> SUFFICES ASSUME status' \in SLAEligible, slaRes'
                 PROVE  faults' > 0 \/ \E d \in Callers : caller'[d].pc = "stamp"
      BY DEF OpenClockRuns, At
    <3>1. slaRes
      BY <2>1, <2>3
    <3>2. CASE status \notin SLAEligible
      BY <2>3, <2>4, <2>5, <3>2
    <3>3. CASE status \in SLAEligible
      <4>1. faults > 0 \/ \E d \in Callers : At(d, "stamp")
        BY <2>2, <3>1, <3>3 DEF IInv, OpenClockRuns
      <4>2. QED
        BY <1>1, <2>5, <4>1 DEF At
    <3>4. QED
      BY <3>2, <3>3
  <2>9. QED
    BY <2>2, <2>3, <2>6, <2>7, <2>8 DEF IInv
<1>5. QED
  BY <1>3, <1>4

\* The two steps that change what OpenClockRuns speaks of.
LEMMA StampKeeps ==
    ASSUME IInv, NEW c \in Callers, ClearSLAResolvedAt(c) \/ DeleteIncident(c)
    PROVE  IInv'
<1>1. PICK v \in Served : caller' = [caller EXCEPT ![c] = v] /\ v.pc # "transition"
  <2>1. CASE DeleteIncident(c)
    BY <2>1, IdleServed DEF DeleteIncident, Reply
  <2>2. CASE ClearSLAResolvedAt(c)
    <3> DEFINE u == [caller[c] EXCEPT !.pc = "markers"]
    <3>1. caller[c] \in Served
      BY DEF IInv, RowTypes
    <3>2. u \in Served /\ u.pc = "markers"
      BY <3>1 DEF Served, Places
    <3>3. caller' = [caller EXCEPT ![c] = u]
      BY <2>2, <3>1 DEF ClearSLAResolvedAt, Serve, IInv, RowTypes
    <3>4. QED
      BY <3>2, <3>3
  <2>3. QED
    BY <2>1, <2>2
<1>2. FaultsGrow
  BY FaultOrNot DEF ClearSLAResolvedAt, DeleteIncident, IInv, count
<1>3. status' = status /\ deleted' \in BOOLEAN /\ slaRes' \in BOOLEAN
  BY DEF ClearSLAResolvedAt, DeleteIncident, IInv, RowTypes
<1>4. RowTypes' /\ Acting'
  BY <1>1, <1>2, <1>3 DEF IInv, RowTypes, Acting, FaultsGrow
<1>5. OpenClockRuns'
  <2>1. CASE DeleteIncident(c)
    BY <2>1 DEF DeleteIncident, OpenClockRuns
  <2>2. CASE ClearSLAResolvedAt(c)
    <3>1. CASE Fault
      BY <3>1 DEF OpenClockRuns, Fault, IInv, RowTypes
    <3>2. CASE slaRes' = (slaRes /\ deleted)
      <4>1. ~deleted' => ~slaRes'
        BY <2>2, <3>2 DEF ClearSLAResolvedAt
      <4>2. QED
        BY <4>1 DEF OpenClockRuns
    <3>3. QED
      BY <2>2, <3>1, <3>2 DEF ClearSLAResolvedAt
  <2>3. QED
    BY <2>1, <2>2
<1>6. QED
  BY <1>4, <1>5 DEF IInv

LEMMA CallerKeeps ==
    ASSUME IInv, CallerNext
    PROVE  IInv' /\ (status' = status \/ (status' \in validTransitions[status] /\ ~deleted))
<1>1. PICK c \in Callers :
        \/ \E r \in Requests : Request(c, r)
        \/ Transition(c) \/ MarkAcknowledged(c) \/ RemovePending(c) \/ DeleteIncident(c)
        \/ ClearSLAResolvedAt(c) \/ ClearBreachDedupKeys(c) \/ SetPriority(c)
        \/ Silence(c) \/ EscalateLimit(c) \/ EscalatePublish(c)
  BY DEF CallerNext
<1>2. RowTypes
  BY DEF IInv
<1>3. CASE Transition(c)
  BY <1>3, TransitionKeeps
<1>4. CASE ClearSLAResolvedAt(c) \/ DeleteIncident(c)
  BY <1>4, StampKeeps DEF ClearSLAResolvedAt, DeleteIncident
<1>5. CASE \E r \in Requests : Request(c, r)
  BY <1>5, RequestKeeps DEF Request, row
<1>6. CASE MarkAcknowledged(c) \/ RemovePending(c) \/ ClearBreachDedupKeys(c)
           \/ SetPriority(c) \/ Silence(c) \/ EscalateLimit(c) \/ EscalatePublish(c)
  <2>1. FaultsGrow /\ UNCHANGED <<status, deleted, slaRes>>
    BY <1>2, <1>6, FaultOrNot DEF MarkAcknowledged, RemovePending, ClearBreachDedupKeys,
       SetPriority, Silence, EscalateLimit, EscalatePublish, row, count
  <2>2. ~At(c, "stamp")
    BY <1>6 DEF MarkAcknowledged, RemovePending, ClearBreachDedupKeys, SetPriority,
       Silence, EscalateLimit, EscalatePublish, At
  <2>3. Reply(c) \/ \E pc \in Places \ {"transition"} : Serve(c, pc)
    BY <1>6 DEF MarkAcknowledged, RemovePending, ClearBreachDedupKeys, SetPriority,
       Silence, EscalateLimit, EscalatePublish, Places
  <2>4. \E d \in Callers, v \in Served : Moves(d, v)
    BY <1>2, <2>2, <2>3, ReplyMoves, ServeMoves
  <2>5. QED
    BY <2>1, <2>4, KeepsInv
<1>7. QED
  BY <1>1, <1>3, <1>4, <1>5, <1>6

-----------------------------------------------------------------------------
(* The other actors: none of them writes the row. *)

LEMMA OthersKeep ==
    ASSUME IInv, PublisherNext \/ WorkerNext \/ SweepNext \/ Time \/ UNCHANGED vars
    PROVE  IInv' /\ status' = status
<1>1. CASE PublisherNext
  <2>1. UNCHANGED <<row, caller>> /\ (UNCHANGED faults \/ Fault)
    BY <1>1 DEF PublisherNext, Found, SLAList, SLAResponse, SLAResolve, Preflight, Claim,
       Publish, count
  <2>2. QED
    BY <2>1, FaultOrNot, KeepsInv DEF IInv, row
<1>2. CASE WorkerNext
  <2>1. UNCHANGED <<row, caller>> /\ (UNCHANGED faults \/ Fault)
    BY <1>2 DEF WorkerNext, Take, Dispatch, EvaluateFails, SeedHash, SeedPending,
       WorkerCrash, count
  <2>2. QED
    BY <2>1, FaultOrNot, KeepsInv DEF IInv, row
<1>3. CASE SweepNext
  <2>1. UNCHANGED <<row, caller>> /\ (UNCHANGED faults \/ Fault)
    BY <1>3 DEF SweepNext, AtomicClaim, CheckAcknowledged, Silenced, NextLevel, Exhausted,
       NothingToDo, PublishAdvance, AdvanceFails, EscalateState, SweepCrash, count
  <2>2. QED
    BY <2>1, FaultOrNot, KeepsInv DEF IInv, row
<1>4. CASE Time
  <2>1. UNCHANGED <<status, deleted, slaRes, caller>> /\ (UNCHANGED faults \/ Fault)
    BY <1>4 DEF Time, PendingDue, SilenceEnds, KeyExpires, TargetPasses, row, procs, count
  <2>2. QED
    BY <2>1, FaultOrNot, KeepsInv DEF IInv
<1>5. CASE UNCHANGED vars
  <2>1. UNCHANGED <<status, deleted, slaRes, caller, faults>>
    BY <1>5 DEF vars, row, procs, count
  <2>2. QED
    BY <2>1, FaultOrNot, KeepsInv DEF IInv
<1>6. QED
  BY <1>1, <1>2, <1>3, <1>4, <1>5

LEMMA InitIInv == Init => IInv
<1> SUFFICES ASSUME Init PROVE IInv
  OBVIOUS
<1>1. RowTypes
  BY IdleServed DEF Init, RowTypes, Statuses
<1>2. Acting /\ OpenClockRuns
  BY IdleServed DEF Init, Acting, OpenClockRuns, SLAEligible
<1>3. QED
  BY <1>1, <1>2 DEF IInv

LEMMA NextIInv ==
    IInv /\ [Next]_vars =>
        IInv' /\ (status' = status \/ (status' \in validTransitions[status] /\ ~deleted))
  BY CallerKeeps, OthersKeep DEF Next

LEMMA AlwaysIInv == Spec => []IInv
  BY InitIInv, NextIInv, PTL DEF Spec

\* The status of an incident changes along validTransitions only, whatever
\* callers race (TransitionIncidentStatus repeats the sources in its UPDATE).
THEOREM StatusFollowsLifecycle == Spec => LegalTransitions
<1>1. IInv /\ [Next]_vars =>
        [status' = status \/ (status' \in validTransitions[status] /\ ~deleted)]_vars
  BY NextIInv
<1>2. QED
  BY <1>1, AlwaysIInv, PTL DEF Spec, LegalTransitions

\* An open incident has no stamp of an earlier resolution, but in the reopening
\* that is about to clear it and after one that could not.
THEOREM ResolveClockRuns == Spec => []OpenClockRuns
<1>1. IInv => OpenClockRuns
  BY DEF IInv
<1>2. QED
  BY <1>1, AlwaysIInv, PTL

-----------------------------------------------------------------------------
(* The types, by group of variables. *)

RowPart ==
    /\ status \in Statuses /\ deleted \in BOOLEAN /\ slaAck \in BOOLEAN
    /\ slaRes \in BOOLEAN /\ respondDue \in BOOLEAN /\ resolveDue \in BOOLEAN
    /\ stopped \in BOOLEAN

KeyPart ==
    /\ breach \subseteq {"response", "resolve"} /\ cancelSet \in BOOLEAN
    /\ pending \in {"absent", "waiting", "due"}
    /\ claim \in BOOLEAN /\ manual \in BOOLEAN

HashPart ==
    hash \in [level : 0 .. MaxLevel, ack : {"", "0", "1"}, silenced : BOOLEAN,
              repeat : 0 .. RepeatCount, ttl : BOOLEAN]

QueueType(q) == IsABag(q) /\ BagToSet(q) \subseteq Messages

PubPart ==
    /\ pub \in [Publishers -> {"created", "idle", "preflight", "claim", "publish"}]
    /\ sla \in [pc : {"idle", "response", "resolve"}, response : BOOLEAN,
                resolve : BOOLEAN]

\* With what keeps a sweep from publishing level 0.
SweepPart ==
    /\ sweep \in [Sweepers -> [pc : {"idle", "check", "read", "publish", "state"},
                               level : 0 .. MaxLevel]]
    /\ \A s \in Sweepers : sweep[s].pc = "publish" => sweep[s].level # 0

WorkerPart ==
    worker \in [Workers -> [pc : {"idle", "dispatch", "seed", "arm"}, msg : Messages]]

CountPart == requests \in 0 .. MaxRequests /\ faults \in 0 .. MaxFaults

Parts ==
    /\ RowPart /\ KeyPart /\ HashPart /\ QueueType(queue) /\ PubPart /\ SweepPart
    /\ WorkerPart /\ CountPart

LEMMA PartsAreTypes ==
    ASSUME Parts, RowTypes
    PROVE  TypeOK
  BY DEF Parts, RowTypes, RowPart, KeyPart, HashPart, QueueType, PubPart, SweepPart,
     WorkerPart, CountPart, TypeOK, Served, Places

LEMMA Messages1 == Level1 \in Messages /\ NoWork.msg \in Messages
  BY EscalationBounds DEF Level1, Messages, Levels, NoWork

LEMMA LevelBounds ==
    /\ 1 \in 0 .. MaxLevel /\ 0 \in 0 .. MaxLevel
    /\ RepeatCount \in 0 .. RepeatCount /\ 0 \in 0 .. RepeatCount
    /\ \A n \in 0 .. RepeatCount : n > 0 => n - 1 \in 0 .. RepeatCount
    /\ \A l \in 1 .. MaxLevel : l \in 0 .. MaxLevel /\ l # 0
  BY EscalationBounds

LEMMA NoHashType ==
    ASSUME NEW a \in {"", "1"}
    PROVE  /\ [NoHash EXCEPT !.ack = a]
                 \in [level : 0 .. MaxLevel, ack : {"", "0", "1"}, silenced : BOOLEAN,
                      repeat : 0 .. RepeatCount, ttl : BOOLEAN]
           /\ NoHash \in [level : 0 .. MaxLevel, ack : {"", "0", "1"}, silenced : BOOLEAN,
                           repeat : 0 .. RepeatCount, ttl : BOOLEAN]
<1>1. 0 \in 0 .. MaxLevel /\ 0 \in 0 .. RepeatCount
  BY LevelBounds
<1>2. QED
  BY <1>1 DEF NoHash

LEMMA SendType ==
    ASSUME NEW q, NEW m \in Messages, QueueType(q)
    PROVE  QueueType(q (+) SetToBag({m}))
  BY DEF QueueType, IsABag, BagToSet, SetToBag, (+)

LEMMA TakeType ==
    ASSUME NEW q, NEW m \in Messages, QueueType(q)
    PROVE  QueueType(q (-) SetToBag({m}))
  BY DEF QueueType, IsABag, BagToSet, SetToBag, (-)

LEMMA FaultCounts ==
    ASSUME CountPart, requests' = requests, UNCHANGED faults \/ Fault
    PROVE  CountPart'
  BY EscalationBounds DEF CountPart, Fault

LEMMA CallerTypes ==
    ASSUME Parts, IInv, CallerNext
    PROVE  Parts'
<1>1. PICK c \in Callers :
        \/ \E r \in Requests : Request(c, r)
        \/ Transition(c) \/ MarkAcknowledged(c) \/ RemovePending(c) \/ DeleteIncident(c)
        \/ ClearSLAResolvedAt(c) \/ ClearBreachDedupKeys(c) \/ SetPriority(c)
        \/ Silence(c) \/ EscalateLimit(c) \/ EscalatePublish(c)
  BY DEF CallerNext
<1>2. UNCHANGED <<pub, sla, sweep, worker>>
  BY <1>1 DEF Request, Transition, MarkAcknowledged, RemovePending, DeleteIncident,
     ClearSLAResolvedAt, ClearBreachDedupKeys, SetPriority, Silence, EscalateLimit,
     EscalatePublish
<1>3. PubPart' /\ SweepPart' /\ WorkerPart'
  BY <1>2 DEF Parts, PubPart, SweepPart, WorkerPart
<1>4. CountPart'
  <2>1. CASE \E r \in Requests : Request(c, r)
    BY <2>1, EscalationBounds DEF Request, Parts, CountPart
  <2>2. CASE ~\E r \in Requests : Request(c, r)
    <3>1. requests' = requests /\ (UNCHANGED faults \/ Fault)
      BY <1>1, <2>2 DEF Transition, MarkAcknowledged, RemovePending, DeleteIncident,
         ClearSLAResolvedAt, ClearBreachDedupKeys, SetPriority, Silence, EscalateLimit,
         EscalatePublish, count
    <3>2. QED
      BY <3>1, FaultCounts DEF Parts
  <2>3. QED
    BY <2>1, <2>2
<1>5. QueueType(queue')
  <2>1. UNCHANGED queue \/ Send(Level1)
    BY <1>1 DEF Request, Transition, MarkAcknowledged, RemovePending, DeleteIncident,
       ClearSLAResolvedAt, ClearBreachDedupKeys, SetPriority, Silence, EscalateLimit,
       EscalatePublish
  <2>2. QED
    BY <2>1, SendType, Messages1 DEF Parts, Send
<1>6. HashPart'
  <2>1. \/ UNCHANGED hash
        \/ hash' = [hash EXCEPT !.ack = "1"] \/ hash' = [hash EXCEPT !.silenced = TRUE]
    BY <1>1 DEF Request, Transition, MarkAcknowledged, RemovePending, DeleteIncident,
       ClearSLAResolvedAt, ClearBreachDedupKeys, SetPriority, Silence, EscalateLimit,
       EscalatePublish, esc
  <2>2. QED
    BY <2>1 DEF Parts, HashPart
<1>7. KeyPart'
  <2>1. /\ breach' = breach \/ breach' = {}
        /\ cancelSet' = cancelSet \/ cancelSet' = (cancelSet \/ ~deleted)
        /\ pending' = pending \/ pending' = "absent"
        /\ UNCHANGED claim /\ (manual' = manual \/ manual' = TRUE)
    BY <1>1 DEF Request, Transition, MarkAcknowledged, RemovePending, DeleteIncident,
       ClearSLAResolvedAt, ClearBreachDedupKeys, SetPriority, Silence, EscalateLimit,
       EscalatePublish, sets, esc
  <2>2. QED
    BY <2>1 DEF Parts, KeyPart
<1>8. RowPart'
  <2>1. status' \in Statuses /\ deleted' \in BOOLEAN /\ slaRes' \in BOOLEAN
    BY CallerKeeps DEF IInv, RowTypes
  <2>2. /\ slaAck' = slaAck \/ \E a \in {FALSE, TRUE} : slaAck' = (slaAck \/ a)
        /\ respondDue' = respondDue \/ respondDue' = (respondDue /\ deleted)
        /\ resolveDue' = resolveDue \/ resolveDue' = (resolveDue /\ deleted)
        /\ stopped' = stopped \/ stopped' \in BOOLEAN
    BY <1>1 DEF Request, Transition, TransitionIncidentStatus, MarkAcknowledged,
       RemovePending, DeleteIncident, ClearSLAResolvedAt, ClearBreachDedupKeys,
       SetPriority, Silence, EscalateLimit, EscalatePublish, row
  <2>3. QED
    BY <2>1, <2>2 DEF Parts, RowPart
<1>9. QED
  BY <1>3, <1>4, <1>5, <1>6, <1>7, <1>8 DEF Parts

LEMMA PublisherTypes ==
    ASSUME Parts, PublisherNext
    PROVE  Parts'
<1>1. UNCHANGED row /\ (stopped' = stopped \/ stopped' = FALSE)
  BY DEF PublisherNext, Found, SLAList, SLAResponse, SLAResolve, Preflight, Claim, Publish
<1>2. RowPart'
  BY <1>1 DEF Parts, RowPart, row
<1>3. UNCHANGED <<sweep, worker>>
  BY DEF PublisherNext, Found, SLAList, SLAResponse, SLAResolve, Preflight, Claim, Publish
<1>4. SweepPart' /\ WorkerPart'
  BY <1>3 DEF Parts, SweepPart, WorkerPart
<1>5. KeyPart'
  <2>1. /\ UNCHANGED <<cancelSet, pending, manual>>
        /\ breach' \subseteq breach \union {"response", "resolve"}
        /\ UNCHANGED claim \/ claim' = TRUE
    BY DEF PublisherNext, Found, SLAList, SLAResponse, SLAResolve, Preflight, Claim,
       Publish, sets, esc
  <2>2. QED
    BY <2>1 DEF Parts, KeyPart
<1>6. HashPart'
  <2>1. UNCHANGED hash \/ hash' = [hash EXCEPT !.level = 1]
    BY DEF PublisherNext, Found, SLAList, SLAResponse, SLAResolve, Preflight, Claim,
       Publish, esc
  <2>2. QED
    BY <2>1, LevelBounds DEF Parts, HashPart
<1>7. QueueType(queue')
  <2>1. UNCHANGED queue \/ Send(Level1)
    BY DEF PublisherNext, Found, SLAList, SLAResponse, SLAResolve, Preflight, Claim, Publish
  <2>2. QED
    BY <2>1, SendType, Messages1 DEF Parts, Send
<1>8. CountPart'
  <2>1. \/ requests' = requests /\ (UNCHANGED faults \/ Fault)
        \/ requests < MaxRequests /\ requests' = requests + 1 /\ UNCHANGED faults
    BY DEF PublisherNext, Found, SLAList, SLAResponse, SLAResolve, Preflight, Claim,
       Publish, count
  <2>2. CASE requests < MaxRequests /\ requests' = requests + 1 /\ UNCHANGED faults
    BY <2>2, EscalationBounds DEF Parts, CountPart
  <2>3. QED
    BY <2>1, <2>2, FaultCounts DEF Parts
<1>9. PubPart'
  <2>1. \/ UNCHANGED pub
        \/ \E p \in Publishers, v \in {"idle", "preflight", "claim", "publish"} :
              pub' = [pub EXCEPT ![p] = v]
    BY DEF PublisherNext, Found, SLAList, SLAResponse, SLAResolve, Preflight, Claim,
       Publish, Publishers
  <2>2. pub' \in [Publishers -> {"created", "idle", "preflight", "claim", "publish"}]
    BY <2>1 DEF Parts, PubPart
  <2>3. CASE UNCHANGED sla
    BY <2>2, <2>3 DEF Parts, PubPart
  <2>4. CASE SLAList
    <3>1. PICK a \in BOOLEAN, b \in BOOLEAN :
             sla' = [pc |-> "response", response |-> a, resolve |-> b]
      BY <2>4 DEF SLAList
    <3>2. QED
      BY <2>2, <3>1 DEF PubPart
  <2>5. CASE SLAResponse \/ SLAResolve
    <3>1. \/ sla' = [sla EXCEPT !.pc = "resolve"]
          \/ sla' = [pc |-> "idle", response |-> FALSE, resolve |-> FALSE]
      BY <2>5 DEF SLAResponse, SLAResolve
    <3>2. sla \in [pc : {"idle", "response", "resolve"}, response : BOOLEAN, resolve : BOOLEAN]
      BY DEF Parts, PubPart
    <3>3. [sla EXCEPT !.pc = "resolve"]
             \in [pc : {"idle", "response", "resolve"}, response : BOOLEAN, resolve : BOOLEAN]
      BY <3>2
    <3>4. [pc |-> "idle", response |-> FALSE, resolve |-> FALSE]
             \in [pc : {"idle", "response", "resolve"}, response : BOOLEAN, resolve : BOOLEAN]
      OBVIOUS
    <3>5. sla' \in [pc : {"idle", "response", "resolve"}, response : BOOLEAN, resolve : BOOLEAN]
      BY <3>1, <3>3, <3>4
    <3>6. QED
      BY <2>2, <3>5 DEF PubPart
  <2>6. QED
    BY <2>3, <2>4, <2>5 DEF PublisherNext, Found, Preflight, Claim, Publish
<1>10. QED
  BY <1>2, <1>4, <1>5, <1>6, <1>7, <1>8, <1>9 DEF Parts

LEMMA WorkerTypes ==
    ASSUME Parts, WorkerNext
    PROVE  Parts'
<1>1. PICK w \in Workers :
        \/ \E m \in BagToSet(queue) : Take(w, m)
        \/ Dispatch(w) \/ EvaluateFails(w) \/ SeedHash(w) \/ SeedPending(w)
        \/ WorkerCrash(w)
  BY DEF WorkerNext
<1>2. /\ UNCHANGED <<row, stopped, sets, claim, manual, pub, sla, sweep, requests>>
      /\ UNCHANGED faults \/ Fault
  BY <1>1 DEF Take, Dispatch, EvaluateFails, SeedHash, SeedPending, WorkerCrash, esc, count
<1>3. RowPart' /\ PubPart' /\ SweepPart' /\ CountPart'
  BY <1>2, FaultCounts DEF Parts, RowPart, PubPart, SweepPart, row
<1>4. worker[w] \in [pc : {"idle", "dispatch", "seed", "arm"}, msg : Messages]
  BY DEF Parts, WorkerPart
<1>5. KeyPart'
  <2>1. UNCHANGED pending \/ pending' = "waiting"
    BY <1>1 DEF Take, Dispatch, EvaluateFails, SeedHash, SeedPending, WorkerCrash, esc
  <2>2. QED
    BY <1>2, <2>1 DEF Parts, KeyPart, sets
<1>6. HashPart'
  <2>1. \/ UNCHANGED hash
        \/ hash' = [level |-> 1, ack |-> "0", silenced |-> hash.silenced,
                    repeat |-> RepeatCount, ttl |-> TRUE]
    BY <1>1 DEF Take, Dispatch, EvaluateFails, SeedHash, SeedPending, WorkerCrash, esc
  <2>2. QED
    <3>1. hash.silenced \in BOOLEAN
      BY DEF Parts, HashPart
    <3> DEFINE b == hash.silenced
    <3>2. b \in BOOLEAN
      BY <3>1
    <3> HIDE DEF b
    <3>3. [level |-> 1, ack |-> "0", silenced |-> b, repeat |-> RepeatCount, ttl |-> TRUE]
             \in [level : 0 .. MaxLevel, ack : {"", "0", "1"}, silenced : BOOLEAN,
                  repeat : 0 .. RepeatCount, ttl : BOOLEAN]
      BY <3>2, LevelBounds
    <3>4. QED
      BY <2>1, <3>3 DEF Parts, HashPart, b
<1>7. QueueType(queue')
  <2>1. CASE \E m \in BagToSet(queue) : Take(w, m)
    BY <2>1, TakeType DEF Take, Parts, QueueType
  <2>2. CASE EvaluateFails(w)
    <3>1. CASE worker[w].msg.retry < MaxRetries
      <4> DEFINE m == [worker[w].msg EXCEPT !.retry = @ + 1]
      <4>1. m \in Messages
        BY <1>4, <3>1, EscalationBounds DEF Messages
      <4>2. queue' = queue (+) SetToBag({m})
        BY <2>2, <3>1 DEF EvaluateFails, Send
      <4> HIDE DEF m
      <4>3. QED
        BY <4>1, <4>2, SendType DEF Parts
    <3>2. CASE ~(worker[w].msg.retry < MaxRetries)
      BY <2>2, <3>2 DEF EvaluateFails, Parts
    <3>3. QED
      BY <3>1, <3>2
  <2>3. CASE WorkerCrash(w)
    BY <1>4, <2>3, SendType DEF WorkerCrash, Send, Parts
  <2>4. CASE UNCHANGED queue
    BY <2>4 DEF Parts
  <2>5. QED
    BY <1>1, <2>1, <2>2, <2>3, <2>4 DEF Dispatch, SeedHash, SeedPending
<1>8. WorkerPart'
  <2>1. NoWork \in [pc : {"idle", "dispatch", "seed", "arm"}, msg : Messages]
    BY Messages1 DEF NoWork
  <2>2. CASE worker' = [worker EXCEPT ![w] = NoWork]
    BY <2>1, <2>2 DEF Parts, WorkerPart
  <2>3. CASE \E pc \in {"seed", "arm"} : worker' = [worker EXCEPT ![w] = [@ EXCEPT !.pc = pc]]
    BY <1>4, <2>3 DEF Parts, WorkerPart
  <2>4. CASE \E m \in Messages : worker' = [worker EXCEPT ![w] = [pc |-> "dispatch", msg |-> m]]
    BY <2>4 DEF Parts, WorkerPart
  <2>5. CASE \E m \in BagToSet(queue) : Take(w, m)
    BY <2>2, <2>4, <2>5 DEF Take, Parts, QueueType
  <2>6. CASE Dispatch(w)
    BY <2>2, <2>3, <2>6 DEF Dispatch
  <2>7. CASE SeedHash(w)
    BY <2>3, <2>7 DEF SeedHash
  <2>8. QED
    BY <1>1, <2>2, <2>5, <2>6, <2>7 DEF EvaluateFails, SeedPending, WorkerCrash
<1>9. QED
  BY <1>3, <1>5, <1>6, <1>7, <1>8 DEF Parts

LEMMA SweepTypes ==
    ASSUME Parts, SweepNext
    PROVE  Parts'
<1>1. PICK s \in Sweepers :
        \/ AtomicClaim(s) \/ CheckAcknowledged(s) \/ Silenced(s) \/ NextLevel(s)
        \/ Exhausted(s) \/ NothingToDo(s) \/ PublishAdvance(s) \/ AdvanceFails(s)
        \/ EscalateState(s) \/ SweepCrash(s)
  BY DEF SweepNext
<1>2. /\ UNCHANGED <<row, stopped, sets, claim, manual, pub, sla, worker, requests>>
      /\ UNCHANGED faults \/ Fault
      /\ UNCHANGED pending \/ pending' = "waiting" \/ pending' = "absent"
  BY <1>1 DEF AtomicClaim, CheckAcknowledged, Silenced, NextLevel, Exhausted, NothingToDo,
     PublishAdvance, AdvanceFails, EscalateState, SweepCrash, esc, count
<1>3. RowPart' /\ PubPart' /\ WorkerPart' /\ CountPart' /\ KeyPart'
  BY <1>2, FaultCounts DEF Parts, RowPart, PubPart, WorkerPart, KeyPart, row, sets
<1>4. /\ sweep[s] \in [pc : {"idle", "check", "read", "publish", "state"},
                       level : 0 .. MaxLevel]
      /\ sweep[s].pc = "publish" => sweep[s].level # 0
      /\ hash.level \in 0 .. MaxLevel /\ hash.repeat \in 0 .. RepeatCount
  BY DEF Parts, SweepPart, HashPart
<1>5. HashPart'
  <2>1. \/ UNCHANGED hash
        \/ hash.repeat > 0 /\ hash' = [hash EXCEPT !.repeat = @ - 1]
        \/ hash' = [hash EXCEPT !.level = sweep[s].level]
    BY <1>1 DEF AtomicClaim, CheckAcknowledged, Silenced, NextLevel, Exhausted, NothingToDo,
       PublishAdvance, AdvanceFails, EscalateState, SweepCrash, esc
  <2>2. QED
    BY <1>4, <2>1, LevelBounds DEF Parts, HashPart
<1>6. QueueType(queue')
  <2>1. CASE PublishAdvance(s)
    <3> DEFINE m == [level |-> sweep[s].level, retry |-> 0]
    <3>1. m \in Messages
      BY <1>4, <2>1, EscalationBounds DEF PublishAdvance, Sweeping, Messages, Levels
    <3>2. queue' = queue (+) SetToBag({m})
      BY <2>1 DEF PublishAdvance, Send
    <3> HIDE DEF m
    <3>3. QED
      BY <3>1, <3>2, SendType DEF Parts
  <2>2. CASE UNCHANGED queue
    BY <2>2 DEF Parts
  <2>3. QED
    BY <1>1, <2>1, <2>2 DEF AtomicClaim, CheckAcknowledged, Silenced, NextLevel, Exhausted,
       NothingToDo, AdvanceFails, EscalateState, SweepCrash
<1>7. SweepPart'
  <2>1. ASSUME NEW v \in [pc : {"idle", "check", "read", "publish", "state"},
                          level : 0 .. MaxLevel],
               v.pc = "publish" => v.level # 0, sweep' = [sweep EXCEPT ![s] = v]
        PROVE  SweepPart'
    BY <2>1 DEF Parts, SweepPart
  <2>2. CASE Rest(s)
    <3>1. /\ NoSweep \in [pc : {"idle", "check", "read", "publish", "state"},
                          level : 0 .. MaxLevel]
          /\ NoSweep.pc = "idle"
      BY EscalationBounds DEF NoSweep
    <3>2. QED
      BY <2>1, <2>2, <3>1 DEF Rest
  <2>3. CASE \E pc \in {"check", "read", "state"} : sweep' = [sweep EXCEPT ![s].pc = pc]
    <3>1. PICK pc \in {"check", "read", "state"} : sweep' = [sweep EXCEPT ![s].pc = pc]
      BY <2>3
    <3> DEFINE v == [sweep[s] EXCEPT !.pc = pc]
    <3>2. /\ v \in [pc : {"idle", "check", "read", "publish", "state"}, level : 0 .. MaxLevel]
          /\ v.pc # "publish"
      BY <1>4, <3>1
    <3>3. sweep' = [sweep EXCEPT ![s] = v]
      BY <3>1 DEF Parts, SweepPart
    <3> HIDE DEF v
    <3>4. QED
      BY <2>1, <3>2, <3>3
  <2>4. CASE Silenced(s)
    BY <1>4, <2>1, <2>4 DEF Silenced
  <2>5. CASE NextLevel(s)
    <3>1. PICK l \in 1 .. MaxLevel :
             sweep' = [sweep EXCEPT ![s] = [pc |-> "publish", level |-> l]]
      BY <1>4, <2>5, EscalationBounds DEF NextLevel
    <3>2. QED
      BY <2>1, <3>1, LevelBounds
  <2>6. QED
    BY <1>1, <2>2, <2>3, <2>4, <2>5 DEF AtomicClaim, CheckAcknowledged, Exhausted,
       NothingToDo, PublishAdvance, AdvanceFails, EscalateState, SweepCrash
<1>8. QED
  BY <1>3, <1>5, <1>6, <1>7 DEF Parts

LEMMA TimeTypes ==
    ASSUME Parts, Time
    PROVE  Parts'
<1>1. UNCHANGED <<queue, procs, stopped, status, deleted, slaAck, slaRes, cancelSet>>
  BY DEF Time, PendingDue, SilenceEnds, KeyExpires, TargetPasses, row, sets
<1>2. QueueType(queue') /\ PubPart' /\ SweepPart' /\ WorkerPart'
  BY <1>1 DEF Parts, PubPart, SweepPart, WorkerPart, procs
<1>3. RowPart'
  <2>1. /\ respondDue' = respondDue \/ respondDue' = TRUE
        /\ resolveDue' = resolveDue \/ resolveDue' = TRUE
    BY DEF Time, PendingDue, SilenceEnds, KeyExpires, TargetPasses, row
  <2>2. QED
    BY <1>1, <2>1 DEF Parts, RowPart
<1>4. KeyPart'
  <2>1. /\ pending' = pending \/ pending' = "due"
        /\ claim' = claim \/ claim' = FALSE
        /\ manual' = manual \/ manual' = FALSE
        /\ breach' = breach \/ breach' = {}
    BY DEF Time, PendingDue, SilenceEnds, KeyExpires, TargetPasses, sets, esc
  <2>2. QED
    BY <1>1, <2>1 DEF Parts, KeyPart
<1>5. HashPart'
  <2>1. hash' = hash \/ hash' = NoHash \/ hash' = [hash EXCEPT !.silenced = FALSE]
    BY DEF Time, PendingDue, SilenceEnds, KeyExpires, TargetPasses, esc
  <2>2. QED
    BY <2>1, NoHashType DEF Parts, HashPart
<1>6. CountPart'
  <2>1. \/ requests' = requests /\ (UNCHANGED faults \/ Fault)
        \/ requests < MaxRequests /\ requests' = requests + 1 /\ UNCHANGED faults
    BY DEF Time, PendingDue, SilenceEnds, KeyExpires, TargetPasses, count
  <2>2. CASE requests < MaxRequests /\ requests' = requests + 1 /\ UNCHANGED faults
    BY <2>2, EscalationBounds DEF Parts, CountPart
  <2>3. QED
    BY <2>1, <2>2, FaultCounts DEF Parts
<1>7. QED
  BY <1>2, <1>3, <1>4, <1>5, <1>6 DEF Parts

LEMMA InitParts == Init => Parts
<1> SUFFICES ASSUME Init PROVE Parts
  OBVIOUS
<1>1. /\ status \in {"detected", "active", "resolved"} /\ deleted = FALSE
      /\ slaAck = (status # "detected") /\ slaRes = (status = "resolved")
      /\ respondDue = FALSE /\ resolveDue = FALSE /\ stopped = FALSE
      /\ breach = {} /\ cancelSet = FALSE /\ pending = "absent"
      /\ claim = FALSE /\ manual = FALSE /\ requests = 0 /\ faults = 0
      /\ hash = [NoHash EXCEPT !.ack = IF status = "resolved" THEN "1" ELSE ""]
  BY DEF Init
<1>2. RowPart /\ KeyPart /\ CountPart /\ HashPart
  <2>1. slaAck \in BOOLEAN /\ slaRes \in BOOLEAN
    BY <1>1
  <2>2. RowPart
    <3>1. status \in Statuses
      BY <1>1 DEF Statuses
    <3>2. deleted \in BOOLEAN /\ respondDue \in BOOLEAN /\ resolveDue \in BOOLEAN /\ stopped \in BOOLEAN
      BY <1>1
    <3>3. QED
      BY <2>1, <3>1, <3>2 DEF RowPart
  <2>3. KeyPart /\ CountPart
    <3>1. breach \subseteq {"response", "resolve"} /\ pending \in {"absent", "waiting", "due"}
      BY <1>1
    <3>2. cancelSet \in BOOLEAN /\ claim \in BOOLEAN /\ manual \in BOOLEAN
      BY <1>1
    <3>3. requests = 0 /\ faults = 0
      BY <1>1
    <3>4. CountPart
      BY <3>3, EscalationBounds DEF CountPart
    <3>5. QED
      BY <3>1, <3>2, <3>4 DEF KeyPart
  <2>4. HashPart
    <3>1. (IF status = "resolved" THEN "1" ELSE "") \in {"", "1"}
      OBVIOUS
    <3>2. QED
      BY <1>1, <3>1, NoHashType DEF HashPart
  <2>5. QED
    BY <2>2, <2>3, <2>4
<1>3. QueueType(queue)
  BY DEF Init, QueueType, EmptyBag, SetToBag, IsABag, BagToSet
<1>4. PubPart
  <2>1. \A p \in Publishers :
           (IF p = "ic" /\ status # "resolved" THEN "created" ELSE "idle") \in {"created", "idle"}
    OBVIOUS
  <2>2. pub \in [Publishers -> {"created", "idle", "preflight", "claim", "publish"}]
    BY <2>1 DEF Init
  <2>3. sla = [pc |-> "idle", response |-> FALSE, resolve |-> FALSE]
    BY DEF Init
  <2>4. QED
    BY <2>2, <2>3 DEF PubPart
<1>5. SweepPart
  BY LevelBounds DEF Init, SweepPart, NoSweep
<1>6. WorkerPart
  BY Messages1 DEF Init, WorkerPart, NoWork
<1>7. QED
  BY <1>1, <1>2, <1>3, <1>4, <1>5, <1>6 DEF Parts

LEMMA AlwaysParts == Spec => []Parts
<1>1. Parts /\ IInv /\ [Next]_vars => Parts'
  <2>1. ASSUME Parts, UNCHANGED vars PROVE Parts'
    <3> USE <2>1 DEF vars, row, sets, esc, procs, count, Parts
    <3>1. RowPart' /\ KeyPart' /\ CountPart'
      BY DEF RowPart, KeyPart, CountPart
    <3>2. HashPart' /\ QueueType(queue')
      BY DEF HashPart
    <3>3. PubPart' /\ SweepPart' /\ WorkerPart'
      BY DEF PubPart, SweepPart, WorkerPart
    <3>4. QED
      BY <3>1, <3>2, <3>3
  <2>2. QED
    BY <2>1, CallerTypes, PublisherTypes, WorkerTypes, SweepTypes, TimeTypes DEF Next
<1>2. QED
  BY <1>1, InitParts, AlwaysIInv, PTL DEF Spec

\* The incident row, the hash and the keys, the queue and the processes hold
\* only what the handlers and workers write: levels of the policy above all.
THEOREM EscalationTypes == Spec => []TypeOK
<1>1. Parts /\ IInv => TypeOK
  BY PartsAreTypes DEF IInv
<1>2. QED
  BY <1>1, AlwaysParts, AlwaysIInv, PTL

-----------------------------------------------------------------------------
(* What waits for a sweep knows its level. *)

\* The ladder is armed, about to be, or in the hands of a sweep.
UnderWay ==
    \/ pending # "absent"
    \/ \E s \in Sweepers : ~Sweeping(s, "idle")
    \/ \E w \in Workers : worker[w].pc = "arm"

\* Unless something failed, an escalation under way has a level in the hash: the
\* entry, claimed before the hash is read, is never dropped by NothingToDo.
EntryHasLevel == UnderWay => hash.level # 0 \/ faults > 0

\* The level a sweep is going to write is one.
WrittenLevels ==
    \A s \in Sweepers :
        Sweeping(s, "publish") \/ Sweeping(s, "state") => sweep[s].level # 0

LevelInv == EntryHasLevel /\ WrittenLevels

\* The step leaves a level in the hash, or is a failure.
KeepsLevel == (hash.level # 0 => hash'.level # 0) \/ faults' > 0

LEMMA FaultShows ==
    ASSUME Parts, UNCHANGED faults \/ Fault
    PROVE  /\ faults > 0 => faults' > 0
           /\ Fault => faults' > 0
  BY DEF Parts, CountPart, Fault

LEMMA LevelStays ==
    ASSUME Parts, LevelInv, UNCHANGED faults \/ Fault, KeepsLevel,
           UnderWay' => UnderWay, WrittenLevels'
    PROVE  LevelInv'
  BY FaultShows DEF LevelInv, EntryHasLevel, KeepsLevel

LEMMA CallerLevel ==
    ASSUME Parts, LevelInv, CallerNext
    PROVE  LevelInv'
<1>1. UNCHANGED <<sweep, worker>> /\ (UNCHANGED faults \/ Fault)
  BY DEF CallerNext, Request, Transition, MarkAcknowledged, RemovePending, DeleteIncident,
     ClearSLAResolvedAt, ClearBreachDedupKeys, SetPriority, Silence, EscalateLimit,
     EscalatePublish, count
<1>2. pending' = pending \/ pending' = "absent"
  BY DEF CallerNext, Request, Transition, MarkAcknowledged, RemovePending, DeleteIncident,
     ClearSLAResolvedAt, ClearBreachDedupKeys, SetPriority, Silence, EscalateLimit,
     EscalatePublish, esc
<1>3. hash' = hash \/ hash' = [hash EXCEPT !.ack = "1"] \/ hash' = [hash EXCEPT !.silenced = TRUE]
  BY DEF CallerNext, Request, Transition, MarkAcknowledged, RemovePending, DeleteIncident,
     ClearSLAResolvedAt, ClearBreachDedupKeys, SetPriority, Silence, EscalateLimit,
     EscalatePublish, esc
<1>4. KeepsLevel
  BY <1>3 DEF KeepsLevel, Parts, HashPart
<1>5. (UnderWay' => UnderWay) /\ WrittenLevels'
  BY <1>1, <1>2 DEF UnderWay, WrittenLevels, LevelInv, Sweeping
<1>6. QED
  BY <1>1, <1>4, <1>5, LevelStays

LEMMA PublisherLevel ==
    ASSUME Parts, LevelInv, PublisherNext
    PROVE  LevelInv'
<1>1. UNCHANGED <<sweep, worker, pending>> /\ (UNCHANGED faults \/ Fault)
  BY DEF PublisherNext, Found, SLAList, SLAResponse, SLAResolve, Preflight, Claim,
     Publish, esc, count
<1>2. hash' = hash \/ hash' = [hash EXCEPT !.level = 1]
  BY DEF PublisherNext, Found, SLAList, SLAResponse, SLAResolve, Preflight, Claim,
     Publish, esc
<1>3. KeepsLevel
  <2>1. ASSUME hash' = [hash EXCEPT !.level = 1] PROVE hash'.level = 1
    BY <2>1 DEF Parts, HashPart
  <2>2. QED
    BY <1>2, <2>1 DEF KeepsLevel
<1>4. (UnderWay' => UnderWay) /\ WrittenLevels'
  BY <1>1 DEF UnderWay, WrittenLevels, LevelInv, Sweeping
<1>5. QED
  BY <1>1, <1>3, <1>4, LevelStays

LEMMA WorkerLevel ==
    ASSUME Parts, LevelInv, WorkerNext
    PROVE  LevelInv'
<1>1. PICK w \in Workers :
        \/ \E m \in BagToSet(queue) : Take(w, m)
        \/ Dispatch(w) \/ EvaluateFails(w) \/ SeedHash(w) \/ SeedPending(w)
        \/ WorkerCrash(w)
  BY DEF WorkerNext
<1>2. UNCHANGED sweep /\ (UNCHANGED faults \/ Fault) /\ WrittenLevels'
  BY <1>1 DEF Take, Dispatch, EvaluateFails, SeedHash, SeedPending, WorkerCrash, count,
     LevelInv, WrittenLevels, Sweeping
<1>3. CASE SeedHash(w)
  BY <1>2, <1>3 DEF SeedHash, LevelInv, EntryHasLevel
<1>4. CASE SeedPending(w)
  <2>1. UnderWay /\ UNCHANGED <<hash, faults>>
    BY <1>4 DEF SeedPending, UnderWay, count
  <2>2. QED
    BY <1>2, <2>1 DEF LevelInv, EntryHasLevel
<1>5. CASE ~SeedHash(w) /\ ~SeedPending(w)
  <2>1. UNCHANGED <<hash, pending>>
    BY <1>1, <1>5 DEF Take, Dispatch, EvaluateFails, WorkerCrash, esc
  <2>2. PICK v : v.pc # "arm" /\ worker' = [worker EXCEPT ![w] = v]
    <3>1. CASE Dispatch(w) /\ worker[w].msg.level = 1
      <4> DEFINE v == [worker[w] EXCEPT !.pc = "seed"]
      <4>1. v.pc = "seed"
        BY DEF Parts, WorkerPart
      <4>2. worker' = [worker EXCEPT ![w] = v]
        BY <3>1 DEF Dispatch, Parts, WorkerPart
      <4>3. QED
        BY <4>1, <4>2
    <3>2. CASE ~(Dispatch(w) /\ worker[w].msg.level = 1)
      BY <1>1, <1>5, <3>2 DEF Take, Dispatch, EvaluateFails, WorkerCrash, NoWork
    <3>3. QED
      BY <3>1, <3>2
  <2>3. UnderWay' => UnderWay
    BY <1>2, <2>1, <2>2 DEF UnderWay, Sweeping, Parts, WorkerPart
  <2>4. QED
    BY <1>2, <2>1, <2>3, LevelStays DEF KeepsLevel
<1>6. QED
  BY <1>3, <1>4, <1>5

LEMMA SweepLevel ==
    ASSUME Parts, LevelInv, SweepNext
    PROVE  LevelInv'
<1>1. PICK s \in Sweepers :
        \/ AtomicClaim(s) \/ CheckAcknowledged(s) \/ Silenced(s) \/ NextLevel(s)
        \/ Exhausted(s) \/ NothingToDo(s) \/ PublishAdvance(s) \/ AdvanceFails(s)
        \/ EscalateState(s) \/ SweepCrash(s)
  BY DEF SweepNext
<1>2. UNCHANGED worker /\ (UNCHANGED faults \/ Fault)
  BY <1>1 DEF AtomicClaim, CheckAcknowledged, Silenced, NextLevel, Exhausted, NothingToDo,
     PublishAdvance, AdvanceFails, EscalateState, SweepCrash, count
<1>3. UnderWay
  BY <1>1 DEF AtomicClaim, CheckAcknowledged, Silenced, NextLevel, Exhausted, NothingToDo,
     PublishAdvance, AdvanceFails, EscalateState, SweepCrash, UnderWay, Sweeping
<1>4. KeepsLevel
  <2>1. \/ hash' = hash
        \/ hash' = [hash EXCEPT !.repeat = @ - 1]
        \/ Sweeping(s, "state") /\ hash' = [hash EXCEPT !.level = sweep[s].level]
    BY <1>1 DEF AtomicClaim, CheckAcknowledged, Silenced, NextLevel, Exhausted, NothingToDo,
       PublishAdvance, AdvanceFails, EscalateState, SweepCrash, esc
  <2>2. QED
    BY <2>1 DEF KeepsLevel, LevelInv, WrittenLevels, Parts, HashPart
<1>5. WrittenLevels'
  <2>1. ASSUME NEW v, v.pc \in {"publish", "state"} => v.level # 0,
               sweep' = [sweep EXCEPT ![s] = v]
        PROVE  WrittenLevels'
    BY <2>1 DEF LevelInv, WrittenLevels, Sweeping, Parts, SweepPart
  <2>2. CASE Rest(s)
    BY <2>1, <2>2 DEF Rest, NoSweep
  <2>3. CASE AtomicClaim(s) \/ (CheckAcknowledged(s) /\ ~Rest(s))
    <3>1. PICK pc \in {"check", "read"} : sweep' = [sweep EXCEPT ![s].pc = pc]
      BY <2>3 DEF AtomicClaim, CheckAcknowledged
    <3> DEFINE v == [sweep[s] EXCEPT !.pc = pc]
    <3>2. v.pc = pc /\ sweep' = [sweep EXCEPT ![s] = v]
      BY <3>1 DEF Parts, SweepPart
    <3> HIDE DEF v
    <3>3. QED
      BY <2>1, <3>2
  <2>4. CASE PublishAdvance(s)
    <3> DEFINE v == [sweep[s] EXCEPT !.pc = "state"]
    <3>1. v.level # 0 /\ sweep' = [sweep EXCEPT ![s] = v]
      BY <2>4 DEF PublishAdvance, LevelInv, WrittenLevels, Parts, SweepPart
    <3> HIDE DEF v
    <3>2. QED
      BY <2>1, <3>1
  <2>5. CASE Silenced(s)
    BY <2>1, <2>5 DEF Silenced
  <2>6. CASE NextLevel(s)
    <3>1. hash.level + 1 # 0
      <4>1. hash.level \in 0 .. MaxLevel /\ MaxLevel \in Nat
        BY EscalationBounds DEF Parts, HashPart
      <4>2. QED
        BY <4>1
    <3>2. PICK l : l # 0 /\ sweep' = [sweep EXCEPT ![s] = [pc |-> "publish", level |-> l]]
      BY <2>6, <3>1 DEF NextLevel
    <3>3. QED
      BY <2>1, <3>2
  <2>7. QED
    BY <1>1, <2>2, <2>3, <2>4, <2>5, <2>6 DEF Exhausted, NothingToDo, AdvanceFails,
       EscalateState, SweepCrash
<1>6. QED
  BY <1>2, <1>3, <1>4, <1>5, FaultShows DEF LevelInv, EntryHasLevel, KeepsLevel

LEMMA TimeLevel ==
    ASSUME Parts, LevelInv, Time
    PROVE  LevelInv'
<1>1. UNCHANGED <<sweep, worker>> /\ (UNCHANGED faults \/ Fault)
  BY DEF Time, PendingDue, SilenceEnds, KeyExpires, TargetPasses, procs, count
<1>2. (pending' # "absent" => pending # "absent") /\ WrittenLevels'
  BY <1>1 DEF Time, PendingDue, SilenceEnds, KeyExpires, TargetPasses, esc, LevelInv,
     WrittenLevels, Sweeping
<1>3. hash' = hash \/ hash' = [hash EXCEPT !.silenced = FALSE] \/ Fault
  BY DEF Time, PendingDue, SilenceEnds, KeyExpires, TargetPasses, esc
<1>4. KeepsLevel
  BY <1>1, <1>3, FaultShows DEF KeepsLevel, Parts, HashPart
<1>5. UnderWay' => UnderWay
  BY <1>1, <1>2 DEF UnderWay, Sweeping
<1>6. QED
  BY <1>1, <1>2, <1>4, <1>5, LevelStays

\* No publisher, worker or sweep arms an escalation without a level, and none
\* takes the level from one that is armed: seedLevel1State writes the hash
\* before the sorted set, and escalateLua writes both.
THEOREM EntryAlwaysHasLevel == Spec => []EntryHasLevel
<1>1. Init => LevelInv
  <2> SUFFICES ASSUME Init PROVE LevelInv
    OBVIOUS
  <2>1. /\ \A s \in Sweepers : sweep[s].pc = "idle"
        /\ \A w \in Workers : worker[w].pc = "idle"
        /\ pending = "absent"
    BY DEF Init, NoSweep, NoWork
  <2>2. QED
    BY <2>1 DEF LevelInv, EntryHasLevel, UnderWay, WrittenLevels, Sweeping
<1>2. Parts /\ LevelInv /\ [Next]_vars => LevelInv'
  <2>1. ASSUME LevelInv, UNCHANGED vars PROVE LevelInv'
    BY <2>1 DEF vars, esc, procs, count, LevelInv, EntryHasLevel, UnderWay, WrittenLevels,
       Sweeping
  <2>2. QED
    BY <2>1, CallerLevel, PublisherLevel, WorkerLevel, SweepLevel, TimeLevel DEF Next
<1>3. Spec => []Parts
  BY AlwaysParts
<1>4. LevelInv => EntryHasLevel
  BY DEF LevelInv
<1>5. QED
  BY <1>1, <1>2, <1>3, <1>4, PTL DEF Spec
=============================================================================
