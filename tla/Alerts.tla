------------------------------- MODULE Alerts -------------------------------
(***************************************************************************)
(* The alerts of one fingerprint.  Monitoring notifications (firing and    *)
(* resolved), operators, triage, the retention purge and the investigate   *)
(* worker act on the alert rows concurrently.  A store operation reads a   *)
(* row and then updates it by id, the dedup key and the cancel set live in *)
(* Valkey, and the database and the chat providers may fail between any    *)
(* two steps of a handler.                                                 *)
(***************************************************************************)
EXTENDS Integers, FiniteSets

CONSTANTS Threads,    \* handlers running at the same time
          Ops,        \* requests they may serve
          MaxAlerts,  \* bound: alert numbers
          MaxOps,     \* bound: requests
          MaxFaults   \* bound: failed commands

AllOps == {"firing", "manual", "resolved", "acknowledge", "resolve", "reopen",
           "delete", "silence", "purge", "investigate"}

ASSUME AlertsThreads == IsFiniteSet(Threads)
ASSUME AlertsOps == Ops \subseteq AllOps
ASSUME AlertsBounds == MaxAlerts \in Nat \ {0} /\ MaxOps \in Nat /\ MaxFaults \in Nat

VARIABLES
    st,        \* st[n]: status of alert n
    ack, sil, del,   \* acknowledged, silenced, deleted_at set
    targets,   \* targets[n]: alert whose chat posts the delivery targets of n are, 0: none
    recent,    \* the row updated last (ORDER BY updated_at DESC)
    tracked,   \* alga:dedup:<fingerprint>
    cancel,    \* alert numbers in the cancel set
    inv,       \* inv[n]: investigation of alert n
    th,        \* th[w]: [op, pc, n, t] the request a thread serves, its alert, the row it selected
    seen,      \* history: seen[w]: an alert was open at some time since w began
    events,    \* history: "resolved" entries written to the timeline of n
    closings,  \* history: transitions of n into resolved
    ops, faults

rows == <<st, ack, sil, del, targets, recent>>
valkey == <<tracked, cancel>>
log == <<events, closings>>
count == <<ops, faults>>
vars == <<rows, valkey, inv, th, seen, log, count>>

Numbers == 1 .. MaxAlerts
Idle == [op |-> "none", pc |-> "idle", n |-> 0, t |-> 0]

Open == {n \in Numbers : st[n] = "firing" /\ ~del[n]}
Unused == {n \in Numbers : st[n] = "none"}
NextNumber == {n \in Unused : \A k \in Unused : n <= k}

At(w, op, pc) == th[w].op \in op /\ th[w].pc = pc
Goto(w, pc) == th' = [th EXCEPT ![w].pc = pc]
With(w, pc, n) == th' = [th EXCEPT ![w].pc = pc, ![w].n = n]
End(w) == th' = [th EXCEPT ![w] = Idle]
Fault == faults < MaxFaults /\ faults' = faults + 1
Fine == UNCHANGED faults

Init ==
    /\ st = [n \in Numbers |-> "none"]
    /\ ack = [n \in Numbers |-> FALSE]
    /\ sil = [n \in Numbers |-> FALSE]
    /\ del = [n \in Numbers |-> FALSE]
    /\ targets = [n \in Numbers |-> 0]
    /\ recent = 0
    /\ tracked = FALSE /\ cancel = {}
    /\ inv = [n \in Numbers |-> "none"]
    /\ th = [w \in Threads |-> Idle]
    /\ seen = [w \in Threads |-> FALSE]
    /\ events = [n \in Numbers |-> 0]
    /\ closings = [n \in Numbers |-> 0]
    /\ ops = 0 /\ faults = 0

-----------------------------------------------------------------------------
(* Store operations *)

\* INSERT: the index alerts_fingerprint admits one open row.
Insertable(status) == Unused # {} /\ (status = "firing" => Open = {})

Insert(n, status, silenced) ==
    /\ st' = [st EXCEPT ![n] = status]
    /\ sil' = [sil EXCEPT ![n] = silenced]
    /\ recent' = n
    /\ UNCHANGED <<ack, del, targets>>

\* Mutant of Resolve: silencing is written as a status of its own.
ResolveAsSilenced(n, silenced) ==
    /\ st' = [st EXCEPT ![n] = IF silenced THEN "silenced" ELSE "resolved"]
    /\ recent' = n
    /\ closings' = [closings EXCEPT ![n] = @ + 1]
    /\ UNCHANGED <<ack, sil, del, targets, events>>

\* UPDATE ... SET status = 'resolved' WHERE id = n AND status != 'resolved'.
Resolve(n, silenced) ==
    IF st[n] = "firing"
    THEN /\ st' = [st EXCEPT ![n] = "resolved"]
         /\ sil' = [sil EXCEPT ![n] = @ \/ silenced]
         /\ recent' = n
         /\ closings' = [closings EXCEPT ![n] = @ + 1]
         /\ UNCHANGED <<ack, del, targets, events>>
    ELSE UNCHANGED <<rows, log>>

\* Mutant of Reopenable: no index.
ReopenableAlways(n) == TRUE

\* UPDATE ... SET status = 'firing' ... WHERE id = n, without a guard but
\* refused by the index when another row is open.
Reopenable(n) == del[n] \/ Open \subseteq {n}

ReopenRow(n) ==
    IF st[n] = "purged" THEN UNCHANGED rows
    ELSE /\ st' = [st EXCEPT ![n] = "firing"]
         /\ ack' = [ack EXCEPT ![n] = FALSE]
         /\ sil' = [sil EXCEPT ![n] = FALSE]
         /\ recent' = n
         /\ UNCHANGED <<del, targets>>

-----------------------------------------------------------------------------
(* Requests *)

First(op) ==
    CASE op = "firing" -> "dedup"
      [] op \in {"manual", "resolved"} -> "lookup"
      [] op \in {"acknowledge", "resolve", "reopen", "silence"} -> "select"
      [] op = "delete" -> "find"
      [] op = "purge" -> "list"
      [] op = "investigate" -> "check"

\* A request or a delivery arrives; number is the alert it names, where it does.
Start(w) ==
    \E op \in Ops, n \in Numbers :
        /\ th[w] = Idle /\ ops < MaxOps
        /\ op \in {"firing", "manual", "resolved"} => n = 1
        /\ op \in {"acknowledge", "resolve", "reopen", "silence", "delete", "purge"} => st[n] # "none"
        /\ op = "investigate" => inv[n] = "queued"
        /\ th' = [th EXCEPT ![w] = [op |-> op, pc |-> First(op), n |-> n, t |-> 0]]
        /\ ops' = ops + 1
        /\ Fine
        /\ UNCHANGED <<rows, valkey, inv, log>>

\* A step of a handler, or the read of the alert between two steps, fails and
\* the handler returns, or its process dies.
Abort(w) ==
    /\ th[w] # Idle
    /\ Fault
    /\ End(w)
    /\ UNCHANGED <<rows, valkey, inv, log, ops>>

AfterTrack(w) ==
    IF th[w].op = "reopen" THEN Goto(w, "relink")
    ELSE IF sil[th[w].n] THEN End(w) ELSE Goto(w, "targets")

\* A command whose error is only logged fails and the handler goes on.
Skip(w) ==
    /\ \/ th[w].pc = "track" /\ AfterTrack(w)
       \/ th[w].pc = "create" /\ th[w].op = "firing" /\ With(w, "trigger", 0)
       \/ th[w].pc = "targets" /\ Goto(w, "trigger")
       \/ th[w].pc = "entry" /\ Goto(w, "untrack")
       \/ th[w].pc = "untrack" /\ Goto(w, "chat")
       \/ th[w].pc = "chat" /\ th[w].op = "resolved" /\ End(w)
       \/ th[w].pc = "cancel" /\ Goto(w, "untrack")
    /\ Fault
    /\ UNCHANGED <<rows, valkey, inv, log, ops>>

\* ProcessAlerts: the dedup key is there, or not.
IsDuplicate(w) ==
    /\ At(w, {"firing"}, "dedup")
    /\ Goto(w, IF tracked THEN "verify" ELSE "lookup")
    /\ Fine /\ UNCHANGED <<rows, valkey, inv, log, ops>>

\* Mutant of VerifyDuplicate: the key is believed.
VerifyDuplicateTrusts(w) ==
    /\ At(w, {"firing"}, "verify")
    /\ End(w)
    /\ Fine /\ UNCHANGED <<rows, valkey, inv, log, ops>>

\* ... it is believed only if the store has an open alert.
VerifyDuplicate(w) ==
    /\ At(w, {"firing"}, "verify")
    /\ IF Open # {} THEN End(w) ELSE Goto(w, "lookup")
    /\ Fine /\ UNCHANGED <<rows, valkey, inv, log, ops>>

\* GetOpenByFingerprint, of ProcessAlerts and IngestManualAlert.
LookupOpen(w) ==
    /\ At(w, {"firing", "manual", "resolved"}, "lookup")
    /\ IF Open = {}
       THEN Goto(w, IF th[w].op = "resolved" THEN "latest" ELSE "create")
       ELSE IF th[w].op # "resolved" THEN End(w)
       ELSE \E n \in Open : With(w, "select", n)
    /\ Fine /\ UNCHANGED <<rows, valkey, inv, log, ops>>

\* handleFiring, IngestManualAlert: Create, silenced by a maintenance window
\* or a route, or not; a refused insert triggers the correlator with number 0.
CreateFiring(w) ==
    /\ At(w, {"firing", "manual"}, "create")
    /\ IF Insertable("firing")
       THEN \E n \in NextNumber, silenced \in BOOLEAN :
                /\ Insert(n, "firing", silenced)
                /\ With(w, "track", n)
       ELSE /\ IF th[w].op = "manual" THEN End(w) ELSE With(w, "trigger", 0)
            /\ UNCHANGED rows
    /\ Fine /\ UNCHANGED <<valkey, inv, log, ops>>

MarkTracked(w) ==
    /\ th[w].pc = "track"
    /\ tracked' = TRUE
    /\ AfterTrack(w)
    /\ Fine /\ UNCHANGED <<rows, cancel, inv, log, ops>>

\* The posts are sent; UpdateDeliveryTargets finds the open alert of the
\* fingerprint, whichever that is by now.
UpdateDeliveryTargets(w) ==
    /\ th[w].pc = "targets"
    /\ IF Open = {} THEN UNCHANGED rows
       ELSE \E n \in Open : /\ targets' = [targets EXCEPT ![n] = th[w].n]
                            /\ recent' = n
                            /\ UNCHANGED <<st, ack, sil, del>>
    /\ IF th[w].op = "resolved" THEN End(w) ELSE Goto(w, "trigger")
    /\ Fine /\ UNCHANGED <<valkey, inv, log, ops>>

\* triggerCorrelator: the alert is on its way to an investigation.
TriggerCorrelator(w) ==
    /\ th[w].pc = "trigger"
    /\ End(w)
    /\ IF th[w].n # 0 /\ inv[th[w].n] = "none"
       THEN inv' = [inv EXCEPT ![th[w].n] = "queued"]
       ELSE UNCHANGED inv
    /\ Fine /\ UNCHANGED <<rows, valkey, log, ops>>

\* handleResolved without an open alert: a replay, or a row of its own.
ResolvedUnknown(w) ==
    /\ At(w, {"resolved"}, "latest")
    /\ IF recent # 0 /\ st[recent] = "resolved" THEN End(w) ELSE Goto(w, "insert")
    /\ Fine /\ UNCHANGED <<rows, valkey, inv, log, ops>>

CreateResolved(w) ==
    /\ At(w, {"resolved"}, "insert")
    /\ IF Insertable("resolved")
       THEN \E n \in NextNumber, silenced \in BOOLEAN :
                /\ Insert(n, "resolved", silenced)
                /\ IF silenced THEN End(w) ELSE With(w, "targets", n)
       ELSE End(w) /\ UNCHANGED rows
    /\ Fine /\ UNCHANGED <<valkey, inv, log, ops>>

\* The SELECT of a store operation: by fingerprint the open alert, whichever
\* that is by now, by number the named one.
SelectAlert(w) ==
    LET op == th[w].op
        found == IF op = "reopen" THEN {n \in {th[w].n} : st[n] = "resolved" /\ ~del[n]}
                 ELSE IF op \in {"acknowledge", "resolve"} THEN Open \cap {th[w].n}
                 ELSE Open
    IN
    /\ th[w].pc = "select"
    /\ IF found = {} THEN End(w)
       ELSE \E n \in found : th' = [th EXCEPT ![w].pc = "write", ![w].t = n]
    /\ Fine /\ UNCHANGED <<rows, valkey, inv, log, ops>>

\* Mutant of WriteResolved: a timeline entry whether or not a row was changed.
WriteResolvedAnyway(w) ==
    /\ At(w, {"resolved", "resolve", "silence"}, "write")
    /\ Resolve(th[w].t, FALSE)
    /\ Goto(w, "entry")
    /\ Fine /\ UNCHANGED <<valkey, inv, ops>>

\* UpdateStatus, UpdateStatusSilenced, ResolveAlertByNumber: when the UPDATE
\* changed the row, its timeline entry comes next.
WriteResolved(w) ==
    /\ At(w, {"resolved", "resolve", "silence"}, "write")
    /\ \E silenced \in (IF th[w].op = "resolve" THEN {FALSE} ELSE BOOLEAN) :
            Resolve(th[w].t, silenced)
    /\ Goto(w, IF st[th[w].t] = "firing" THEN "entry" ELSE "untrack")
    /\ Fine /\ UNCHANGED <<valkey, inv, ops>>

\* insertAlertEvent, a statement of its own; the entry of a row that is purged
\* by now is refused.  Its errors are only logged (Skip).
InsertEvent(w) ==
    LET n == th[w].t IN
    /\ th[w].pc = "entry"
    /\ events' = [events EXCEPT ![n] = IF st[n] = "purged" THEN @ ELSE @ + 1]
    /\ Goto(w, "untrack")
    /\ Fine /\ UNCHANGED <<rows, valkey, inv, closings, ops>>

\* AcknowledgeAlertByNumber
WriteAcknowledged(w) ==
    /\ At(w, {"acknowledge"}, "write")
    /\ ack' = [ack EXCEPT ![th[w].t] = @ \/ st[th[w].t] # "purged"]
    /\ recent' = IF ack[th[w].t] THEN recent ELSE th[w].t
    /\ End(w)
    /\ Fine /\ UNCHANGED <<st, sil, del, targets, valkey, inv, log, ops>>

\* ReopenAlertByNumber
WriteReopened(w) ==
    /\ At(w, {"reopen"}, "write")
    /\ IF Reopenable(th[w].t) THEN ReopenRow(th[w].t) /\ Goto(w, "track")
                              ELSE End(w) /\ UNCHANGED rows
    /\ Fine /\ UNCHANGED <<valkey, inv, log, ops>>

\* reopenLinkedInvestigations: the alert is acknowledged, a finished
\* investigation goes back to work.
ReopenLinked(w) ==
    LET n == th[w].n IN
    /\ At(w, {"reopen"}, "relink")
    /\ IF inv[n] = "complete"
       THEN /\ inv' = [inv EXCEPT ![n] = "open"]
            /\ ack' = [ack EXCEPT ![n] = @ \/ n \in Open]
       ELSE UNCHANGED <<inv, ack>>
    /\ End(w)
    /\ Fine /\ UNCHANGED <<st, sil, del, targets, recent, valkey, log, ops>>

\* RemoveTracking
RemoveTracking(w) ==
    /\ th[w].pc = "untrack"
    /\ tracked' = FALSE
    /\ IF th[w].op = "delete" THEN End(w) ELSE Goto(w, "chat")
    /\ Fine /\ UNCHANGED <<rows, cancel, inv, log, ops>>

\* updateAllAlertTargets succeeds.
UpdateChatPosts(w) ==
    /\ th[w].pc = "chat"
    /\ Goto(w, "complete")
    /\ Fine /\ UNCHANGED <<rows, valkey, inv, log, ops>>

\* CompleteIfAllAlertsResolved: the alerts are read ...
CompleteRead(w) ==
    /\ th[w].pc = "complete"
    /\ IF st[th[w].n] = "resolved" /\ inv[th[w].n] = "open" THEN Goto(w, "close") ELSE End(w)
    /\ Fine /\ UNCHANGED <<rows, valkey, inv, log, ops>>

\* ... and then the investigation is completed.
CompleteWrite(w) ==
    /\ th[w].pc = "close"
    /\ inv' = [inv EXCEPT ![th[w].n] = IF @ = "open" THEN "complete" ELSE @]
    /\ End(w)
    /\ Fine /\ UNCHANGED <<rows, valkey, log, ops>>

-----------------------------------------------------------------------------
(* Deletion, retention and the investigate worker *)

\* GetByAlertNumber, and the SELECT of DeleteAlertByNumber ...
FindAlert(w) ==
    /\ At(w, {"delete"}, "find")
    /\ IF st[th[w].n] = "purged" \/ del[th[w].n] THEN End(w) ELSE Goto(w, "erase")
    /\ Fine /\ UNCHANGED <<rows, valkey, inv, log, ops>>

\* ... and its transaction, by id: others may have deleted or purged the row.
DeleteAlert(w) ==
    LET n == th[w].n IN
    /\ At(w, {"delete"}, "erase")
    /\ IF st[n] = "purged"
       THEN UNCHANGED rows
       ELSE /\ del' = [del EXCEPT ![n] = TRUE]
            /\ recent' = n
            /\ targets' = [targets EXCEPT ![n] = 0]
            /\ UNCHANGED <<st, ack, sil>>
    /\ inv' = [inv EXCEPT ![n] = IF @ \in {"open", "complete"} THEN "gone" ELSE @]
    /\ Goto(w, "cancel")
    /\ Fine /\ UNCHANGED <<valkey, log, ops>>

\* onAlertDeleted
AddCancel(w) ==
    /\ At(w, {"delete"}, "cancel")
    /\ cancel' = cancel \cup {th[w].n}
    /\ Goto(w, "untrack")
    /\ Fine /\ UNCHANGED <<rows, tracked, inv, log, ops>>

\* DeleteOlderThan: the resolved rows are listed ...
PurgeList(w) ==
    /\ At(w, {"purge"}, "list")
    /\ IF st[th[w].n] = "resolved" THEN Goto(w, "purge") ELSE End(w)
    /\ Fine /\ UNCHANGED <<rows, valkey, inv, log, ops>>

\* ... and each is removed by id.
PurgeRow(w) ==
    LET n == th[w].n IN
    /\ At(w, {"purge"}, "purge")
    /\ st' = [st EXCEPT ![n] = "purged"]
    /\ recent' = IF recent = n THEN 0 ELSE recent
    /\ targets' = [targets EXCEPT ![n] = 0]
    /\ inv' = [inv EXCEPT ![n] = IF @ \in {"open", "complete"} THEN "gone" ELSE @]
    /\ End(w)
    /\ Fine /\ UNCHANGED <<ack, sil, del, valkey, log, ops>>

\* AlertCancelled by number: the cancel set, then GetByAlertNumber, which does
\* not return a deleted row and so can not report one.
AlertCancelled(n) == n \in cancel

CheckCancelled(w) ==
    /\ At(w, {"investigate"}, "check")
    /\ IF AlertCancelled(th[w].n)
       THEN /\ inv' = [inv EXCEPT ![th[w].n] = IF @ = "queued" THEN "gone" ELSE @]
            /\ End(w)
       ELSE Goto(w, "create") /\ UNCHANGED inv
    /\ Fine /\ UNCHANGED <<rows, valkey, log, ops>>

CreateInvestigation(w) ==
    /\ At(w, {"investigate"}, "create")
    /\ inv' = [inv EXCEPT ![th[w].n] = IF @ = "queued" THEN "open" ELSE @]
    /\ End(w)
    /\ Fine /\ UNCHANGED <<rows, valkey, log, ops>>

\* TTLs
DedupExpires ==
    /\ tracked /\ tracked' = FALSE
    /\ Fine /\ UNCHANGED <<rows, cancel, inv, th, log, ops>>

CancelExpires ==
    /\ cancel # {} /\ cancel' = {}
    /\ Fine /\ UNCHANGED <<rows, tracked, inv, th, log, ops>>

-----------------------------------------------------------------------------
Intake(w) ==
    \/ IsDuplicate(w) \/ VerifyDuplicate(w) \/ LookupOpen(w) \/ CreateFiring(w)
    \/ MarkTracked(w) \/ UpdateDeliveryTargets(w) \/ TriggerCorrelator(w)
    \/ ResolvedUnknown(w) \/ CreateResolved(w)

Change(w) ==
    \/ SelectAlert(w) \/ WriteResolved(w) \/ InsertEvent(w)
    \/ WriteAcknowledged(w) \/ WriteReopened(w)
    \/ ReopenLinked(w) \/ RemoveTracking(w) \/ UpdateChatPosts(w)
    \/ CompleteRead(w) \/ CompleteWrite(w)

Removal(w) ==
    \/ FindAlert(w) \/ DeleteAlert(w) \/ AddCancel(w) \/ PurgeList(w) \/ PurgeRow(w)
    \/ CheckCancelled(w) \/ CreateInvestigation(w)

Steps ==
    \/ \E w \in Threads : Start(w) \/ Abort(w) \/ Skip(w) \/ Intake(w) \/ Change(w) \/ Removal(w)
    \/ DedupExpires \/ CancelExpires

Remember ==
    seen' = [w \in Threads |->
                th'[w] # Idle /\ ((th[w] # Idle /\ seen[w]) \/ Open # {} \/ Open' # {})]

Next == Steps /\ Remember

Spec == Init /\ [][Next]_vars

-----------------------------------------------------------------------------
(* Properties *)

\* Types of the rows, the Valkey keys and the requests.
TypeOK ==
    /\ st \in [Numbers -> {"none", "firing", "resolved", "purged"}]
    /\ {ack, sil, del} \subseteq [Numbers -> BOOLEAN]
    /\ targets \in [Numbers -> 0 .. MaxAlerts]
    /\ recent \in 0 .. MaxAlerts
    /\ tracked \in BOOLEAN /\ cancel \subseteq Numbers
    /\ inv \in [Numbers -> {"none", "queued", "open", "complete", "gone"}]
    /\ \A w \in Threads : th[w].op \in AllOps \cup {"none"} /\ th[w].n \in 0 .. MaxAlerts
    /\ {events, closings} \subseteq [Numbers -> Nat]

\* A fingerprint has at most one open alert, whatever notifications, manual
\* reopenings and deletions race (the dedupe key of the domain).
OneOpen == Cardinality(Open) <= 1

\* A firing notification is acknowledged as handled only if an alert was open
\* at some time while it was: a dedup key that outlives its alert, or a row
\* that is resolved, deleted or purged meanwhile, never swallows it (comment at
\* webhook/receiver.go:384).
FiringIsRecorded ==
    [][\A w \in Threads :
            (th[w].op = "firing" /\ th'[w] = Idle /\ UNCHANGED faults)
                => (seen[w] \/ Open # {} \/ th[w].n = 0)]_vars

\* Handlers that resolved alert n and have yet to write its timeline.
Writers(n) == {w \in Threads : th[w].pc = "entry" /\ th[w].t = n}

\* Each "resolved" entry of an alert's timeline, written or about to be, is a
\* transition of its own: two resolutions at the same time record one (comment
\* at store/alert.go:446).  An entry is missing only after a failed insert or a
\* crash before it, or of a purged alert.
ResolvedOnce ==
    \A n \in Numbers :
        LET recorded == events[n] + Cardinality(Writers(n)) IN
        /\ recorded <= closings[n]
        /\ faults = 0 /\ st[n] # "purged" => recorded = closings[n]
=============================================================================
