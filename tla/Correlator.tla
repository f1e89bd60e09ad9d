----------------------------- MODULE Correlator -----------------------------
(***************************************************************************)
(* One correlation key.  ProcessAlert appends an alert to the running      *)
(* investigation, buffers it in a Valkey list, or flushes it at once; a    *)
(* timer, the sweep and Stop flush the list under a lock; a flush merges   *)
(* into an investigation or publishes a new one, through the triage queue  *)
(* when triage is on.  The list, the lock and the cooldown have a TTL, and *)
(* every command to Valkey, the database or the broker may fail.           *)
(***************************************************************************)
EXTENDS Integers, Sequences, SequencesExt

CONSTANTS Alerts,       \* each with the handler that runs ProcessAlert for it
          Flushers,     \* goroutines that run flushKey, of any process
          Modes,        \* settings: [windowed |-> effectiveWindow > 0, triage |-> triageEnabled]
          MaxTriageRetries,
          MaxInvs,      \* bound: investigation ids handed out
          MaxFaults,    \* bound: failed commands and crashes
          None

ASSUME CorrelatorModes == Modes \subseteq [windowed : BOOLEAN, triage : BOOLEAN]
ASSUME CorrelatorBounds == /\ MaxTriageRetries \in Nat
                           /\ MaxInvs \in Nat \ {0}
                           /\ MaxFaults \in Nat
ASSUME CorrelatorProcs == Alerts \cap Flushers = {} /\ None \notin Alerts \cup Flushers

VARIABLES
    mode,      \* the settings of this deployment
    list,      \* alga:corr:<key>
    lock,      \* alga:corr-lock:<key>: the flusher whose SETNX succeeded
    cooldown,  \* alga:cooldown:<key>: an investigation id, 0 when absent
    pc, id,    \* per handler or flusher: where it is, the id it read or made
    batch,     \* per flusher: the alerts it peeked
    row,       \* status of the investigation rows
    members,   \* their alerts
    ids,       \* ids handed out
    tq,        \* triage messages: [id, alerts, n]
    tjob,      \* the one the triage worker handles: [msg, pc, todo]
    wq,        \* investigate messages: [id, alerts]
    settled,   \* alerts triage resolved or silenced, or dropped because their
               \* primary is cancelled
    lost,      \* history: alerts that left the list by TTL, reset, a torn pop or a failed
               \* merge, or a queue by a broken wire or a refusal whose fallback failed
    torn,      \* history: flushers whose list or lock went away under them
    faults

valkey == <<list, lock, cooldown>>
proc == <<pc, id, batch>>
rows == <<row, members>>
broker == <<tq, tjob, wq>>
history == <<lost, torn>>
vars == <<mode, valkey, proc, rows, ids, broker, settled, history, faults>>

Procs == Alerts \cup Flushers
Ids == 1 .. MaxInvs
NoMsg == [id |-> 0, alerts |-> {}, n |-> 0]
NoJob == [msg |-> NoMsg, pc |-> "idle", todo |-> {}]

Fault == faults < MaxFaults /\ faults' = faults + 1
NoFault == UNCHANGED faults
With(p, l, i) == pc' = [pc EXCEPT ![p] = l] /\ id' = [id EXCEPT ![p] = i]
Go(p, l) == With(p, l, 0)

\* A publication that is reported successful, which the broker did not confirm:
\* a broken wire takes the message.
Send(q, m) ==
    \/ q' = q \cup {m} /\ NoFault /\ UNCHANGED lost
    \/ Fault /\ lost' = lost \cup m.alerts /\ UNCHANGED q

\* Flushers between SETNX and the release of the lock.
Flushing == {f \in Flushers : pc[f] # "idle"}

Init ==
    /\ mode \in Modes
    /\ list = <<>> /\ lock = None /\ cooldown = 0
    /\ pc = [p \in Procs |-> IF p \in Alerts THEN "new" ELSE "idle"]
    /\ batch = [f \in Flushers |-> <<>>]
    /\ id = [p \in Procs |-> 0]
    /\ row = [i \in Ids |-> "none"]
    /\ members = [i \in Ids |-> {}]
    /\ ids = 0
    /\ tq = {} /\ tjob = NoJob /\ wq = {} /\ settled = {}
    /\ lost = {} /\ torn = {}
    /\ faults = 0

-----------------------------------------------------------------------------
(* ProcessAlert *)

\* Where an alert goes when no running investigation takes it.
Onward == IF mode.windowed THEN "buffer" ELSE "recheck"

\* IsSuppressed: a suppression rule matches, the alert is dropped on purpose.
ProcessSuppressed(a) ==
    /\ pc[a] = "new"
    /\ Go(a, "refused")
    /\ NoFault
    /\ UNCHANGED <<valkey, batch, rows, ids, broker, settled, history>>

\* checkCooldown
ProcessCheck(a) ==
    /\ pc[a] = "new"
    /\ \/ /\ With(a, IF cooldown # 0 THEN "lookup" ELSE Onward, cooldown)
          /\ NoFault
       \/ Fault /\ Go(a, "refused")
    /\ UNCHANGED <<valkey, batch, rows, ids, broker, settled, history>>

\* appendToInvestigation: look the investigation up; a stale cooldown goes.
AppendLookup(a) ==
    /\ pc[a] = "lookup"
    /\ \/ /\ row[id[a]] = "open"
          /\ With(a, "append", id[a])
          /\ NoFault /\ UNCHANGED cooldown
       \/ /\ row[id[a]] # "open"
          /\ Go(a, Onward)
          /\ \/ cooldown' = 0 /\ NoFault
             \/ Fault /\ UNCHANGED cooldown
       \/ Fault /\ Go(a, "refused") /\ UNCHANGED cooldown
    /\ UNCHANGED <<list, lock, batch, rows, ids, broker, settled, history>>

\* ... and append, whatever became of the row since.
AppendAlert(a) ==
    /\ pc[a] = "append"
    /\ \/ /\ members' = [members EXCEPT ![id[a]] = @ \cup {a}]
          /\ Go(a, "done") /\ NoFault
       \/ Fault /\ Go(a, "refused") /\ UNCHANGED members
    /\ UNCHANGED <<valkey, batch, row, ids, broker, settled, history>>

\* bufferAlert: RPUSH, EXPIRE when first, which may fail, and the flush timer
\* of this process (Flush).
BufferAlert(a) ==
    /\ pc[a] = "buffer"
    /\ list' = Append(list, a)
    /\ \/ Go(a, "done") /\ NoFault
       \/ Go(a, "refused") /\ Fault
    /\ UNCHANGED <<lock, cooldown, batch, rows, ids, broker, settled, history>>

BufferError(a) ==
    /\ pc[a] = "buffer"
    /\ Fault /\ Go(a, "refused")
    /\ UNCHANGED <<valkey, batch, rows, ids, broker, settled, history>>

-----------------------------------------------------------------------------
(* flushKey *)

\* The flush ends: what f was doing is over and its lock key is deleted,
\* whoever holds it by now; a failed DEL leaves it to its TTL.
Release(f) ==
    /\ pc[f] = "unlock"
    /\ Go(f, "idle")
    /\ batch' = [batch EXCEPT ![f] = <<>>]
    /\ \/ /\ lock' = None /\ NoFault
          /\ torn' = (torn \ {f}) \cup ({lock} \cap (Flushing \ {f}))
       \/ /\ Fault /\ UNCHANGED lock
          /\ torn' = torn \ {f}
    /\ UNCHANGED <<list, cooldown, rows, ids, broker, settled, lost>>

\* Mutant of Acquire: SET without NX.
AcquireAnyway(f) == lock' = f /\ Go(f, "peek") /\ NoFault

\* SETNX of the lock; on failure the flush is over.
Acquire(f) ==
    \/ lock = None /\ lock' = f /\ Go(f, "peek") /\ NoFault
    \/ lock # None /\ UNCHANGED <<lock, pc, id>> /\ NoFault
    \/ lock = None /\ lock' \in {lock, f} /\ UNCHANGED <<pc, id>> /\ Fault

\* flushKey begins: a timer fires, early or late, the sweep of a restarted
\* process finds the list, or Stop disarms its timers and drains.  (A timer that
\* finds no list takes and releases the lock: left out.)
Flush(f) ==
    /\ pc[f] = "idle" /\ list # <<>>
    /\ Acquire(f)
    /\ UNCHANGED <<list, cooldown, batch, rows, ids, broker, settled, history>>

\* Mutant of Peek: the batch is popped before it is published.
PeekAndPop(f) ==
    /\ pc[f] = "peek"
    /\ batch' = [batch EXCEPT ![f] = list] /\ list' = <<>>
    /\ Go(f, IF list = <<>> THEN "unlock" ELSE "recheck") /\ NoFault
    /\ UNCHANGED <<lock, cooldown, rows, ids, broker, settled, history>>

Peek(f) ==
    /\ pc[f] = "peek"
    /\ \/ /\ list # <<>>
          /\ batch' = [batch EXCEPT ![f] = list]
          /\ Go(f, "recheck") /\ NoFault
       \/ list = <<>> /\ Go(f, "unlock") /\ NoFault /\ UNCHANGED batch
       \/ Fault /\ Go(f, "unlock") /\ UNCHANGED batch
    /\ UNCHANGED <<valkey, rows, ids, broker, settled, history>>

DropFirst(s, n) == SubSeq(s, n + 1, Len(s))
Least(m, n) == IF m < n THEN m ELSE n

\* popPending: LPOP of as many as were peeked; its reply may be lost.
Pop(f) ==
    LET n == Least(Len(batch[f]), Len(list))
        gone == ToSet(SubSeq(list, 1, n)) \ ToSet(batch[f])
    IN
    /\ pc[f] = "pop"
    /\ Go(f, "unlock")
    /\ list' = DropFirst(list, n)
    /\ IF f \in torn
       THEN lost' = lost \cup gone /\ torn' = torn \cup Flushing
       ELSE UNCHANGED history
    /\ NoFault \/ Fault
    /\ UNCHANGED <<lock, cooldown, batch, rows, ids, broker, settled>>

PopError(f) ==
    /\ pc[f] = "pop"
    /\ Fault /\ Go(f, "unlock")
    /\ UNCHANGED <<valkey, batch, rows, ids, broker, settled, history>>

-----------------------------------------------------------------------------
(* flushInvestigation, of a flusher's batch or of a handler's one alert *)

Finish(p) == Go(p, IF p \in Flushers THEN "pop" ELSE "done")
FlushFails(p) == Go(p, IF p \in Flushers THEN "unlock" ELSE "refused")
Taken(p) == IF p \in Alerts THEN {p} ELSE ToSet(batch[p])

\* checkCooldown again; its error is ignored.
Recheck(p) ==
    /\ pc[p] = "recheck"
    /\ \/ /\ With(p, IF cooldown # 0 THEN "relook" ELSE "gate", cooldown)
          /\ NoFault
       \/ Fault /\ Go(p, "gate")
    /\ UNCHANGED <<valkey, batch, rows, ids, broker, settled, history>>

Relook(p) ==
    /\ pc[p] = "relook"
    /\ \/ /\ row[id[p]] = "open"
          /\ With(p, "merge", id[p]) /\ NoFault /\ UNCHANGED cooldown
       \/ /\ row[id[p]] # "open"
          /\ Go(p, "gate")
          /\ \/ cooldown' = 0 /\ NoFault
             \/ Fault /\ UNCHANGED cooldown
       \/ Fault /\ Go(p, "gate") /\ UNCHANGED cooldown
    /\ UNCHANGED <<list, lock, batch, rows, ids, broker, settled, history>>

\* The append; its failure is logged and the flush succeeds all the same.
MergeCooldown(p) ==
    /\ pc[p] = "merge"
    /\ Finish(p)
    /\ \/ /\ members' = [members EXCEPT ![id[p]] = @ \cup Taken(p)]
          /\ NoFault /\ UNCHANGED lost
       \/ /\ Fault
          /\ lost' = lost \cup Taken(p)
          /\ UNCHANGED members
    /\ UNCHANGED <<valkey, batch, row, ids, broker, settled, torn>>

\* GetActiveAlertInvestigationByCorrelationKey: any open row of the key.
Gate(p) ==
    /\ pc[p] = "gate"
    /\ \/ \E i \in Ids : /\ row[i] = "open"
                         /\ With(p, "gmerge", i) /\ NoFault
       \/ /\ \A i \in Ids : row[i] # "open"
          /\ Go(p, "publish") /\ NoFault
       \/ Fault /\ Go(p, "publish")
    /\ UNCHANGED <<valkey, batch, rows, ids, broker, settled, history>>

MergeActive(p) ==
    /\ pc[p] = "gmerge"
    /\ \/ /\ members' = [members EXCEPT ![id[p]] = @ \cup Taken(p)]
          /\ With(p, "cool", id[p]) /\ NoFault
       \/ Fault /\ Go(p, "publish") /\ UNCHANGED members
    /\ UNCHANGED <<valkey, batch, row, ids, broker, settled, history>>

\* PublishTriage or PublishInvestigation under a fresh id.  The incident message
\* of a critical batch, whose failure is only logged, changes nothing here.
Publish(p) ==
    LET i == ids + 1 IN
    /\ pc[p] = "publish"
    /\ i <= MaxInvs
    /\ ids' = i
    /\ IF mode.triage
       THEN Send(tq, [id |-> i, alerts |-> Taken(p), n |-> 0]) /\ UNCHANGED wq
       ELSE Send(wq, [id |-> i, alerts |-> Taken(p)]) /\ UNCHANGED tq
    /\ With(p, "cool", i)
    /\ UNCHANGED <<valkey, batch, rows, tjob, settled, torn>>

PublishError(p) ==
    /\ pc[p] = "publish"
    /\ Fault /\ FlushFails(p)
    /\ UNCHANGED <<valkey, batch, rows, ids, broker, settled, history>>

\* setCooldown; its failure is only logged.
SetCooldown(p) ==
    /\ pc[p] = "cool"
    /\ Finish(p)
    /\ \/ cooldown' = id[p] /\ NoFault
       \/ Fault /\ UNCHANGED cooldown
    /\ UNCHANGED <<list, lock, batch, rows, ids, broker, settled, history>>

-----------------------------------------------------------------------------
(* Time, operators, crashes, and the investigations of the key *)

\* A message, a row or a triage decision has the alert.
Carried(a) ==
    \/ \E m \in tq \cup wq : a \in m.alerts
    \/ a \in tjob.msg.alerts
    \/ \E i \in Ids : a \in members[i]
    \/ a \in settled

\* The TTL of the list, the window, is over: Valkey drops it.
ListExpires ==
    /\ list # <<>>
    /\ list' = <<>>
    /\ lost' = lost \cup {a \in ToSet(list) : ~Carried(a)}
    /\ torn' = torn \cup Flushing
    /\ NoFault
    /\ UNCHANGED <<lock, cooldown, proc, rows, ids, broker, settled>>

CooldownExpires ==
    /\ cooldown # 0
    /\ cooldown' = 0
    /\ NoFault
    /\ UNCHANGED <<list, lock, proc, rows, ids, broker, settled, history>>

\* The TTL of the lock is longer than a flush may take: only a lock that its
\* flusher does not hold any more runs out.
LockExpires ==
    /\ lock # None /\ pc[lock] = "idle"
    /\ lock' = None
    /\ NoFault
    /\ UNCHANGED <<list, cooldown, proc, rows, ids, broker, settled, history>>

\* RemoveCooldown: an operator deletes the cooldown, the list and the lock.
\* From then on the lock protects no flush that is under way.
RemoveCooldown ==
    /\ <<cooldown, list, lock>> # <<0, <<>>, None>>
    /\ cooldown' = 0 /\ list' = <<>> /\ lock' = None
    /\ lost' = lost \cup {a \in ToSet(list) : ~Carried(a)}
    /\ torn' = torn \cup Flushing
    /\ Fault
    /\ UNCHANGED <<proc, rows, ids, broker, settled>>

Crash(f) ==
    /\ f \in Flushing
    /\ Fault
    /\ Go(f, "idle")
    /\ batch' = [batch EXCEPT ![f] = <<>>]
    /\ torn' = torn \ {f}
    /\ UNCHANGED <<list, lock, cooldown, rows, ids, broker, settled, lost>>

\* The investigate worker inserts the row.
InvestigationCreated(m) ==
    /\ m \in wq
    /\ wq' = wq \ {m}
    /\ IF row[m.id] = "none"
       THEN /\ row' = [row EXCEPT ![m.id] = "open"]
            /\ members' = [members EXCEPT ![m.id] = m.alerts]
       ELSE UNCHANGED rows
    /\ NoFault
    /\ UNCHANGED <<valkey, proc, ids, tq, tjob, settled, history>>

\* The investigation ends.
InvestigationEnds(i) ==
    /\ row[i] = "open"
    /\ row' = [row EXCEPT ![i] = "done"]
    /\ NoFault
    /\ UNCHANGED <<valkey, proc, members, ids, broker, settled, history>>

-----------------------------------------------------------------------------
\* The steps of one alert's handler.
ProcessAlert(a) ==
    \/ ProcessSuppressed(a) \/ ProcessCheck(a) \/ AppendLookup(a) \/ AppendAlert(a)
    \/ BufferAlert(a) \/ BufferError(a)

flushInvestigation(p) ==
    \/ Recheck(p) \/ Relook(p) \/ MergeCooldown(p) \/ Gate(p) \/ MergeActive(p)
    \/ Publish(p) \/ PublishError(p) \/ SetCooldown(p)

flushKey(f) == Flush(f) \/ Peek(f) \/ Pop(f) \/ PopError(f) \/ Release(f)

CorrelatorNext ==
    \/ \E a \in Alerts : ProcessAlert(a)
    \/ \E p \in Procs : flushInvestigation(p)
    \/ \E f \in Flushers : flushKey(f) \/ Crash(f)
    \/ ListExpires \/ CooldownExpires \/ LockExpires \/ RemoveCooldown
    \/ \E m \in wq : InvestigationCreated(m)
    \/ \E i \in Ids : InvestigationEnds(i)
=============================================================================
