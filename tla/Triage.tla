------------------------------- MODULE Triage -------------------------------
(***************************************************************************)
(* The correlator with its triage worker: Handle takes a triage message,   *)
(* the engine decides and records the decision, the worker acts on it and  *)
(* retries what failed.  After MaxTriageRetries it refuses the message,    *)
(* which the broker then drops, and tries to investigate anyway.           *)
(***************************************************************************)
EXTENDS Correlator

kept == <<valkey, proc, rows, ids, torn>>

\* What the worker asks the investigate worker for.
Investigate == [id |-> tjob.msg.id, alerts |-> tjob.msg.alerts]

Redeliver == tq' = tq \cup {tjob.msg} /\ tjob' = NoJob

\* Handle: the message of a cancelled primary alert is acked.
Handle(m) ==
    /\ m \in tq /\ tjob = NoJob
    /\ tq' = tq \ {m}
    /\ \/ tjob' = [msg |-> m, pc |-> "process", todo |-> m.alerts] /\ UNCHANGED settled
       \/ tjob' = NoJob /\ settled' = settled \cup m.alerts
    /\ NoFault
    /\ UNCHANGED <<kept, wq, lost>>

\* engine.Process: a rule, a promoted decision, the model or the fallback
\* decides; the result is saved or the message retried (which its retry limit
\* bounds: no failure is counted).
Process ==
    /\ tjob.pc = "process"
    /\ \E d \in {"investigate", "decide", "retry"} : tjob' = [tjob EXCEPT !.pc = d]
    /\ NoFault
    /\ UNCHANGED <<kept, tq, wq, settled, lost>>

\* handleInvestigate, handleEscalate: PublishInvestigation.
HandleInvestigate ==
    /\ tjob.pc = "investigate"
    /\ \/ Send(wq, Investigate) /\ tjob' = [tjob EXCEPT !.pc = "ack"]
       \/ Fault /\ tjob' = [tjob EXCEPT !.pc = "retry"] /\ UNCHANGED <<wq, lost>>
    /\ UNCHANGED <<kept, tq, settled>>

\* handleAutoResolve, handleSuppress: one alert after the other.  An alert with
\* no open row, resolved by an earlier try or by others, is an error and no
\* fault; the retry limit bounds these.
HandleDecision ==
    /\ tjob.pc = "decide"
    /\ \/ \E a \in tjob.todo : /\ settled' = settled \cup {a}
                               /\ tjob' = [tjob EXCEPT !.todo = @ \ {a}]
                               /\ NoFault
       \/ tjob.todo = {} /\ tjob' = [tjob EXCEPT !.pc = "ack"] /\ NoFault /\ UNCHANGED settled
       \/ /\ tjob.todo # {} /\ NoFault
          /\ tjob' = [tjob EXCEPT !.pc = "retry"] /\ UNCHANGED settled
    /\ UNCHANGED <<kept, tq, wq, lost>>

\* Mutant of HandleRetry: one retry too many.
HandleRetryOnceMore ==
    /\ tjob.pc = "retry"
    /\ tjob.msg.n <= MaxTriageRetries
    /\ tq' = tq \cup {[tjob.msg EXCEPT !.n = @ + 1]}
    /\ tjob' = [tjob EXCEPT !.pc = "ack"] /\ NoFault
    /\ UNCHANGED <<kept, wq, settled, lost>>

\* handleRetry: PublishTriageRetry, else Nack with requeue.
HandleRetry ==
    LET again == [tjob.msg EXCEPT !.n = @ + 1] IN
    /\ tjob.pc = "retry"
    /\ again.n <= MaxTriageRetries
    /\ \/ Send(tq, again) /\ tjob' = [tjob EXCEPT !.pc = "ack"]
       \/ Fault /\ Redeliver /\ UNCHANGED lost
    /\ UNCHANGED <<kept, wq, settled>>

\* ... its limit reached: Nack without requeue.  The broker drops the message
\* (its routing key is not that of the dead-letter queue): the worker has it
\* alone.
DeadLetter ==
    /\ tjob.pc = "retry"
    /\ tjob.msg.n + 1 > MaxTriageRetries
    /\ tjob' = [tjob EXCEPT !.pc = "fallback"]
    /\ NoFault
    /\ UNCHANGED <<kept, tq, wq, settled, lost>>

\* fallbackToInvestigate, after the Nack; an error is only logged, and with it
\* the message is gone.
Fallback ==
    /\ tjob.pc = "fallback"
    /\ tjob' = NoJob
    /\ \/ Send(wq, Investigate)
       \/ Fault /\ lost' = lost \cup tjob.msg.alerts /\ UNCHANGED wq
    /\ UNCHANGED <<kept, tq, settled>>

Ack ==
    /\ tjob.pc = "ack"
    /\ tjob' = NoJob
    /\ NoFault
    /\ UNCHANGED <<kept, tq, wq, settled, lost>>

\* The worker dies: an unsettled delivery comes back, a refused one does not.
TriageCrash ==
    /\ tjob # NoJob
    /\ Fault
    /\ IF tjob.pc = "fallback"
       THEN tjob' = NoJob /\ lost' = lost \cup tjob.msg.alerts /\ UNCHANGED tq
       ELSE Redeliver /\ UNCHANGED lost
    /\ UNCHANGED <<kept, wq, settled>>

TriageNext ==
    \/ \E m \in tq : Handle(m)
    \/ Process \/ HandleInvestigate \/ HandleDecision \/ HandleRetry \/ DeadLetter
    \/ Fallback \/ Ack \/ TriageCrash

Next == (CorrelatorNext \/ TriageNext) /\ UNCHANGED mode

Spec == Init /\ [][Next]_vars

-----------------------------------------------------------------------------
(* Properties *)

Messages == [id : Ids, alerts : SUBSET Alerts, n : 0 .. MaxTriageRetries]

\* Types of the Valkey keys, the handlers and flushers, the rows and queues.
TypeOK ==
    /\ mode \in Modes
    /\ list \in Seq(Alerts)
    /\ lock \in Flushers \cup {None}
    /\ cooldown \in 0 .. MaxInvs
    /\ pc \in [Procs -> {"new", "lookup", "append", "buffer", "done", "refused",
                         "idle", "peek", "recheck", "relook", "merge", "gate", "gmerge",
                         "publish", "cool", "pop", "unlock"}]
    /\ batch \in [Flushers -> Seq(Alerts)]
    /\ id \in [Procs -> 0 .. MaxInvs]
    /\ row \in [Ids -> {"none", "open", "done"}]
    /\ members \in [Ids -> SUBSET Alerts]
    /\ ids \in 0 .. MaxInvs
    /\ tq \subseteq Messages
    /\ tjob \in [msg : Messages \cup {NoMsg}, todo : SUBSET Alerts,
                 pc : {"idle", "process", "investigate", "decide", "retry", "fallback", "ack"}]
    /\ wq \subseteq [id : Ids, alerts : SUBSET Alerts]
    /\ settled \subseteq Alerts
    /\ lost \subseteq Alerts
    /\ torn \subseteq Flushers

\* An alert ProcessAlert took is buffered, or a message, a row or a decision
\* has it: neither a broker outage, a crash at any point of a flush or of
\* triage, two flushers, nor a lost reply makes it vanish (the comments on
\* peekScript and flushKey).  What is in lost was taken by the TTL of the list,
\* an operator's reset, a torn pop, the merge whose error flushInvestigation
\* swallows, a publication the wire lost, or a refused triage message whose
\* fallback failed.
NothingVanishes ==
    \A a \in Alerts : pc[a] = "done" => \/ a \in ToSet(list)
                                        \/ Carried(a)
                                        \/ a \in lost

\* popPending removes exactly the published batch: as long as neither list nor
\* lock went away under a flusher, its batch is the head of the list although
\* alerts arrive and other flushers wake up meanwhile (comment on popScript).
PopsItsBatch ==
    \A f \in Flushers : (pc[f] = "pop" /\ f \notin torn) => IsPrefix(batch[f], list)
=============================================================================
