---------------------------- MODULE AlertOutbox ----------------------------
(***************************************************************************)
(* The way of an alert notification from the webhook to ProcessAlerts:     *)
(* handleWebhook stores an outbox row (or publishes directly, or processes *)
(* at once), the outbox worker of every replica publishes rows and marks   *)
(* them, the broker delivers, the alert worker processes, retries and in   *)
(* the end refuses.  No lock keeps the outbox workers of two replicas      *)
(* apart, each writes by row id what it decided from the row it fetched,   *)
(* and each of its commands may fail.                                      *)
(***************************************************************************)
EXTENDS Integers, FiniteSets, FiniteSetsExt

CONSTANTS Events,        \* notifications (one webhook request each)
          Replicas,      \* processes, each with an outbox worker
          Consumers,     \* those whose alert worker has a channel
          MaxOutboxRetries,
          MaxAlertRetries,
          Faults,        \* what may fail: "db", "broker", "crash", "wire"
          MaxCopies,     \* bound: copies of one event in broker and handlers
          MaxFailures,   \* bound: failed publications of one row
          MaxCrashes,    \* bound: crashes
          None

ASSUME OutboxLimits == /\ MaxOutboxRetries \in Nat \ {0}
                       /\ MaxAlertRetries \in Nat
                       /\ MaxCopies \in Nat \ {0}
                       /\ MaxFailures \in Nat
                       /\ MaxCrashes \in Nat
ASSUME OutboxFaults == Faults \subseteq {"db", "broker", "crash", "wire"}
ASSUME OutboxNone == None \notin Events
ASSUME OutboxConsumers == Consumers \subseteq Replicas
ASSUME OutboxReplicas == IsFiniteSet(Replicas)

VARIABLES
    http,      \* http[e]: where handleWebhook is with the request
    row,       \* row[e]: status of the outbox row
    retry,     \* retry_count
    due,       \* next_attempt_at is null or over
    listed,    \* listed[w]: retry_count of the rows of this scan, by event
    at,        \* at[w]: [ev, pc] the row publishOne works on
    queue,     \* queue[e][n]: copies with retry number n (work and retry queues)
    job,       \* job[w]: [ev, n, pc] the delivery the alert worker handles
    processed, \* events ProcessAlerts has finished without an error
    tries,     \* history: failed ProcessAlerts of e, up to MaxAlertRetries + 1
    refused,   \* history: events of which the broker dropped a delivery
    failures,  \* history: failed publications of a row
    sent,      \* history: events with a publication that succeeded
    crashes

rows == <<row, retry, due>>
outbox == <<listed, at>>
broker == <<queue, job>>
done == <<processed, tries, refused>>
history == <<failures, sent, crashes>>
vars == <<http, rows, outbox, broker, done, history>>

Retries == 0 .. MaxAlertRetries
Listed(w) == DOMAIN listed[w]
NoRow == [ev |-> None, pc |-> "idle"]
NoJob == [ev |-> None, n |-> 0, pc |-> "idle"]
Nothing == [e \in {} |-> 0]

\* Mutant of Fetchable: rows that failed are not fetched again.
FetchablePending(e) == due[e] /\ row[e] = "pending"

Fetchable(e) ==
    /\ due[e]
    /\ row[e] = "pending" \/ (row[e] = "failed" /\ retry[e] < MaxOutboxRetries)

\* FetchUnpublished never returns the row again.
GivenUp(e) == row[e] = "failed" /\ retry[e] >= MaxOutboxRetries

Copies(e) == {n \in Retries : queue[e][n] > 0}
Full(e) ==
    MapThenSumSet(LAMBDA n : queue[e][n], Retries)
        + Cardinality({w \in Replicas : job[w].ev = e}) >= MaxCopies

\* What a publication that reports success has put into the broker: the
\* publisher uses no confirms, so with a broken wire possibly nothing.
Arrivals == IF "wire" \in Faults THEN {0, 1} ELSE {1}
\* ... and one that reports an error.
Strays(e) == IF Full(e) THEN {0} ELSE {0, 1}

Put(e, n, k) == queue' = [queue EXCEPT ![e][n] = @ + k]

Init ==
    /\ http = [e \in Events |-> "idle"]
    /\ row = [e \in Events |-> "none"]
    /\ retry = [e \in Events |-> 0]
    /\ due = [e \in Events |-> TRUE]
    /\ listed = [w \in Replicas |-> Nothing]
    /\ at = [w \in Replicas |-> NoRow]
    /\ queue = [e \in Events |-> [n \in Retries |-> 0]]
    /\ job = [w \in Replicas |-> NoJob]
    /\ processed = {}
    /\ tries = [e \in Events |-> 0]
    /\ refused = {}
    /\ failures = [e \in Events |-> 0]
    /\ sent = {}
    /\ crashes = 0

-----------------------------------------------------------------------------
(* handleWebhook *)

\* Rate limit, token and body are in order.
Receive(e) ==
    /\ http[e] = "idle"
    /\ http' = [http EXCEPT ![e] = "enqueue"]
    /\ UNCHANGED <<rows, outbox, broker, done, history>>

\* EnqueueOutbox commits the row.
Enqueue(e) ==
    /\ http[e] = "enqueue"
    /\ row' = [row EXCEPT ![e] = "pending"]
    /\ http' = [http EXCEPT ![e] = "accept"]
    /\ UNCHANGED <<retry, due, outbox, broker, done, history>>

\* Mutant of EnqueueError: the error is taken for a commit.
EnqueueErrorAccepted(e) ==
    /\ "db" \in Faults
    /\ http[e] = "enqueue"
    /\ http' = [http EXCEPT ![e] = "accept"]
    /\ UNCHANGED <<rows, outbox, broker, done, history>>

\* ... or reports an error, the transaction committed or not.
EnqueueError(e) ==
    /\ "db" \in Faults
    /\ http[e] = "enqueue"
    /\ row' \in {row, [row EXCEPT ![e] = "pending"]}
    /\ http' = [http EXCEPT ![e] = "direct"]
    /\ UNCHANGED <<retry, due, outbox, broker, done, history>>

\* PublishAlert
Direct(e) ==
    /\ http[e] = "direct"
    /\ ~Full(e)
    /\ \E k \in Arrivals : Put(e, 0, k)
    /\ http' = [http EXCEPT ![e] = "accept"]
    /\ UNCHANGED <<rows, outbox, job, done, history>>

DirectError(e) ==
    /\ "broker" \in Faults
    /\ http[e] = "direct"
    /\ \E k \in Strays(e) : Put(e, 0, k)
    /\ http' = [http EXCEPT ![e] = "sync"]
    /\ UNCHANGED <<rows, outbox, job, done, history>>

\* The synchronous fallback; its error is a 500.
Sync(e) ==
    /\ http[e] = "sync"
    /\ \/ /\ processed' = processed \cup {e}
          /\ http' = [http EXCEPT ![e] = "ok"]
       \/ /\ "db" \in Faults
          /\ http' = [http EXCEPT ![e] = "error"]
          /\ UNCHANGED processed
    /\ UNCHANGED <<rows, outbox, broker, tries, refused, history>>

\* 202 "queued" reaches the sender.
Reply(e) ==
    /\ http[e] = "accept"
    /\ http' = [http EXCEPT ![e] = "queued"]
    /\ UNCHANGED <<rows, outbox, broker, done, history>>

\* The process dies under the request: the sender sees a broken connection.
HttpLost(e) ==
    /\ "crash" \in Faults
    /\ http[e] \in {"enqueue", "direct", "sync", "accept"}
    /\ http' = [http EXCEPT ![e] = "error"]
    /\ UNCHANGED <<rows, outbox, broker, done, history>>

-----------------------------------------------------------------------------
(* The outbox worker *)

\* tick: FetchUnpublished; the worker keeps the retry counts it read.
Fetch(w) ==
    LET found == {e \in Events : Fetchable(e)} IN
    /\ Listed(w) = {} /\ at[w] = NoRow
    /\ found # {}
    /\ listed' = [listed EXCEPT ![w] = [e \in found |-> retry[e]]]
    /\ UNCHANGED <<http, rows, at, broker, done, history>>

\* publishOne: PublishRaw of the stored payload.
PublishRaw(w) ==
    \E e \in Listed(w) :
        /\ at[w] = NoRow
        /\ ~Full(e)
        /\ \E k \in Arrivals : Put(e, 0, k)
        /\ at' = [at EXCEPT ![w] = [ev |-> e, pc |-> "mark"]]
        /\ sent' = sent \cup {e}
        /\ UNCHANGED <<http, rows, listed, job, done, failures, crashes>>

\* Mutant of PublishRawError: the error does not end publishOne.
PublishRawErrorMarks(w) ==
    \E e \in Listed(w) :
        /\ "broker" \in Faults
        /\ at[w] = NoRow
        /\ failures[e] < MaxFailures
        /\ at' = [at EXCEPT ![w] = [ev |-> e, pc |-> "mark"]]
        /\ failures' = [failures EXCEPT ![e] = @ + 1]
        /\ UNCHANGED <<http, rows, listed, broker, done, sent, crashes>>

PublishRawError(w) ==
    \E e \in Listed(w) :
        /\ "broker" \in Faults
        /\ at[w] = NoRow
        /\ failures[e] < MaxFailures
        /\ \E k \in Strays(e) : Put(e, 0, k)
        /\ at' = [at EXCEPT ![w] = [ev |-> e, pc |-> "fail"]]
        /\ failures' = [failures EXCEPT ![e] = @ + 1]
        /\ UNCHANGED <<http, rows, listed, job, done, sent, crashes>>

\* The worker is through with its row.
Leave(w) ==
    /\ listed' = [listed EXCEPT ![w] = [e \in Listed(w) \ {at[w].ev} |-> @[e]]]
    /\ at' = [at EXCEPT ![w] = NoRow]

\* An UPDATE ... WHERE id = ?: nothing happens to a row that was pruned.
Exists(e) == row[e] \in {"pending", "published", "failed"}

MarkPublished(w) ==
    LET e == at[w].ev IN
    /\ at[w].pc = "mark"
    /\ row' = IF Exists(e) THEN [row EXCEPT ![e] = "published"] ELSE row
    /\ Leave(w)
    /\ UNCHANGED <<http, retry, due, broker, done, history>>

\* Mutant of IncrementRetry: it counts down.
DecrementRetry(w) ==
    LET e == at[w].ev IN
    /\ at[w].pc = "fail" /\ Exists(e)
    /\ listed[w][e] + 1 < MaxOutboxRetries
    /\ retry' = [retry EXCEPT ![e] = @ - 1]
    /\ row' = [row EXCEPT ![e] = "failed"]
    /\ due' = [due EXCEPT ![e] = FALSE]
    /\ Leave(w)
    /\ UNCHANGED <<http, broker, done, history>>

IncrementRetry(w) ==
    LET e == at[w].ev IN
    /\ at[w].pc = "fail"
    /\ listed[w][e] + 1 < MaxOutboxRetries
    /\ IF Exists(e)
       THEN /\ retry' = [retry EXCEPT ![e] = @ + 1]
            /\ row' = [row EXCEPT ![e] = "failed"]
            /\ due' = [due EXCEPT ![e] = FALSE]
       ELSE UNCHANGED rows
    /\ Leave(w)
    /\ UNCHANGED <<http, broker, done, history>>

\* Mutant of MarkFailed: one attempt too early.
MarkFailedEarly(w) ==
    LET e == at[w].ev IN
    /\ at[w].pc = "fail" /\ Exists(e)
    /\ listed[w][e] + 2 >= MaxOutboxRetries
    /\ retry' = [retry EXCEPT ![e] = MaxOutboxRetries]
    /\ row' = [row EXCEPT ![e] = "failed"]
    /\ due' = [due EXCEPT ![e] = TRUE]
    /\ Leave(w)
    /\ UNCHANGED <<http, broker, done, history>>

MarkFailed(w) ==
    LET e == at[w].ev IN
    /\ at[w].pc = "fail"
    /\ listed[w][e] + 1 >= MaxOutboxRetries
    /\ IF Exists(e)
       THEN /\ retry' = [retry EXCEPT ![e] = MaxOutboxRetries]
            /\ row' = [row EXCEPT ![e] = "failed"]
            /\ due' = [due EXCEPT ![e] = TRUE]
       ELSE UNCHANGED rows
    /\ Leave(w)
    /\ UNCHANGED <<http, broker, done, history>>

\* The write that follows a publication fails; it is only logged.
MarkError(w) ==
    /\ "db" \in Faults
    /\ at[w].pc \in {"mark", "fail"}
    /\ Leave(w)
    /\ UNCHANGED <<http, rows, broker, done, history>>

\* next_attempt_at passes.
BackoffOver(e) ==
    /\ ~due[e]
    /\ due' = [due EXCEPT ![e] = TRUE]
    /\ UNCHANGED <<http, row, retry, outbox, broker, done, history>>

\* PrunePublished: the row is past the retention.
PrunePublished(e) ==
    /\ row[e] = "published"
    /\ row' = [row EXCEPT ![e] = "pruned"]
    /\ UNCHANGED <<http, retry, due, outbox, broker, done, history>>

-----------------------------------------------------------------------------
(* The alert worker *)

Deliver(w) ==
    \E e \in Events, n \in Retries :
        /\ w \in Consumers
        /\ job[w] = NoJob
        /\ queue[e][n] > 0
        /\ Put(e, n, 0 - 1)
        /\ job' = [job EXCEPT ![w] = [ev |-> e, n |-> n, pc |-> "process"]]
        /\ UNCHANGED <<http, rows, outbox, done, history>>

UpToLimit(n) == IF n > MaxAlertRetries THEN MaxAlertRetries + 1 ELSE n

ProcessAlerts(w) ==
    /\ job[w].pc = "process"
    /\ \/ /\ processed' = processed \cup {job[w].ev}
          /\ job' = [job EXCEPT ![w].pc = "ack"]
          /\ UNCHANGED tries
       \/ /\ "db" \in Faults
          /\ job' = [job EXCEPT ![w].pc = "retry"]
          /\ tries' = [tries EXCEPT ![job[w].ev] = UpToLimit(@ + 1)]
          /\ UNCHANGED processed
    /\ UNCHANGED <<http, rows, outbox, queue, refused, history>>

\* handleRetry: PublishAlertRetry, then Ack.
PublishAlertRetry(w) ==
    LET e == job[w].ev
        n == job[w].n + 1 IN
    /\ job[w].pc = "retry"
    /\ n <= MaxAlertRetries
    /\ \/ /\ \E k \in Arrivals : Put(e, n, k)
          /\ job' = [job EXCEPT ![w].pc = "ack"]
       \/ /\ "broker" \in Faults
          /\ \E k \in Strays(e) : Put(e, n, k)
          /\ job' = [job EXCEPT ![w].pc = "requeue"]
    /\ UNCHANGED <<http, rows, outbox, done, history>>

\* ... its limit reached: Nack without requeue.  The queue names the dead-letter
\* exchange but no routing key for it, and alga.dlx is a direct exchange whose
\* only binding is the key "#": the broker routes the message nowhere.
DeadLetter(w) ==
    /\ job[w].pc = "retry"
    /\ job[w].n + 1 > MaxAlertRetries
    /\ refused' = refused \cup {job[w].ev}
    /\ job' = [job EXCEPT ![w] = NoJob]
    /\ UNCHANGED <<http, rows, outbox, queue, processed, tries, history>>

Ack(w) ==
    /\ job[w].pc = "ack"
    /\ job' = [job EXCEPT ![w] = NoJob]
    /\ UNCHANGED <<http, rows, outbox, queue, done, history>>

\* Nack with requeue: the delivery as it was.
Requeue(w) ==
    /\ job[w].pc = "requeue"
    /\ Put(job[w].ev, job[w].n, 1)
    /\ job' = [job EXCEPT ![w] = NoJob]
    /\ UNCHANGED <<http, rows, outbox, done, history>>

\* The process dies: its scan is forgotten, its delivery comes back.
Crash(w) ==
    /\ "crash" \in Faults
    /\ crashes < MaxCrashes
    /\ crashes' = crashes + 1
    /\ listed' = [listed EXCEPT ![w] = Nothing]
    /\ at' = [at EXCEPT ![w] = NoRow]
    /\ IF job[w] = NoJob THEN UNCHANGED queue ELSE Put(job[w].ev, job[w].n, 1)
    /\ job' = [job EXCEPT ![w] = NoJob]
    /\ UNCHANGED <<http, rows, done, failures, sent>>

-----------------------------------------------------------------------------
Request(e) ==
    \/ Receive(e) \/ Enqueue(e) \/ EnqueueError(e) \/ Direct(e) \/ DirectError(e)
    \/ Sync(e) \/ Reply(e) \/ HttpLost(e)

OutboxWorker(w) ==
    \/ Fetch(w) \/ PublishRaw(w) \/ PublishRawError(w)
    \/ MarkPublished(w) \/ IncrementRetry(w) \/ MarkFailed(w) \/ MarkError(w)

AlertWorker(w) ==
    \/ Deliver(w) \/ ProcessAlerts(w) \/ PublishAlertRetry(w)
    \/ DeadLetter(w) \/ Ack(w) \/ Requeue(w)

Next ==
    \/ \E e \in Events : Request(e) \/ BackoffOver(e) \/ PrunePublished(e)
    \/ \E w \in Replicas : OutboxWorker(w) \/ AlertWorker(w) \/ Crash(w)

Spec == Init /\ [][Next]_vars

\* Handlers and tickers go on; backoffs end; the database does not refuse the
\* outbox worker's write for ever, nor the alert worker's requeued delivery.
Fairness ==
    /\ \A w \in Replicas :
        /\ WF_vars(Fetch(w))
        /\ WF_vars(PublishRaw(w) \/ PublishRawError(w))
        /\ SF_vars(MarkPublished(w) \/ IncrementRetry(w) \/ MarkFailed(w))
        /\ WF_vars(AlertWorker(w))
        /\ SF_vars(job[w].pc = "process" /\ ProcessAlerts(w) /\ job'[w].pc = "ack")
    /\ \A e \in Events : WF_vars(BackoffOver(e))

FairSpec == Spec /\ Fairness

-----------------------------------------------------------------------------
(* Properties *)

\* Types of the webhook handler, the outbox rows, the workers and the queues.
TypeOK ==
    /\ http \in [Events -> {"idle", "enqueue", "direct", "sync", "accept",
                            "queued", "ok", "error"}]
    /\ row \in [Events -> {"none", "pending", "published", "failed", "pruned"}]
    /\ retry \in [Events -> Nat]
    /\ due \in [Events -> BOOLEAN]
    /\ \A w \in Replicas : Listed(w) \subseteq Events
    /\ at \in [Replicas -> [ev : Events \cup {None}, pc : {"idle", "mark", "fail"}]]
    /\ queue \in [Events -> [Retries -> Nat]]
    /\ job \in [Replicas -> [ev : Events \cup {None}, n : Retries,
                             pc : {"idle", "process", "retry", "ack", "requeue"}]]
    /\ processed \subseteq Events
    /\ tries \in [Events -> 0 .. MaxAlertRetries + 1]
    /\ refused \subseteq Events
    /\ failures \in [Events -> Nat]
    /\ sent \subseteq Events

InJob(e) == \E w \in Replicas : job[w].ev = e /\ job[w].pc # "ack"

Owed(e) == row[e] \in {"pending", "failed"} \/ Copies(e) # {} \/ InJob(e)

State(e) ==
    IF e \in processed THEN "processed"
    ELSE IF GivenUp(e) THEN "parked"
    ELSE IF Owed(e) THEN "owed"
    ELSE IF e \in refused THEN "lost" ELSE "unknown"

\* handleWebhook's promise (webhook/receiver.go:258): once a notification is
\* stored or sent on, no failed mark, crash, second worker, pruning or retry
\* makes it vanish, and 202 is answered only for one that is.  Only the end of
\* the retries loses one, after MaxAlertRetries + 1 failed ProcessAlerts.
Promise == INSTANCE AtLeastOnce
    WITH state <- [e \in Events |-> State(e)],
         told <- [e \in Events |-> http[e] = "queued"],
         Limit <- MaxAlertRetries

KeepsPromise == Promise!Spec

\* A row is given up only after MaxOutboxRetries publications of it failed,
\* although every worker counts from the retry_count it fetched and MarkFailed
\* overwrites the counter.
GivenUpAfterTries ==
    \A e \in Events : GivenUp(e) => failures[e] >= MaxOutboxRetries

\* A row that is marked published, or was pruned as such, has been published.
PublishedWasSent ==
    \A e \in Events : row[e] \in {"published", "pruned"} => e \in sent

\* A notification answered 202 is not owed for ever: it is processed, its row is
\* given up, or the broker has dropped its last retry.
QueuedComesToAnEnd ==
    \A e \in Events :
        http[e] = "queued" ~> State(e) \in {"processed", "parked", "lost"}
=============================================================================
