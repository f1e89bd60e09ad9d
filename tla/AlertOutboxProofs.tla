-------------------------- MODULE AlertOutboxProofs --------------------------
(***************************************************************************)
(* For every number of notifications, replicas and consumers: the types of *)
(* AlertOutbox, that a row is published only after it was sent and given   *)
(* up only after enough failures, that the broker drops a delivery only    *)
(* after its retries, and that the whole intake implements AtLeastOnce     *)
(* when the wire to the broker keeps what it reports.                      *)
(***************************************************************************)
EXTENDS AlertOutbox, FiniteSetTheorems, TLAPS

Rows == {"none", "pending", "published", "failed", "pruned"}
Requests == {"idle", "enqueue", "direct", "sync", "accept", "queued", "ok", "error"}
Places == [ev : Events \cup {None}, pc : {"idle", "mark", "fail"}]
Jobs == [ev : Events \cup {None}, n : Retries,
         pc : {"idle", "process", "retry", "ack", "requeue"}]
Scans == UNION {[S -> Nat] : S \in SUBSET Events}

\* The parts of TypeOK, with what the scan of a worker is, and that a worker
\* that has something to do knows for which event.
RowType ==
    /\ http \in [Events -> Requests]
    /\ row \in [Events -> Rows]
    /\ retry \in [Events -> Nat]
    /\ due \in [Events -> BOOLEAN]

WorkType ==
    /\ listed \in [Replicas -> Scans]
    /\ at \in [Replicas -> Places]
    /\ \A w \in Replicas :
          IF at[w].pc = "idle" THEN at[w] = NoRow ELSE at[w].ev \in Listed(w)

BrokerType ==
    /\ queue \in [Events -> [Retries -> Nat]]
    /\ job \in [Replicas -> Jobs]
    /\ \A w \in Replicas :
          IF job[w].pc = "idle" THEN job[w] = NoJob ELSE job[w].ev \in Events

DoneType ==
    /\ processed \subseteq Events /\ refused \subseteq Events /\ sent \subseteq Events
    /\ tries \in [Events -> 0 .. MaxAlertRetries + 1]
    /\ failures \in [Events -> Nat]

Types == RowType /\ WorkType /\ BrokerType /\ DoneType

LEMMA ScanType ==
    ASSUME NEW f \in Scans
    PROVE  /\ DOMAIN f \subseteq Events
           /\ \A e \in DOMAIN f : f[e] \in Nat
           /\ \A e : [x \in DOMAIN f \ {e} |-> f[x]] \in Scans
<1>1. PICK S \in SUBSET Events : f \in [S -> Nat]
  BY DEF Scans
<1>2. ASSUME NEW e
      PROVE  [x \in DOMAIN f \ {e} |-> f[x]] \in Scans
  <2>1. [x \in S \ {e} |-> f[x]] \in [S \ {e} -> Nat] /\ S \ {e} \in SUBSET Events
    BY <1>1
  <2>2. [S \ {e} -> Nat] \in {[T -> Nat] : T \in SUBSET Events}
    BY <2>1
  <2>3. QED
    BY <1>1, <2>1, <2>2 DEF Scans
<1>3. QED
  BY <1>1, <1>2

LEMMA TypesImply == Types => TypeOK
<1> SUFFICES ASSUME Types PROVE TypeOK
  OBVIOUS
<1>1. \A w \in Replicas : Listed(w) \subseteq Events
  BY ScanType DEF Types, WorkType, Listed
<1>2. QED
  BY <1>1 DEF Types, TypeOK, RowType, WorkType, BrokerType, DoneType, Rows, Requests,
              Places, Jobs

LEMMA InitTypes == Init => Types
<1> SUFFICES ASSUME Init PROVE Types
  OBVIOUS
<1>1. RowType /\ DoneType
  BY OutboxLimits DEF Init, RowType, DoneType, Rows, Requests
<1>2. 0 \in Retries
  BY OutboxLimits DEF Retries
<1>3. BrokerType
  BY <1>2 DEF Init, BrokerType, Jobs, NoJob
<1>4. Nothing \in Scans
  BY DEF Nothing, Scans
<1>5. WorkType
  BY <1>4 DEF Init, WorkType, Places, NoRow
<1>6. QED
  BY <1>1, <1>3, <1>5 DEF Types

\* Copies come and go one by one.
LEMMA PutType ==
    ASSUME BrokerType, NEW e \in Events, NEW n \in Retries, NEW k \in {0, 1}, Put(e, n, k)
    PROVE  queue' \in [Events -> [Retries -> Nat]]
<1>1. queue[e] \in [Retries -> Nat] /\ queue[e][n] + k \in Nat
  BY DEF BrokerType
<1>2. [queue[e] EXCEPT ![n] = queue[e][n] + k] \in [Retries -> Nat]
  BY <1>1
<1>3. queue' = [queue EXCEPT ![e] = [queue[e] EXCEPT ![n] = queue[e][n] + k]]
  BY DEF Put
<1>4. QED
  BY <1>2, <1>3 DEF BrokerType

LEMMA Counts == 0 \in Retries /\ Arrivals \subseteq {0, 1}
                /\ \A e : Strays(e) \subseteq {0, 1}
  BY OutboxLimits DEF Retries, Arrivals, Strays

LEMMA RequestTypes ==
    ASSUME Types, NEW e \in Events, Request(e) \/ BackoffOver(e) \/ PrunePublished(e)
    PROVE  Types'
<1>1. RowType'
  BY DEF Types, RowType, Requests, Rows, Request, Receive, Enqueue, EnqueueError, Direct,
         DirectError, Sync, Reply, HttpLost, BackoffOver, PrunePublished, rows
<1>2. WorkType'
  BY DEF Types, WorkType, Listed, Request, Receive, Enqueue, EnqueueError, Direct,
         DirectError, Sync, Reply, HttpLost, BackoffOver, PrunePublished, outbox
<1>3. BrokerType'
  <2>1. CASE Direct(e)
    BY <2>1, PutType, Counts DEF Direct, Types, BrokerType
  <2>2. CASE DirectError(e)
    BY <2>2, PutType, Counts DEF DirectError, Types, BrokerType
  <2>3. QED
    BY <2>1, <2>2 DEF Types, BrokerType, Request, Receive, Enqueue, EnqueueError, Sync,
                      Reply, HttpLost, BackoffOver, PrunePublished, broker
<1>4. DoneType'
  BY DEF Types, DoneType, Request, Receive, Enqueue, EnqueueError, Direct,
         DirectError, Sync, Reply, HttpLost, BackoffOver, PrunePublished, history, done
<1>5. QED
  BY <1>1, <1>2, <1>3, <1>4 DEF Types

LEMMA LeaveType ==
    ASSUME WorkType, NEW w \in Replicas, Leave(w)
    PROVE  WorkType'
<1>1. /\ at' = [at EXCEPT ![w] = NoRow]
      /\ listed' = [listed EXCEPT ![w] = [e \in DOMAIN listed[w] \ {at[w].ev} |->
                                             listed[w][e]]]
  BY DEF Leave, Listed, WorkType
<1>2. [e \in DOMAIN listed[w] \ {at[w].ev} |-> listed[w][e]] \in Scans
  BY ScanType DEF WorkType
<1>3. NoRow \in Places /\ NoRow.pc = "idle"
  BY DEF NoRow, Places
<1>4. QED
  BY <1>1, <1>2, <1>3 DEF WorkType, Listed

LEMMA OutboxWorkerTypes ==
    ASSUME Types, NEW w \in Replicas, OutboxWorker(w)
    PROVE  Types'
<1>1. CASE Fetch(w)
  <2> DEFINE found == {e \in Events : Fetchable(e)}
             scan == [e \in found |-> retry[e]]
  <2>1. scan \in Scans
    <3>1. found \in SUBSET Events /\ scan \in [found -> Nat]
      BY DEF Types, RowType
    <3>2. [found -> Nat] \in {[T -> Nat] : T \in SUBSET Events}
      BY <3>1
    <3>3. QED
      BY <3>1, <3>2 DEF Scans
  <2>2. /\ listed' = [listed EXCEPT ![w] = scan] /\ at[w] = NoRow
        /\ UNCHANGED <<http, rows, at, broker, done, history>>
    BY <1>1 DEF Fetch
  <2> HIDE DEF scan
  <2>3. WorkType'
    BY <2>1, <2>2 DEF Types, WorkType, Listed, NoRow
  <2>4. QED
    BY <2>2, <2>3 DEF Types, RowType, BrokerType, DoneType, rows, broker, history, done
<1>2. CASE PublishRaw(w)
  <2>1. PICK e \in Listed(w), k \in Arrivals :
           /\ Put(e, 0, k)
           /\ at' = [at EXCEPT ![w] = [ev |-> e, pc |-> "mark"]]
           /\ sent' = sent \cup {e}
    BY <1>2 DEF PublishRaw
  <2>2. UNCHANGED <<http, rows, listed, job, done, failures>>
    BY <1>2 DEF PublishRaw
  <2>3. e \in Events
    BY ScanType DEF Types, WorkType, Listed
  <2>4. WorkType'
    BY <2>1, <2>2, <2>3 DEF Types, WorkType, Listed, Places
  <2>5. BrokerType'
    BY <2>1, <2>2, <2>3, PutType, Counts DEF Types, BrokerType
  <2>6. QED
    BY <2>1, <2>2, <2>3, <2>4, <2>5 DEF Types, RowType, DoneType, rows, done
<1>3. CASE PublishRawError(w)
  <2>1. PICK e \in Listed(w) : \E k \in Strays(e) :
           /\ Put(e, 0, k)
           /\ at' = [at EXCEPT ![w] = [ev |-> e, pc |-> "fail"]]
           /\ failures' = [failures EXCEPT ![e] = @ + 1]
    BY <1>3 DEF PublishRawError
  <2>2. UNCHANGED <<http, rows, listed, job, done, sent>>
    BY <1>3 DEF PublishRawError
  <2>3. e \in Events
    BY ScanType DEF Types, WorkType, Listed
  <2>4. WorkType'
    BY <2>1, <2>2, <2>3 DEF Types, WorkType, Listed, Places
  <2>5. BrokerType'
    <3>1. PICK k \in Strays(e) : Put(e, 0, k)
      BY <2>1
    <3>2. QED
      BY <2>2, <2>3, <3>1, PutType, Counts DEF Types, BrokerType
  <2>6. QED
    BY <2>1, <2>2, <2>3, <2>4, <2>5 DEF Types, RowType, DoneType, rows, done
<1>4. CASE MarkPublished(w) \/ IncrementRetry(w) \/ MarkFailed(w) \/ MarkError(w)
  <2>1. /\ Leave(w)
        /\ UNCHANGED <<http, broker, done, history>>
    BY <1>4 DEF MarkPublished, IncrementRetry, MarkFailed, MarkError
  <2>2. WorkType'
    BY <2>1, LeaveType DEF Types
  <2>3. RowType'
    <3>1. CASE MarkPublished(w) \/ MarkError(w)
      BY <3>1 DEF Types, RowType, Rows, rows, MarkPublished, MarkError
    <3>2. CASE IncrementRetry(w) \/ MarkFailed(w)
      <4> DEFINE e == at[w].ev
      <4>1. CASE Exists(e)
        <5>1. e \in Events
          BY <3>2, ScanType DEF Types, WorkType, Listed, NoRow, IncrementRetry, MarkFailed
        <5>2. /\ row' = [row EXCEPT ![e] = "failed"]
              /\ \E b \in BOOLEAN : due' = [due EXCEPT ![e] = b]
              /\ \E n \in Nat : retry' = [retry EXCEPT ![e] = n]
          <6>1. CASE IncrementRetry(w)
            <7>1. /\ row' = [row EXCEPT ![e] = "failed"]
                  /\ due' = [due EXCEPT ![e] = FALSE]
                  /\ retry' = [retry EXCEPT ![e] = retry[e] + 1]
              BY <4>1, <6>1 DEF IncrementRetry
            <7>2. retry[e] + 1 \in Nat
              BY <5>1 DEF Types, RowType
            <7> HIDE DEF e
            <7>3. QED
              BY <7>1, <7>2
          <6>2. CASE MarkFailed(w)
            <7>1. /\ row' = [row EXCEPT ![e] = "failed"]
                  /\ due' = [due EXCEPT ![e] = TRUE]
                  /\ retry' = [retry EXCEPT ![e] = MaxOutboxRetries]
              BY <4>1, <6>2 DEF MarkFailed
            <7> HIDE DEF e
            <7>2. QED
              BY <7>1, OutboxLimits
          <6>3. QED
            BY <3>2, <6>1, <6>2
        <5>3. UNCHANGED http
          BY <2>1
        <5> HIDE DEF e
        <5>4. QED
          BY <5>1, <5>2, <5>3 DEF Types, RowType, Rows
      <4>2. CASE ~Exists(e)
        BY <3>2, <4>2 DEF Types, RowType, rows, IncrementRetry, MarkFailed
      <4>3. QED
        BY <4>1, <4>2
    <3>3. QED
      BY <1>4, <3>1, <3>2
  <2>4. QED
    BY <2>1, <2>2, <2>3 DEF Types, BrokerType, DoneType, broker, history, done
<1>5. QED
  BY <1>1, <1>2, <1>3, <1>4 DEF OutboxWorker

LEMMA AlertWorkerTypes ==
    ASSUME Types, NEW w \in Replicas, AlertWorker(w)
    PROVE  Types'
<1>1. UNCHANGED <<http, rows, outbox, history>>
  BY DEF AlertWorker, Deliver, ProcessAlerts, PublishAlertRetry, DeadLetter, Ack, Requeue
<1>2. RowType' /\ WorkType'
  BY <1>1 DEF Types, RowType, WorkType, Listed, rows, outbox
<1>3. NoJob \in Jobs /\ NoJob.pc = "idle"
  BY Counts DEF NoJob, Jobs
<1>4. CASE Deliver(w)
  <2>1. PICK e \in Events, n \in Retries :
          /\ queue[e][n] > 0 /\ Put(e, n, 0 - 1)
          /\ job' = [job EXCEPT ![w] = [ev |-> e, n |-> n, pc |-> "process"]]
    BY <1>4 DEF Deliver
  <2>2. queue' \in [Events -> [Retries -> Nat]]
    BY <2>1 DEF Types, BrokerType, Put
  <2>3. BrokerType'
    BY <2>1, <2>2 DEF Types, BrokerType, Jobs
  <2>4. QED
    BY <1>1, <1>2, <1>4, <2>3 DEF Types, Deliver, DoneType, history, done
<1>5. CASE ProcessAlerts(w)
  <2>1. BrokerType'
    <3>1. PICK q \in {"ack", "retry"} : job' = [job EXCEPT ![w].pc = q]
      BY <1>5 DEF ProcessAlerts
    <3>2. UNCHANGED queue
      BY <1>5 DEF ProcessAlerts
    <3>3. QED
      BY <1>5, <3>1, <3>2 DEF Types, ProcessAlerts, BrokerType, Jobs
  <2>2. DoneType'
    <3>1. job[w].ev \in Events
      BY <1>5 DEF Types, BrokerType, ProcessAlerts
    <3>2. \A n \in 0 .. MaxAlertRetries + 1 : UpToLimit(n + 1) \in 0 .. MaxAlertRetries + 1
      BY OutboxLimits DEF UpToLimit
    <3>3. tries' \in [Events -> 0 .. MaxAlertRetries + 1]
      BY <1>5, <3>1, <3>2 DEF Types, DoneType, ProcessAlerts
    <3>4. QED
      BY <1>1, <1>5, <3>1, <3>3 DEF Types, ProcessAlerts, DoneType, history
  <2>3. QED
    BY <1>2, <2>1, <2>2 DEF Types
<1>6. CASE PublishAlertRetry(w)
  <2>1. /\ job[w].ev \in Events /\ job[w].n + 1 \in Retries
        /\ job[w] \in Jobs
    BY <1>6, OutboxLimits DEF Types, BrokerType, PublishAlertRetry, Retries, Jobs
  <2>2. PICK k \in {0, 1} : Put(job[w].ev, job[w].n + 1, k)
    BY <1>6, Counts DEF PublishAlertRetry
  <2>3. queue' \in [Events -> [Retries -> Nat]]
    BY <2>1, <2>2, PutType DEF Types
  <2>4. BrokerType'
    <3>1. PICK q \in {"ack", "requeue"} : job' = [job EXCEPT ![w].pc = q]
      BY <1>6 DEF PublishAlertRetry
    <3>2. [job[w] EXCEPT !.pc = q] \in Jobs
      BY <2>1 DEF Jobs
    <3>3. job' = [job EXCEPT ![w] = [job[w] EXCEPT !.pc = q]]
      BY <3>1
    <3>4. /\ [job[w] EXCEPT !.pc = q].pc = q
          /\ [job[w] EXCEPT !.pc = q].ev = job[w].ev
      BY <2>1 DEF Jobs
    <3> QED
      BY <2>1, <2>3, <3>2, <3>3, <3>4 DEF Types, BrokerType
  <2>5. QED
    BY <1>1, <1>2, <1>6, <2>4 DEF Types, PublishAlertRetry, DoneType, history, done
<1>7. CASE DeadLetter(w)
  BY <1>1, <1>2, <1>3, <1>7 DEF Types, DeadLetter, BrokerType, DoneType, history, done
<1>8. CASE Ack(w)
  BY <1>1, <1>2, <1>3, <1>8 DEF Types, Ack, BrokerType, DoneType, history, done
<1>9. CASE Requeue(w)
  <2>1. job[w].n \in Retries /\ job[w].ev \in Events
    BY <1>9 DEF Types, BrokerType, Jobs, Requeue
  <2>2. queue' \in [Events -> [Retries -> Nat]]
    BY <1>9, <2>1, PutType DEF Types, Requeue
  <2>3. QED
    BY <1>1, <1>2, <1>3, <1>9, <2>2 DEF Types, Requeue, BrokerType, DoneType, history, done
<1>10. QED
  BY <1>4, <1>5, <1>6, <1>7, <1>8, <1>9 DEF AlertWorker

LEMMA CrashTypes ==
    ASSUME Types, NEW w \in Replicas, Crash(w)
    PROVE  Types'
<1>1. NoJob \in Jobs /\ NoJob.pc = "idle" /\ Nothing \in Scans
  BY Counts DEF NoJob, Jobs, Nothing, Scans
<1>2. WorkType'
  BY <1>1 DEF Types, WorkType, Crash, Listed, NoRow, Places
<1>3. job[w] # NoJob => job[w].n \in Retries /\ job[w].ev \in Events
  BY DEF Types, BrokerType, Jobs
<1>4. queue' \in [Events -> [Retries -> Nat]]
  BY <1>3, PutType DEF Types, BrokerType, Crash
<1>5. BrokerType'
  BY <1>1, <1>4 DEF Types, BrokerType, Crash
<1>6. QED
  BY <1>2, <1>5 DEF Types, RowType, DoneType, Crash, rows, done

LEMMA NextTypes == Types /\ [Next]_vars => Types'
<1> SUFFICES ASSUME Types, [Next]_vars PROVE Types'
  OBVIOUS
<1>1. CASE UNCHANGED vars
  BY <1>1 DEF Types, RowType, WorkType, BrokerType, DoneType, Listed, vars, rows, outbox,
              broker, history, done
<1>2. QED
  BY <1>1, RequestTypes, OutboxWorkerTypes, AlertWorkerTypes, CrashTypes DEF Next

-----------------------------------------------------------------------------
(* A published row was sent. *)

Sent ==
    /\ \A w \in Replicas : at[w].pc = "mark" => at[w].ev \in sent
    /\ PublishedWasSent

LEMMA SentStep == Types /\ Sent /\ [Next]_vars => Sent'
<1> SUFFICES ASSUME Types, Sent, [Next]_vars PROVE Sent'
  OBVIOUS
<1>1. CASE UNCHANGED vars
  BY <1>1 DEF Sent, PublishedWasSent, vars, rows, outbox, history
<1>2. ASSUME NEW e \in Events, Request(e) \/ BackoffOver(e) \/ PrunePublished(e)
      PROVE  Sent'
  <2>1. UNCHANGED <<at, sent>>
    BY <1>2 DEF Request, Receive, Enqueue, EnqueueError, Direct, DirectError, Sync, Reply,
                HttpLost, BackoffOver, PrunePublished, outbox, history
  <2>2. \A f \in Events :
           row'[f] \in {"published", "pruned"} => row[f] \in {"published", "pruned"}
    BY <1>2 DEF Types, RowType, Request, Receive, Enqueue, EnqueueError, Direct,
                DirectError, Sync, Reply, HttpLost, BackoffOver, PrunePublished, rows
  <2>3. QED
    BY <2>1, <2>2 DEF Sent, PublishedWasSent
<1>3. ASSUME NEW w \in Replicas, OutboxWorker(w)
      PROVE  Sent'
  <2>1. CASE PublishRaw(w)
    BY <2>1 DEF Types, WorkType, Sent, PublishedWasSent, PublishRaw, rows
  <2>2. CASE PublishRawError(w) \/ Fetch(w)
    BY <2>2 DEF Types, WorkType, Sent, PublishedWasSent, PublishRawError, Fetch, rows,
                history
  <2>3. CASE MarkPublished(w) \/ IncrementRetry(w) \/ MarkFailed(w) \/ MarkError(w)
    <3>1. /\ at' = [at EXCEPT ![w] = NoRow] /\ UNCHANGED sent
      BY <2>3 DEF MarkPublished, IncrementRetry, MarkFailed, MarkError, Leave, history
    <3>2. \A f \in Events :
             row'[f] \in {"published", "pruned"} =>
                 row[f] \in {"published", "pruned"} \/ (at[w].pc = "mark" /\ at[w].ev = f)
      BY <2>3 DEF Types, RowType, MarkPublished, IncrementRetry, MarkFailed, MarkError,
                  rows
    <3>3. QED
      BY <3>1, <3>2 DEF Types, WorkType, Sent, PublishedWasSent, NoRow
  <2>4. QED
    BY <1>3, <2>1, <2>2, <2>3 DEF OutboxWorker
<1>4. ASSUME NEW w \in Replicas, AlertWorker(w)
      PROVE  Sent'
  BY <1>4 DEF Sent, PublishedWasSent, AlertWorker, Deliver, ProcessAlerts,
              PublishAlertRetry, DeadLetter, Ack, Requeue, rows, outbox, history
<1>5. ASSUME NEW w \in Replicas, Crash(w)
      PROVE  Sent'
  BY <1>5 DEF Types, WorkType, Sent, PublishedWasSent, Crash, rows, NoRow
<1>6. QED
  BY <1>1, <1>2, <1>3, <1>4, <1>5 DEF Next

-----------------------------------------------------------------------------
(* Failures pay for the retry counter. *)

\* The workers that are about to write down a failed publication of e.
Failing(e) == {w \in Replicas : at[w].ev = e /\ at[w].pc = "fail"}

\* The counter and what is still to be written never exceed the failures, and no
\* worker holds a count that is above the counter or at the limit.
PaidFor(e) ==
    /\ row[e] = "none" => retry[e] = 0
    /\ http[e] \in {"idle", "enqueue"} => row[e] = "none"
    /\ row[e] = "pending" => retry[e] < MaxOutboxRetries
    /\ retry[e] + Cardinality(Failing(e)) <= failures[e]
    /\ \A w \in Replicas :
          e \in Listed(w) =>
              listed[w][e] < MaxOutboxRetries /\ listed[w][e] <= retry[e]

Paid == \A e \in Events : PaidFor(e)

LEMMA FailingFinite ==
    \A e : IsFiniteSet(Failing(e)) /\ Cardinality(Failing(e)) \in Nat
<1>1. ASSUME NEW e PROVE IsFiniteSet(Failing(e)) /\ Cardinality(Failing(e)) \in Nat
  <2>1. Failing(e) \subseteq Replicas
    BY DEF Failing
  <2>2. QED
    BY <2>1, OutboxReplicas, FS_Subset, FS_CardinalityType
<1>2. QED
  BY <1>1

LEMMA PaidImplies == Types /\ Paid => GivenUpAfterTries
<1> SUFFICES ASSUME Types, Paid, NEW e \in Events, GivenUp(e)
             PROVE  failures[e] >= MaxOutboxRetries
  BY DEF GivenUpAfterTries
<1>1. Cardinality(Failing(e)) \in Nat
  BY FailingFinite
<1>2. /\ retry[e] \in Nat /\ failures[e] \in Nat /\ retry[e] >= MaxOutboxRetries
      /\ retry[e] + Cardinality(Failing(e)) <= failures[e]
  BY DEF Types, RowType, DoneType, Paid, PaidFor, GivenUp
<1>3. QED
  BY <1>1, <1>2, OutboxLimits

\* A worker that leaves its row.
LEMMA FailingLess ==
    ASSUME WorkType, NEW w \in Replicas, at' = [at EXCEPT ![w] = NoRow],
           NEW e \in Events
    PROVE  /\ Cardinality(Failing(e)') \in Nat
           /\ Cardinality(Failing(e)') <= Cardinality(Failing(e))
           /\ w \in Failing(e) => Cardinality(Failing(e)') + 1 <= Cardinality(Failing(e))
<1>1. Failing(e)' = Failing(e) \ {w}
  BY OutboxNone DEF WorkType, Failing, NoRow
<1>2. /\ Cardinality(Failing(e) \ {w}) =
             IF w \in Failing(e) THEN Cardinality(Failing(e)) - 1
                                 ELSE Cardinality(Failing(e))
      /\ IsFiniteSet(Failing(e) \ {w})
  BY FailingFinite, FS_RemoveElement
<1>3. Cardinality(Failing(e) \ {w}) \in Nat /\ Cardinality(Failing(e)) \in Nat
  BY <1>2, FailingFinite, FS_CardinalityType
<1>4. QED
  BY <1>1, <1>2, <1>3

LEMMA RequestPaid ==
    ASSUME Types, Paid, NEW f \in Events,
           Request(f) \/ BackoffOver(f) \/ PrunePublished(f)
    PROVE  Paid'
<1> SUFFICES ASSUME NEW e \in Events PROVE PaidFor(e)'
  BY DEF Paid
<1>1. PaidFor(e)
  BY DEF Paid
<1>2. UNCHANGED <<retry, listed, at, failures>>
  BY DEF Request, Receive, Enqueue, EnqueueError, Direct, DirectError, Sync, Reply,
         HttpLost, BackoffOver, PrunePublished, rows, outbox, history
<1>3. Failing(e)' = Failing(e)
  BY <1>2 DEF Failing
<1>4. /\ row'[e] = "none" => row[e] = "none"
      /\ http'[e] \in {"idle", "enqueue"} => row'[e] = row[e] /\ http[e] \in {"idle", "enqueue"}
      /\ row'[e] = "pending" => row[e] = "pending" \/ http[e] = "enqueue"
  <2>1. CASE Receive(f) \/ Enqueue(f)
    BY <2>1 DEF Types, RowType, Receive, Enqueue, rows
  <2>2. CASE EnqueueError(f)
    BY <2>2 DEF Types, RowType, EnqueueError
  <2>3. CASE \/ Direct(f) \/ DirectError(f) \/ Sync(f) \/ Reply(f) \/ HttpLost(f)
    BY <2>3 DEF Types, RowType, Direct, DirectError, Sync, Reply, HttpLost, rows
  <2>4. CASE BackoffOver(f) \/ PrunePublished(f)
    BY <2>4, <1>1 DEF Types, RowType, BackoffOver, PrunePublished, PaidFor
  <2>5. QED
    BY <2>1, <2>2, <2>3, <2>4 DEF Request
<1>5. QED
  BY <1>1, <1>2, <1>3, <1>4, OutboxLimits DEF PaidFor, Listed

LEMMA OutboxWorkerPaid ==
    ASSUME Types, Paid, NEW w \in Replicas, OutboxWorker(w)
    PROVE  Paid'
<1> SUFFICES ASSUME NEW e \in Events PROVE PaidFor(e)'
  BY DEF Paid
<1>1. PaidFor(e)
  BY DEF Paid
<1>2. /\ retry[e] \in Nat /\ failures[e] \in Nat
      /\ \A v \in Replicas : \A f \in Listed(v) : f \in Events /\ listed[v][f] \in Nat
  BY ScanType DEF Types, RowType, DoneType, WorkType, Listed
<1>3. Cardinality(Failing(e)) \in Nat /\ IsFiniteSet(Failing(e))
  BY FailingFinite
<1>4. CASE Fetch(w)
  <2>1. UNCHANGED <<http, row, retry, at, failures>>
    BY <1>4 DEF Fetch, rows, history
  <2>2. Failing(e)' = Failing(e)
    BY <2>1 DEF Failing
  <2>3. \A v \in Replicas :
           e \in Listed(v)' =>
               \/ e \in Listed(v) /\ listed'[v][e] = listed[v][e]
               \/ Fetchable(e) /\ listed'[v][e] = retry[e]
    BY <1>4 DEF Fetch, Types, WorkType, Listed
  <2>4. Fetchable(e) => retry[e] < MaxOutboxRetries
    BY <1>1 DEF PaidFor, Fetchable
  <2>5. QED
    BY <1>1, <1>2, <2>1, <2>2, <2>3, <2>4 DEF PaidFor
<1>5. CASE PublishRaw(w)
  <2>1. /\ UNCHANGED <<http, row, retry, listed, failures>>
        /\ at[w] = NoRow
        /\ \E f \in Listed(w) : at' = [at EXCEPT ![w] = [ev |-> f, pc |-> "mark"]]
    BY <1>5 DEF PublishRaw, rows
  <2>2. Failing(e)' = Failing(e)
    BY <2>1 DEF Failing, Types, WorkType, NoRow
  <2>3. QED
    BY <1>1, <2>1, <2>2 DEF PaidFor, Listed
<1>6. CASE PublishRawError(w)
  <2>1. PICK f \in Listed(w) : /\ at' = [at EXCEPT ![w] = [ev |-> f, pc |-> "fail"]]
                               /\ failures' = [failures EXCEPT ![f] = @ + 1]
    BY <1>6 DEF PublishRawError
  <2>2. UNCHANGED <<http, row, retry, listed>> /\ at[w] = NoRow
    BY <1>6 DEF PublishRawError, rows
  <2>3. CASE f = e
    <3>1. Failing(e)' = Failing(e) \cup {w}
      BY <2>1, <2>3 DEF Failing, Types, WorkType
    <3>2. w \notin Failing(e)
      BY <2>2 DEF Failing, NoRow
    <3>3. Cardinality(Failing(e)') = Cardinality(Failing(e)) + 1
      BY <1>3, <3>1, <3>2, FS_AddElement
    <3>4. failures'[e] = failures[e] + 1
      BY <2>1, <2>3 DEF Types, DoneType
    <3>5. QED
      BY <1>1, <1>2, <1>3, <2>2, <3>3, <3>4 DEF PaidFor, Listed
  <2>4. CASE f # e
    <3>1. Failing(e)' = Failing(e)
      BY <2>1, <2>2, <2>4 DEF Failing, Types, WorkType, NoRow
    <3>2. failures'[e] = failures[e]
      BY <2>1, <2>4 DEF Types, DoneType
    <3>3. QED
      BY <1>1, <2>2, <3>1, <3>2 DEF PaidFor, Listed
  <2>5. QED
    BY <2>3, <2>4
<1>7. CASE MarkPublished(w) \/ IncrementRetry(w) \/ MarkFailed(w) \/ MarkError(w)
  <2> DEFINE f == at[w].ev
  <2>1. Leave(w) /\ UNCHANGED <<http, failures>>
    BY <1>7 DEF MarkPublished, IncrementRetry, MarkFailed, MarkError, history
  <2>2. /\ at' = [at EXCEPT ![w] = NoRow]
        /\ \A v \in Replicas :
              e \in Listed(v)' => e \in Listed(v) /\ listed'[v][e] = listed[v][e]
    BY <2>1 DEF Leave, Types, WorkType, Listed
  <2>3. /\ Cardinality(Failing(e)') \in Nat
        /\ Cardinality(Failing(e)') <= Cardinality(Failing(e))
        /\ w \in Failing(e) => Cardinality(Failing(e)') + 1 <= Cardinality(Failing(e))
    BY <2>2, FailingLess DEF Types
  <2>4. at[w].pc # "idle" => f \in Listed(w)
    BY DEF Types, WorkType
  <2>5. CASE MarkPublished(w) \/ MarkError(w) \/ f # e \/ ~Exists(e)
    <3>1. /\ retry'[e] = retry[e]
          /\ row'[e] = row[e] \/ (row'[e] = "published" /\ row[e] # "none")
      BY <1>7, <2>5 DEF MarkPublished, IncrementRetry, MarkFailed, MarkError, rows, Exists,
                        Types, RowType
    <3>2. QED
      BY <1>1, <1>2, <1>3, <2>1, <2>2, <2>3, <3>1 DEF PaidFor
  <2>6. CASE IncrementRetry(w) /\ f = e /\ Exists(e)
    <3>1. /\ retry'[e] = retry[e] + 1 /\ row'[e] = "failed" /\ row[e] # "none"
          /\ w \in Failing(e)
      BY <1>2, <2>6 DEF IncrementRetry, Exists, Types, RowType, Failing
    <3>2. QED
      BY <1>1, <1>2, <1>3, <2>1, <2>2, <2>3, <3>1 DEF PaidFor
  <2>7. CASE MarkFailed(w) /\ f = e /\ Exists(e)
    <3>1. /\ retry'[e] = MaxOutboxRetries /\ row'[e] = "failed" /\ row[e] # "none"
          /\ w \in Failing(e) /\ listed[w][e] + 1 >= MaxOutboxRetries
      BY <1>2, <2>7 DEF MarkFailed, Exists, Types, RowType, Failing
    <3>2. e \in Listed(w)
      BY <2>4, <2>7 DEF MarkFailed
    <3>3. retry[e] + 1 >= MaxOutboxRetries /\ listed[w][e] <= retry[e]
      BY <1>1, <1>2, <3>1, <3>2, OutboxLimits DEF PaidFor
    <3>4. retry'[e] + Cardinality(Failing(e)') <= failures'[e]
      BY <1>1, <1>2, <1>3, <2>1, <2>3, <3>1, <3>3, OutboxLimits DEF PaidFor
    <3>5. \A v \in Replicas :
             e \in Listed(v)' =>
                 /\ listed'[v][e] < MaxOutboxRetries
                 /\ listed'[v][e] <= MaxOutboxRetries
      BY <1>1, <1>2, <2>2, OutboxLimits DEF PaidFor
    <3>6. QED
      BY <1>1, <2>1, <3>1, <3>4, <3>5 DEF PaidFor
  <2>8. QED
    BY <1>7, <2>5, <2>6, <2>7
<1>8. QED
  BY <1>4, <1>5, <1>6, <1>7 DEF OutboxWorker

LEMMA PaidStep == Types /\ Paid /\ [Next]_vars => Paid'
<1> SUFFICES ASSUME Types, Paid, [Next]_vars PROVE Paid'
  OBVIOUS
<1>1. CASE UNCHANGED vars
  BY <1>1 DEF Paid, PaidFor, Listed, Failing, vars, rows, outbox, history
<1>2. ASSUME NEW w \in Replicas, AlertWorker(w)
      PROVE  Paid'
  BY <1>2 DEF Paid, PaidFor, Listed, Failing, AlertWorker, Deliver, ProcessAlerts,
              PublishAlertRetry, DeadLetter, Ack, Requeue, rows, outbox, history
<1>3. ASSUME NEW w \in Replicas, Crash(w)
      PROVE  Paid'
  <2> SUFFICES ASSUME NEW e \in Events PROVE PaidFor(e)'
    BY DEF Paid
  <2>1. /\ PaidFor(e) /\ retry[e] \in Nat /\ failures[e] \in Nat
        /\ Cardinality(Failing(e)) \in Nat
    BY FailingFinite DEF Paid, Types, RowType, DoneType
  <2>2. /\ UNCHANGED <<http, row, retry, failures>>
        /\ at' = [at EXCEPT ![w] = NoRow]
        /\ \A v \in Replicas :
              e \in Listed(v)' => e \in Listed(v) /\ listed'[v][e] = listed[v][e]
    BY <1>3 DEF Crash, rows, Types, WorkType, Listed, Nothing
  <2>3. /\ Cardinality(Failing(e)') \in Nat
        /\ Cardinality(Failing(e)') <= Cardinality(Failing(e))
    BY <2>2, FailingLess DEF Types
  <2>4. QED
    BY <2>1, <2>2, <2>3 DEF PaidFor
<1>4. QED
  BY <1>1, <1>2, <1>3, RequestPaid, OutboxWorkerPaid DEF Next

-----------------------------------------------------------------------------
(* Failures pay for the retry number of a delivery. *)

\* A copy with number n has n failures of ProcessAlerts behind it, a delivery
\* that failed one more, and what the broker dropped all of them.
TriedFor(e) ==
    /\ \A n \in Retries : queue[e][n] > 0 => tries[e] >= n
    /\ \A w \in Replicas :
          job[w].ev = e =>
              /\ tries[e] >= job[w].n
              /\ job[w].pc = "retry" => tries[e] >= job[w].n + 1
    /\ e \in refused => tries[e] > MaxAlertRetries

Tried == \A e \in Events : TriedFor(e)

\* A step that puts one copy with an allowed number, or takes some, and whose
\* deliveries are allowed.
LEMMA TriedPut ==
    ASSUME Types, Tried, UNCHANGED <<tries, refused>>,
           NEW e \in Events, NEW n \in Retries, NEW k \in {0 - 1, 0, 1}, Put(e, n, k),
           k = 1 => tries[e] >= n,
           \A w \in Replicas : \/ job'[w].ev = None
                               \/ /\ job'[w].ev = job[w].ev /\ job'[w].n = job[w].n
                                  /\ job'[w].pc = "retry" => job[w].pc = "retry"
                               \/ /\ job'[w].pc # "retry" /\ job'[w].n \in Retries
                                  /\ job'[w].ev \in Events
                                  /\ queue[job'[w].ev][job'[w].n] > 0
    PROVE  Tried'
<1>1. \A f \in Events, m \in Retries :
         queue'[f][m] = IF f = e /\ m = n THEN queue[f][m] + k ELSE queue[f][m]
  BY DEF Put, Types, BrokerType
<1>2. \A f \in Events, m \in Retries : queue[f][m] \in Nat /\ m \in Nat
  BY OutboxLimits DEF Types, BrokerType, Retries
<1>3. \A f \in Events, m \in Retries :
         queue'[f][m] > 0 => queue[f][m] > 0 \/ (f = e /\ m = n /\ k = 1)
  BY <1>1, <1>2
<1> SUFFICES ASSUME NEW f \in Events PROVE TriedFor(f)'
  BY DEF Tried
<1>4. TriedFor(f)
  BY DEF Tried
<1>5. \A m \in Retries : queue'[f][m] > 0 => tries'[f] >= m
  BY <1>3, <1>4 DEF TriedFor
<1>6. ASSUME NEW w \in Replicas, job'[w].ev = f
      PROVE  /\ tries'[f] >= job'[w].n
             /\ job'[w].pc = "retry" => tries'[f] >= job'[w].n + 1
  BY <1>4, <1>6, OutboxNone DEF TriedFor
<1>7. QED
  BY <1>4, <1>5, <1>6 DEF TriedFor

LEMMA RequestTried ==
    ASSUME Types, Tried, NEW e \in Events,
           Request(e) \/ BackoffOver(e) \/ PrunePublished(e)
    PROVE  Tried'
<1>1. UNCHANGED <<job, tries, refused>>
  BY DEF Request, Receive, Enqueue, EnqueueError, Direct, DirectError, Sync, Reply,
         HttpLost, BackoffOver, PrunePublished, broker, done
<1>2. UNCHANGED queue \/ \E k \in {0, 1} : Put(e, 0, k)
  BY Counts DEF Request, Receive, Enqueue, EnqueueError, Direct, DirectError, Sync, Reply,
         HttpLost, BackoffOver, PrunePublished, broker
<1>3. tries[e] >= 0
  BY OutboxLimits DEF Types, DoneType
<1>4. CASE UNCHANGED queue
  BY <1>1, <1>4 DEF Tried, TriedFor
<1>5. QED
  BY <1>1, <1>2, <1>3, <1>4, TriedPut, Counts

LEMMA OutboxWorkerTried ==
    ASSUME Types, Tried, NEW w \in Replicas, OutboxWorker(w)
    PROVE  Tried'
<1>1. UNCHANGED <<job, tries, refused>>
  BY DEF OutboxWorker, Fetch, PublishRaw, PublishRawError, MarkPublished, IncrementRetry,
         MarkFailed, MarkError, broker, done
<1>2. UNCHANGED queue \/ \E e \in Events, k \in {0, 1} : Put(e, 0, k)
  BY Counts, ScanType DEF OutboxWorker, Fetch, PublishRaw, PublishRawError, MarkPublished,
         IncrementRetry, MarkFailed, MarkError, broker, Types, WorkType, Listed
<1>3. \A e \in Events : tries[e] >= 0
  BY OutboxLimits DEF Types, DoneType
<1>4. CASE UNCHANGED queue
  BY <1>1, <1>4 DEF Tried, TriedFor
<1>5. QED
  BY <1>1, <1>2, <1>3, <1>4, TriedPut, Counts

LEMMA AlertWorkerTried ==
    ASSUME Types, Tried, NEW w \in Replicas, AlertWorker(w) \/ (Crash(w) /\ job[w] # NoJob)
    PROVE  Tried'
<1>1. \A v \in Replicas : v # w => job'[v] = job[v]
  BY DEF Types, BrokerType, AlertWorker, Deliver, ProcessAlerts, PublishAlertRetry,
         DeadLetter, Ack, Requeue, Crash
<1>2. CASE Deliver(w)
  <2>1. PICK e \in Events, n \in Retries :
          /\ queue[e][n] > 0 /\ Put(e, n, 0 - 1)
          /\ job' = [job EXCEPT ![w] = [ev |-> e, n |-> n, pc |-> "process"]]
          /\ UNCHANGED <<tries, refused>>
    BY <1>2 DEF Deliver, done
  <2>2. job'[w] = [ev |-> e, n |-> n, pc |-> "process"]
    BY <2>1 DEF Types, BrokerType
  <2>3. QED
    BY <1>1, <2>1, <2>2, TriedPut
<1>3. CASE ~Deliver(w)
  <2>1. PICK e \in Events, n \in Retries :
           /\ job[w].pc # "idle" /\ job[w].ev = e /\ job[w].n = n /\ n \in Nat
           /\ job[w] \in Jobs
    BY <1>3, OutboxLimits DEF Types, BrokerType, Jobs, NoJob, AlertWorker, ProcessAlerts,
                PublishAlertRetry, DeadLetter, Ack, Requeue, Retries
  <2>2. /\ TriedFor(e) /\ tries[e] \in Nat /\ tries[e] >= n
        /\ job[w].pc = "retry" => tries[e] >= n + 1
    BY <2>1, OutboxLimits DEF Tried, TriedFor, Types, DoneType
  <2>3. CASE ProcessAlerts(w)
    <3>1. UNCHANGED <<queue, refused>>
      BY <2>3 DEF ProcessAlerts
    <3>2. \/ UNCHANGED tries /\ job' = [job EXCEPT ![w].pc = "ack"]
          \/ /\ tries' = [tries EXCEPT ![e] = UpToLimit(@ + 1)]
             /\ job' = [job EXCEPT ![w].pc = "retry"]
      BY <2>1, <2>3 DEF ProcessAlerts
    <3>3. n <= MaxAlertRetries
      BY <2>1, OutboxLimits DEF Retries
    <3>4. CASE UNCHANGED tries /\ job' = [job EXCEPT ![w].pc = "ack"]
      <4>1. job'[w].ev = e /\ job'[w].n = n /\ job'[w].pc = "ack"
        BY <2>1, <3>4 DEF Types, BrokerType, Jobs
      <4>2. QED
        BY <1>1, <2>1, <3>1, <3>4, <4>1 DEF Tried, TriedFor
    <3>5. CASE /\ tries' = [tries EXCEPT ![e] = UpToLimit(@ + 1)]
               /\ job' = [job EXCEPT ![w].pc = "retry"]
      <4>1. job'[w].ev = e /\ job'[w].n = n /\ job'[w].pc = "retry"
        BY <2>1, <3>5 DEF Types, BrokerType, Jobs
      <4>2. /\ tries'[e] = UpToLimit(tries[e] + 1)
            /\ \A f \in Events : f # e => tries'[f] = tries[f]
        BY <2>1, <3>5 DEF Types, DoneType
      <4>3. tries[e] \in 0 .. MaxAlertRetries + 1
        BY DEF Types, DoneType
      <4>4. tries'[e] >= tries[e] /\ tries'[e] >= n + 1 /\ tries'[e] \in Nat
        BY <2>1, <2>2, <3>3, <4>2, <4>3, OutboxLimits DEF UpToLimit
      <4>5. TriedFor(e)'
        <5>1. \A m \in Retries : m \in Nat
          BY OutboxLimits DEF Retries
        <5>2. \A m \in Retries : queue'[e][m] > 0 => tries'[e] >= m
          BY <2>2, <3>1, <4>4, <5>1 DEF TriedFor
        <5>3. ASSUME NEW v \in Replicas, v # w, job'[v].ev = e
              PROVE  /\ tries'[e] >= job'[v].n
                     /\ job'[v].pc = "retry" => tries'[e] >= job'[v].n + 1
          <6>1. job'[v] = job[v] /\ job[v].n \in Nat
            BY <1>1, <5>1, <5>3 DEF Types, BrokerType, Jobs
          <6>2. QED
            BY <2>2, <4>4, <5>3, <6>1 DEF TriedFor
        <5>4. e \in refused' => tries'[e] > MaxAlertRetries
          BY <2>2, <3>1, <4>4, OutboxLimits DEF TriedFor
        <5>5. QED
          BY <2>1, <4>1, <4>4, <5>2, <5>3, <5>4 DEF TriedFor
      <4>6. ASSUME NEW f \in Events, f # e PROVE TriedFor(f)'
        BY <1>1, <2>1, <3>1, <4>1, <4>2, <4>6 DEF Tried, TriedFor
      <4>7. QED
        BY <4>5, <4>6 DEF Tried
    <3>6. QED
      BY <3>2, <3>4, <3>5
  <2>4. CASE PublishAlertRetry(w)
    <3>1. n + 1 \in Retries /\ tries[e] >= n + 1 /\ UNCHANGED <<tries, refused>>
      BY <2>1, <2>2, <2>4, OutboxLimits DEF PublishAlertRetry, Retries, done
    <3>2. PICK k \in {0, 1} : Put(e, n + 1, k)
      BY <2>1, <2>4, Counts DEF PublishAlertRetry
    <3>3. /\ job'[w].ev = job[w].ev /\ job'[w].n = job[w].n
          /\ job'[w].pc # "retry"
      BY <2>1, <2>4 DEF PublishAlertRetry, Types, BrokerType, Jobs
    <3>4. QED
      BY <1>1, <3>1, <3>2, <3>3, <2>1, TriedPut
  <2>5. CASE DeadLetter(w)
    <3>1. /\ refused' = refused \cup {e} /\ UNCHANGED <<queue, tries>>
          /\ job' = [job EXCEPT ![w] = NoJob]
          /\ tries[e] > MaxAlertRetries
      BY <2>1, <2>2, <2>5, OutboxLimits DEF DeadLetter
    <3>2. job'[w].ev = None
      BY <3>1 DEF NoJob, Types, BrokerType
    <3>3. QED
      BY <1>1, <3>1, <3>2, OutboxNone DEF Tried, TriedFor
  <2>6. CASE Ack(w)
    <3>1. /\ UNCHANGED <<queue, tries, refused>> /\ job'[w].ev = None
      BY <2>6 DEF Ack, NoJob, Types, BrokerType, done
    <3>2. QED
      BY <1>1, <3>1, OutboxNone DEF Tried, TriedFor
  <2>7. CASE Requeue(w) \/ (Crash(w) /\ job[w] # NoJob)
    <3>1. /\ Put(e, n, 1) /\ UNCHANGED <<tries, refused>> /\ job'[w].ev = None
      BY <2>1, <2>7 DEF Requeue, Crash, NoJob, Types, BrokerType, done
    <3>2. QED
      BY <1>1, <2>1, <2>2, <3>1, TriedPut
  <2>8. QED
    BY <1>3, <2>3, <2>4, <2>5, <2>6, <2>7 DEF AlertWorker
<1>4. QED
  BY <1>2, <1>3

LEMMA TriedStep == Types /\ Tried /\ [Next]_vars => Tried'
<1> SUFFICES ASSUME Types, Tried, [Next]_vars PROVE Tried'
  OBVIOUS
<1>1. CASE UNCHANGED vars
  BY <1>1 DEF Tried, TriedFor, vars, broker, done
<1>2. ASSUME NEW w \in Replicas, Crash(w), job[w] = NoJob PROVE Tried'
  <2>1. UNCHANGED <<queue, job, tries, refused>>
    BY <1>2 DEF Crash, Types, BrokerType, done
  <2>2. QED
    BY <2>1 DEF Tried, TriedFor
<1>3. QED
  BY <1>1, <1>2, RequestTried, OutboxWorkerTried, AlertWorkerTried DEF Next

-----------------------------------------------------------------------------
(* The refinement of AtLeastOnce. *)

\* The broker or a handler has the event, or its end is known: it was processed,
\* or a delivery of it was dropped after its retries.
Held(e) == e \in processed \cup refused \/ Copies(e) # {} \/ InJob(e)

Tracked(e) == Held(e) \/ row[e] \in {"pending", "failed"}

\* What was sent is held, and what is about to be answered 202 is tracked.
Kept ==
    /\ \A e \in sent : Held(e)
    /\ \A e \in Events : http[e] \in {"accept", "queued"} => Tracked(e)

LEMMA StateTracked ==
    \A e : /\ State(e) \in {"processed", "parked", "owed", "lost", "unknown"}
           /\ State(e) # "unknown" <=> Tracked(e)
           /\ State(e) = "processed" <=> e \in processed
           /\ State(e) = "lost" => e \in refused /\ ~InJob(e)
  BY DEF State, Owed, Tracked, Held, GivenUp

\* A publication of one event, when the wire is sound.
LEMMA PutHolds ==
    ASSUME BrokerType, NEW e \in Events, NEW n \in Retries, NEW k \in {0, 1},
           Put(e, n, k)
    PROVE  /\ \A f \in Events : Copies(f) # {} => Copies(f)' # {}
           /\ \A f \in Events : f # e => Copies(f)' = Copies(f)
           /\ k = 1 => Copies(e)' # {}
<1>1. \A f \in Events, m \in Retries :
         queue'[f][m] = IF f = e /\ m = n THEN queue[f][m] + k ELSE queue[f][m]
  BY DEF BrokerType, Put
<1>2. \A f \in Events, m \in Retries : queue[f][m] \in Nat
  BY DEF BrokerType
<1>3. \A f \in Events : \A m \in Copies(f) : m \in Copies(f)'
  BY <1>1, <1>2 DEF Copies
<1>4. k = 1 => n \in Copies(e)'
  BY <1>1, <1>2 DEF Copies
<1>5. QED
  BY <1>1, <1>3, <1>4 DEF Copies

\* A step that may change the state of e leaves all other states alone.
SameState(e) ==
    /\ \A f \in Events \ {e} :
          /\ f \in processed' <=> f \in processed
          /\ f \in refused' <=> f \in refused
          /\ row'[f] = row[f] /\ retry'[f] = retry[f]
          /\ Copies(f)' = Copies(f)
          /\ InJob(f)' <=> InJob(f)

LEMMA SameStateSuffices ==
    ASSUME NEW e \in Events, SameState(e)
    PROVE  \A f \in Events : f # e => State(f)' = State(f)
  BY DEF SameState, State, Owed, GivenUp

LEMMA HoldingSuffices ==
    ASSUME Types, Kept, NEW e \in Events, SameState(e),
           Held(e) => Held(e)', Tracked(e) => Tracked(e)',
           \A f \in sent' : f \in sent \/ (f = e /\ Held(e)')
    PROVE  /\ \A f \in Events : Held(f) => Held(f)'
           /\ \A f \in Events : Tracked(f) => Tracked(f)'
           /\ \A f \in sent' : Held(f)'
<1>1. \A f \in Events : Held(f) => Held(f)'
  BY DEF SameState, Held
<1>2. \A f \in Events : Tracked(f) => Tracked(f)'
  BY <1>1 DEF SameState, Tracked
<1>3. \A f \in sent : f \in Events /\ Held(f)
  BY DEF Types, DoneType, Kept
<1>4. QED
  BY <1>1, <1>2, <1>3

LEMMA RequestHolds ==
    ASSUME Types, "wire" \notin Faults, Kept, NEW e \in Events,
           Request(e) \/ BackoffOver(e) \/ PrunePublished(e)
    PROVE  /\ \A f \in Events : Held(f) => Held(f)'
           /\ SameState(e)
           /\ Tracked(e) => Tracked(e)'
           /\ http'[e] = "accept" /\ http[e] # "accept" => Tracked(e)'
           /\ http'[e] = "queued" => http[e] \in {"accept", "queued"}
           /\ http[e] = "queued" => http'[e] = "queued"
           /\ http'[e] # http[e] /\ http'[e] = "queued" => State(e)' = State(e)
           /\ \A f \in Events : f # e => http'[f] = http[f]
           /\ UNCHANGED <<tries, refused, sent>> /\ processed \subseteq processed'
<1>1. /\ UNCHANGED <<job, tries, refused, retry, sent>>
      /\ \A f \in Events : f # e => http'[f] = http[f] /\ row'[f] = row[f]
      /\ \A f \in Events : f # e => (f \in processed' <=> f \in processed)
      /\ processed \subseteq processed'
  BY DEF Types, RowType, Request, Receive, Enqueue, EnqueueError, Direct, DirectError,
         Sync, Reply, HttpLost, BackoffOver, PrunePublished, rows, broker, done, history
<1>2. \A f \in Events : InJob(f)' <=> InJob(f)
  BY <1>1 DEF InJob
<1>3. /\ \A f \in Events : Copies(f) # {} => Copies(f)' # {}
      /\ \A f \in Events : f # e => Copies(f)' = Copies(f)
      /\ http'[e] = "accept" /\ http[e] = "direct" => Copies(e)' # {}
  <2>1. CASE Direct(e)
    <3>1. PICK k \in Arrivals : Put(e, 0, k)
      BY <2>1 DEF Direct
    <3>2. k = 1
      BY <3>1 DEF Arrivals
    <3>3. QED
      BY <3>1, <3>2, PutHolds, Counts DEF Types
  <2>2. CASE DirectError(e)
    <3>1. PICK k \in Strays(e) : Put(e, 0, k)
      BY <2>2 DEF DirectError
    <3>2. http'[e] = "sync"
      BY <2>2 DEF DirectError, Types, RowType
    <3>3. QED
      BY <3>1, <3>2, PutHolds, Counts DEF Types
  <2>3. CASE \/ Receive(e) \/ Enqueue(e) \/ EnqueueError(e) \/ Sync(e) \/ Reply(e)
             \/ HttpLost(e) \/ BackoffOver(e) \/ PrunePublished(e)
    <3>1. UNCHANGED queue /\ ~(http'[e] = "accept" /\ http[e] = "direct")
      BY <2>3 DEF Types, RowType, Receive, Enqueue, EnqueueError, Sync, Reply, HttpLost,
                  BackoffOver, PrunePublished, broker
    <3>2. QED
      BY <3>1 DEF Copies
  <2>4. QED
    BY <2>1, <2>2, <2>3 DEF Request
<1>4. \A f \in Events : Held(f) => Held(f)'
  BY <1>1, <1>2, <1>3 DEF Held
<1>5. SameState(e)
  BY <1>1, <1>2, <1>3 DEF SameState
<1>6. /\ row[e] \in {"pending", "failed"} => row'[e] \in {"pending", "failed"}
      /\ http'[e] = "accept" /\ http[e] \notin {"accept", "direct"} => row'[e] = "pending"
  <2>1. CASE Receive(e) \/ Enqueue(e) \/ EnqueueError(e)
    BY <2>1 DEF Types, RowType, Receive, Enqueue, EnqueueError, rows
  <2>2. CASE Direct(e) \/ DirectError(e) \/ Sync(e) \/ Reply(e) \/ HttpLost(e)
    BY <2>2 DEF Types, RowType, Direct, DirectError, Sync, Reply, HttpLost, rows
  <2>3. CASE BackoffOver(e) \/ PrunePublished(e)
    BY <2>3 DEF Types, RowType, BackoffOver, PrunePublished
  <2>4. QED
    BY <2>1, <2>2, <2>3 DEF Request
<1>7. Tracked(e) => Tracked(e)'
  BY <1>4, <1>6 DEF Tracked
<1>8. http'[e] = "accept" /\ http[e] # "accept" => Tracked(e)'
  BY <1>3, <1>6 DEF Tracked, Held
<1>9. CASE Reply(e)
  <2>1. /\ http[e] = "accept" /\ http'[e] = "queued"
        /\ UNCHANGED <<rows, broker, done>>
    BY <1>9 DEF Reply, Types, RowType
  <2>2. State(e)' = State(e)
    BY <2>1 DEF State, Owed, GivenUp, Copies, InJob, rows, broker, done
  <2>3. QED
    BY <1>1, <1>4, <1>5, <1>7, <1>8, <2>1, <2>2
<1>10. CASE ~Reply(e)
  <2>1. http'[e] = "queued" <=> http[e] = "queued"
    BY <1>10 DEF Types, RowType, Request, Receive, Enqueue, EnqueueError, Direct, DirectError,
         Sync, HttpLost, BackoffOver, PrunePublished
  <2>2. QED
    BY <1>1, <1>4, <1>5, <1>7, <1>8, <2>1
<1>11. QED
  BY <1>9, <1>10

\* The workers: what they hand on is held at the other end.
LEMMA OutboxWorkerHolds ==
    ASSUME Types, Sent, "wire" \notin Faults, Kept, NEW w \in Replicas, OutboxWorker(w)
    PROVE  /\ \A f \in Events : Held(f) => Held(f)'
           /\ \A f \in Events : Tracked(f) => Tracked(f)'
           /\ \A f \in sent' : Held(f)'
           /\ \E e \in Events : SameState(e)
           /\ UNCHANGED http
<1>1. UNCHANGED <<http, job, processed, tries, refused>>
  BY DEF OutboxWorker, Fetch, PublishRaw, PublishRawError, MarkPublished, IncrementRetry,
         MarkFailed, MarkError, broker, done
<1>2. \A f \in Events : InJob(f)' <=> InJob(f)
  BY <1>1 DEF InJob
<1>3. CASE Fetch(w)
  <2>1. /\ UNCHANGED <<rows, queue, sent>>
        /\ \E e \in Events : Fetchable(e)
    BY <1>3 DEF Fetch, broker, history
  <2>2. PICK e \in Events : Fetchable(e)
    BY <2>1
  <2>3. \A f \in Events : Copies(f)' = Copies(f)
    BY <2>1 DEF Copies
  <2>4. SameState(e) /\ (Held(e) => Held(e)') /\ (Tracked(e) => Tracked(e)')
    BY <1>1, <1>2, <2>1, <2>3 DEF Held, Tracked, SameState, rows
  <2>5. QED
    BY <1>1, <2>1, <2>4, HoldingSuffices
<1>4. CASE PublishRaw(w)
  <2>1. PICK e \in Listed(w), k \in Arrivals : Put(e, 0, k) /\ sent' = sent \cup {e}
    BY <1>4 DEF PublishRaw
  <2>2. e \in Events /\ k = 1 /\ UNCHANGED rows
    BY <1>4, <2>1, ScanType DEF Types, WorkType, Listed, Arrivals, PublishRaw
  <2>3. /\ \A f \in Events : f # e => Copies(f)' = Copies(f)
        /\ Copies(e)' # {}
    BY <2>1, <2>2, PutHolds, Counts DEF Types
  <2>4. SameState(e) /\ Held(e)' /\ Tracked(e)'
    BY <1>1, <1>2, <2>2, <2>3 DEF Held, Tracked, SameState, rows
  <2>5. QED
    BY <1>1, <2>1, <2>2, <2>4, HoldingSuffices
<1>5. CASE PublishRawError(w)
  <2>1. PICK e \in Listed(w) : \E k \in Strays(e) : Put(e, 0, k)
    BY <1>5 DEF PublishRawError
  <2>2. e \in Events /\ UNCHANGED <<rows, sent>>
    BY <1>5, <2>1, ScanType DEF Types, WorkType, Listed, PublishRawError
  <2>3. PICK k \in Strays(e) : Put(e, 0, k)
    BY <2>1
  <2>4. /\ Copies(e) # {} => Copies(e)' # {}
        /\ \A f \in Events : f # e => Copies(f)' = Copies(f)
    BY <2>2, <2>3, PutHolds, Counts DEF Types
  <2>5. SameState(e) /\ (Held(e) => Held(e)') /\ (Tracked(e) => Tracked(e)')
    BY <1>1, <1>2, <2>2, <2>4 DEF Held, Tracked, SameState, rows
  <2>6. QED
    BY <1>1, <2>2, <2>5, HoldingSuffices
<1>6. CASE MarkPublished(w) \/ IncrementRetry(w) \/ MarkFailed(w) \/ MarkError(w)
  <2>1. at[w].ev \in Events /\ UNCHANGED <<queue, sent>>
    BY <1>6, ScanType DEF Types, WorkType, Listed, NoRow, MarkPublished, IncrementRetry,
                          MarkFailed, MarkError, broker, history
  <2>2. PICK e \in Events : e = at[w].ev
    BY <2>1
  <2>3. \A f \in Events : Copies(f)' = Copies(f)
    BY <2>1 DEF Copies
  <2>4. \A f \in Events : f # e => row'[f] = row[f] /\ retry'[f] = retry[f]
    BY <1>6, <2>2 DEF Types, RowType, MarkPublished, IncrementRetry, MarkFailed, MarkError,
                      rows
  <2>5. \/ row'[e] \in {row[e], "failed"}
        \/ row'[e] = "published" /\ e \in sent
    BY <1>6, <2>2 DEF Types, RowType, Sent, MarkPublished, IncrementRetry, MarkFailed,
                      MarkError, rows
  <2>6. SameState(e) /\ (Held(e) => Held(e)')
    BY <1>1, <1>2, <2>3, <2>4 DEF Held, SameState
  <2>7. Tracked(e) => Tracked(e)'
    BY <2>5, <2>6 DEF Kept, Tracked
  <2>8. QED
    BY <1>1, <2>1, <2>6, <2>7, HoldingSuffices
<1>7. QED
  BY <1>3, <1>4, <1>5, <1>6 DEF OutboxWorker

LEMMA AlertWorkerHolds ==
    ASSUME Types, "wire" \notin Faults, Kept, NEW w \in Replicas,
           AlertWorker(w) \/ (Crash(w) /\ job[w] # NoJob)
    PROVE  /\ \A f \in Events : Held(f) => Held(f)'
           /\ \A f \in Events : Tracked(f) => Tracked(f)'
           /\ \A f \in sent' : Held(f)'
           /\ \E e \in Events : SameState(e)
           /\ UNCHANGED http
<1>1. UNCHANGED <<http, row, retry, sent>>
  BY DEF AlertWorker, Deliver, ProcessAlerts, PublishAlertRetry, DeadLetter, Ack, Requeue,
         Crash, rows, history
<1>2. SUFFICES \E e \in Events : SameState(e) /\ (Held(e) => Held(e)')
  <2>1. PICK e \in Events : SameState(e) /\ (Held(e) => Held(e)')
    BY <1>2
  <2>2. Tracked(e) => Tracked(e)'
    BY <1>1, <2>1 DEF Tracked
  <2>3. QED
    BY <1>1, <2>1, <2>2, HoldingSuffices
<1>3. CASE Deliver(w)
  <2>1. PICK e \in Events, n \in Retries :
          /\ Put(e, n, 0 - 1)
          /\ job' = [job EXCEPT ![w] = [ev |-> e, n |-> n, pc |-> "process"]]
          /\ UNCHANGED <<processed, refused>> /\ job[w] = NoJob
    BY <1>3 DEF Deliver, done
  <2>2. \A f \in Events : f # e => Copies(f)' = Copies(f)
    BY <2>1 DEF Copies, Put, Types, BrokerType
  <2>3. InJob(e)' /\ \A f \in Events : f # e => (InJob(f)' <=> InJob(f))
    BY <2>1, OutboxNone DEF InJob, Types, BrokerType, NoJob
  <2>4. QED
    BY <1>1, <2>1, <2>2, <2>3 DEF SameState, Held
<1>4. CASE ~Deliver(w)
  <2>1. PICK e \in Events, n \in Retries :
           job[w].pc # "idle" /\ job[w].ev = e /\ job[w].n = n
    BY <1>4 DEF Types, BrokerType, Jobs, NoJob, AlertWorker, ProcessAlerts,
                PublishAlertRetry, DeadLetter, Ack, Requeue
  <2>2. \A v \in Replicas : v # w => job'[v] = job[v]
    BY <1>4 DEF Types, BrokerType, AlertWorker, ProcessAlerts, PublishAlertRetry,
                DeadLetter, Ack, Requeue, Crash
  <2>3. job'[w] = NoJob \/ job'[w].ev = e
    <3>1. job[w] \in Jobs
      BY DEF Types, BrokerType
    <3>2. \/ job' = [job EXCEPT ![w] = NoJob]
          \/ \E q \in {"ack", "retry", "requeue"} : job' = [job EXCEPT ![w].pc = q]
      BY <1>4 DEF AlertWorker, ProcessAlerts, PublishAlertRetry, DeadLetter, Ack, Requeue,
                  Crash
    <3>3. QED
      BY <2>1, <3>1, <3>2 DEF Types, BrokerType, Jobs
  <2>4. \A f \in Events : f # e => (InJob(f)' <=> InJob(f))
    BY <2>1, <2>2, <2>3, OutboxNone DEF InJob, NoJob
  <2>5. \A f \in Events : f # e => (f \in processed' <=> f \in processed)
                                    /\ (f \in refused' <=> f \in refused)
    BY <1>4, <2>1 DEF AlertWorker, ProcessAlerts, PublishAlertRetry, DeadLetter, Ack, Requeue,
                Crash, done
  <2>6. processed \subseteq processed' /\ refused \subseteq refused'
    BY <1>4 DEF AlertWorker, ProcessAlerts, PublishAlertRetry, DeadLetter, Ack, Requeue,
                Crash, done
  <2>7. \/ UNCHANGED queue
        \/ \E m \in Retries, k \in {0, 1} : Put(e, m, k)
    <3>1. job[w].n + 1 <= MaxAlertRetries => job[w].n + 1 \in Retries
      BY <2>1, OutboxLimits DEF Retries
    <3>2. QED
      BY <1>4, <2>1, <3>1, Counts DEF AlertWorker, ProcessAlerts, PublishAlertRetry,
         DeadLetter, Ack, Requeue, Crash
  <2>8. /\ \A f \in Events : Copies(f) # {} => Copies(f)' # {}
        /\ \A f \in Events : f # e => Copies(f)' = Copies(f)
    <3>1. CASE UNCHANGED queue
      BY <3>1 DEF Copies
    <3>2. CASE \E m \in Retries, k \in {0, 1} : Put(e, m, k)
      BY <2>1, <3>2, PutHolds DEF Types
    <3>3. QED
      BY <2>7, <3>1, <3>2
  <2>9. SameState(e)
    BY <1>1, <2>4, <2>5, <2>8 DEF SameState
  <2>10. InJob(e) => Held(e)'
    <3>1. CASE job[w].pc = "ack"
      <4>1. \A v \in Replicas : job[v].ev = e /\ job[v].pc # "ack" => v # w
        BY <3>1
      <4>2. QED
        BY <2>2, <4>1 DEF InJob, Held
    <3>2. CASE ProcessAlerts(w)
      BY <2>1, <3>2 DEF ProcessAlerts, Held, InJob, Types, BrokerType, Jobs
    <3>3. CASE PublishAlertRetry(w)
      <4>1. CASE job' = [job EXCEPT ![w].pc = "requeue"]
        BY <2>1, <4>1 DEF Held, InJob, Types, BrokerType, Jobs
      <4>2. CASE \E k \in Arrivals : Put(e, n + 1, k)
        <5>1. Put(e, n + 1, 1)
          BY <4>2 DEF Arrivals
        <5>2. n + 1 \in Retries
          BY <2>1, <3>3, OutboxLimits DEF PublishAlertRetry, Retries
        <5>3. QED
          BY <2>1, <5>1, <5>2, PutHolds DEF Types, Held
      <4>3. QED
        BY <2>1, <3>3, <4>1, <4>2 DEF PublishAlertRetry
    <3>4. CASE DeadLetter(w)
      BY <2>1, <3>4 DEF DeadLetter, Held
    <3>5. CASE Requeue(w) \/ (Crash(w) /\ job[w] # NoJob)
      <4>1. Put(e, n, 1)
        BY <2>1, <3>5 DEF Requeue, Crash
      <4>2. QED
        BY <2>1, <4>1, PutHolds DEF Types, Held
    <3>6. QED
      BY <1>4, <3>1, <3>2, <3>3, <3>4, <3>5 DEF AlertWorker, Ack
  <2>11. Held(e) => Held(e)'
    BY <2>1, <2>6, <2>8, <2>10 DEF Held
  <2>12. QED
    BY <2>1, <2>9, <2>11
<1>5. QED
  BY <1>3, <1>4

\* A step that changes the state of one event, and tells nobody.
LEMMA QuietStepMaps ==
    ASSUME Types, NEW e \in Events, SameState(e), Tracked(e) => Tracked(e)',
           \A f \in Events : (http'[f] = "queued") = (http[f] = "queued"),
           UNCHANGED tries, processed \subseteq processed',
           \A f \in refused' : Tracked(f), Tried'
    PROVE  [Promise!Next]_(Promise!promise)
<1> DEFINE state == [f \in Events |-> State(f)]
           told == [f \in Events |-> http[f] = "queued"]
<1>1. told' = told /\ tries' = tries
  OBVIOUS
<1>2. \A f \in Events : f # e => State(f)' = State(f)
  BY SameStateSuffices
<1>3. state' = [state EXCEPT ![e] = State(e)']
  BY <1>2
<1>4. State(e)' \in {"processed", "parked", "owed", "lost", "unknown"}
  BY DEF State
<1>5. State(e) # "unknown" => State(e)' # "unknown"
  <2>1. State(e) # "unknown" => Tracked(e)
    BY StateTracked
  <2>2. Tracked(e)' => State(e)' # "unknown"
    BY DEF State, Owed, Tracked, Held, GivenUp
  <2>3. QED
    BY <2>1, <2>2
<1>6. state[e] = State(e)
  OBVIOUS
<1>7. State(e)' # "processed" => State(e) # "processed"
  BY DEF State
<1>8. CASE State(e)' = State(e)
  <2>1. state' = state
    BY <1>3, <1>8
  <2>2. QED
    BY <1>1, <2>1 DEF Promise!promise
<1>9. CASE State(e)' # State(e) /\ State(e)' = "owed"
  <2>1. State(e) \in {"unknown", "parked", "lost"}
    BY <1>7, <1>9, StateTracked
  <2>2. QED
    BY <1>1, <1>3, <1>6, <1>9, <2>1 DEF Promise!Next, Promise!Take
<1>10. CASE State(e)' # State(e) /\ State(e)' = "processed"
  BY <1>1, <1>3, <1>6, <1>10 DEF Promise!Next, Promise!Process
<1>11. CASE State(e)' # State(e) /\ State(e)' = "parked"
  BY <1>1, <1>3, <1>6, <1>7, <1>11 DEF Promise!Next, Promise!Park
<1>12. CASE State(e)' # State(e) /\ State(e)' = "lost"
  <2>1. e \in refused'
    BY <1>12 DEF State
  <2>2. State(e) \in {"owed", "parked"}
    BY <1>7, <1>12, <2>1, StateTracked
  <2>3. tries[e] > MaxAlertRetries
    BY <1>1, <2>1 DEF Tried, TriedFor
  <2>4. QED
    BY <1>1, <1>3, <1>6, <1>12, <2>2, <2>3 DEF Promise!Next, Promise!Lose
<1>13. QED
  BY <1>4, <1>5, <1>8, <1>9, <1>10, <1>11, <1>12

\* A failure of ProcessAlerts that is counted.
LEMMA FailureMaps ==
    ASSUME Types, NEW w \in Replicas, AlertWorker(w), tries' # tries
    PROVE  [Promise!Next]_(Promise!promise)
<1> DEFINE e == job[w].ev
<1>1. /\ job[w].pc = "process" /\ job' = [job EXCEPT ![w].pc = "retry"]
      /\ tries' = [tries EXCEPT ![e] = UpToLimit(@ + 1)]
      /\ UNCHANGED <<http, rows, queue, processed, refused>>
  BY DEF AlertWorker, Deliver, ProcessAlerts, PublishAlertRetry, DeadLetter, Ack, Requeue,
         done
<1>2. e \in Events /\ job[w] \in Jobs /\ tries[e] \in 0 .. MaxAlertRetries + 1
  BY <1>1 DEF Types, BrokerType, DoneType
<1>3. /\ job'[w].ev = job[w].ev /\ job'[w].pc = "retry"
      /\ \A v \in Replicas : v # w => job'[v] = job[v]
  BY <1>1, <1>2 DEF Types, BrokerType, Jobs
<1>4. \A f \in Events : InJob(f)' <=> InJob(f)
  BY <1>1, <1>3 DEF InJob
<1>5. \A f \in Events : State(f)' = State(f)
  BY <1>1, <1>4 DEF State, Owed, GivenUp, Copies, rows
<1>6. tries[e] <= MaxAlertRetries /\ tries' = [tries EXCEPT ![e] = tries[e] + 1]
  <2>1. CASE tries[e] > MaxAlertRetries
    <3>1. tries[e] = MaxAlertRetries + 1
      BY <1>2, <2>1, OutboxLimits
    <3>2. UpToLimit(tries[e] + 1) = tries[e]
      BY <3>1, OutboxLimits DEF UpToLimit
    <3>3. [tries EXCEPT ![e] = tries[e]] = tries
      BY <1>2 DEF Types, DoneType
    <3>4. QED
      BY <1>1, <3>2, <3>3
  <2>2. CASE tries[e] <= MaxAlertRetries
    <3>1. UpToLimit(tries[e] + 1) = tries[e] + 1
      BY <1>2, <2>2, OutboxLimits DEF UpToLimit
    <3>2. QED
      BY <1>1, <2>2, <3>1
  <2>3. QED
    BY <1>2, <2>1, <2>2, OutboxLimits
<1>7. State(e) \notin {"unknown", "lost"}
  <2>1. InJob(e)
    BY <1>1 DEF InJob
  <2>2. QED
    BY <2>1 DEF State, Owed
<1>8. Promise!Fail(e)
  BY <1>1, <1>2, <1>5, <1>6, <1>7 DEF Promise!Fail
<1>9. QED
  BY <1>2, <1>8 DEF Promise!Next

LEMMA InitMaps == Init => Kept /\ Promise!Init
<1> SUFFICES ASSUME Init PROVE Kept /\ Promise!Init
  OBVIOUS
<1>1. \A e \in Events : ~Tracked(e)
  BY OutboxNone DEF Init, Tracked, Held, Copies, InJob, NoJob
<1>2. \A e \in Events : State(e) = "unknown" /\ http[e] = "idle"
  BY <1>1, StateTracked DEF Init
<1>3. QED
  BY <1>2 DEF Init, Kept, Promise!Init

LEMMA StepMaps ==
    ASSUME Types, Sent, Tried, "wire" \notin Faults, Kept, [Next]_vars
    PROVE  Kept' /\ [Promise!Next]_(Promise!promise)
<1>0. Tried' /\ \A f \in refused : f \in Events /\ Tracked(f)
  BY TriedStep DEF Types, DoneType, Tracked, Held
<1>1. CASE UNCHANGED vars
  <2>1. \A e : /\ State(e)' = State(e) /\ Held(e)' = Held(e) /\ Tracked(e)' = Tracked(e)
    BY <1>1 DEF State, Owed, GivenUp, Held, Tracked, Copies, InJob, vars, rows, broker, done
  <2>2. Kept'
    BY <1>1, <2>1 DEF Kept, vars, history
  <2>3. UNCHANGED Promise!promise
    BY <1>1, <2>1 DEF Promise!promise, vars, done
  <2>4. QED
    BY <2>2, <2>3
<1>2. ASSUME NEW e \in Events, Request(e) \/ BackoffOver(e) \/ PrunePublished(e)
      PROVE  Kept' /\ [Promise!Next]_(Promise!promise)
  <2>1. /\ \A f \in Events : Held(f) => Held(f)'
        /\ SameState(e)
        /\ Tracked(e) => Tracked(e)'
        /\ http'[e] = "accept" /\ http[e] # "accept" => Tracked(e)'
        /\ http'[e] = "queued" => http[e] \in {"accept", "queued"}
        /\ http[e] = "queued" => http'[e] = "queued"
        /\ http'[e] # http[e] /\ http'[e] = "queued" => State(e)' = State(e)
        /\ \A f \in Events : f # e => http'[f] = http[f]
        /\ UNCHANGED <<tries, refused, sent>> /\ processed \subseteq processed'
    BY <1>2, RequestHolds
  <2>2. \A f \in Events : Tracked(f) => Tracked(f)'
    BY <2>1 DEF SameState, Tracked
  <2>3. Kept'
    <3>1. \A f \in sent : f \in Events
      BY DEF Types, DoneType
    <3>2. QED
      BY <2>1, <2>2, <3>1 DEF Kept
  <2>4. CASE (http'[e] = "queued") = (http[e] = "queued")
    <3>1. \A f \in Events : (http'[f] = "queued") = (http[f] = "queued")
      BY <2>1, <2>4
    <3>2. QED
      BY <1>0, <2>1, <2>3, <3>1, QuietStepMaps
  <2>5. CASE http'[e] = "queued" /\ http[e] # "queued"
    <3>1. State(e)' = State(e) /\ State(e) # "unknown"
      BY <2>1, <2>5, StateTracked DEF Kept
    <3>2. \A f \in Events : State(f)' = State(f)
      BY <2>1, <3>1, SameStateSuffices
    <3>3. Promise!Tell(e)
      BY <2>1, <2>5, <3>1, <3>2 DEF Promise!Tell
    <3>4. QED
      BY <2>3, <3>3 DEF Promise!Next
  <2>6. QED
    BY <2>1, <2>3, <2>4, <2>5
<1>3. ASSUME NEW w \in Replicas,
             OutboxWorker(w) \/ AlertWorker(w) \/ (Crash(w) /\ job[w] # NoJob)
      PROVE  Kept' /\ [Promise!Next]_(Promise!promise)
  <2>1. /\ \A f \in Events : Tracked(f) => Tracked(f)'
        /\ \A f \in sent' : Held(f)'
        /\ \E e \in Events : SameState(e)
        /\ UNCHANGED http
    BY <1>3, OutboxWorkerHolds, AlertWorkerHolds
  <2>2. Kept'
    BY <2>1 DEF Kept
  <2>3. CASE tries' = tries
    <3>1. processed \subseteq processed'
      BY <1>3 DEF OutboxWorker, Fetch, PublishRaw, PublishRawError, MarkPublished,
                  IncrementRetry, MarkFailed, MarkError, AlertWorker, Deliver,
                  ProcessAlerts, PublishAlertRetry, DeadLetter, Ack, Requeue, Crash, done
    <3>2. \A f \in refused' : f \in refused \/ (f = job[w].ev /\ job[w].pc = "retry")
      BY <1>3 DEF OutboxWorker, Fetch, PublishRaw, PublishRawError, MarkPublished,
                  IncrementRetry, MarkFailed, MarkError, AlertWorker, Deliver,
                  ProcessAlerts, PublishAlertRetry, DeadLetter, Ack, Requeue, Crash, done
    <3>3. \A f \in refused' : Tracked(f)
      BY <1>0, <3>2 DEF Tracked, Held, InJob
    <3>4. QED
      BY <1>0, <2>1, <2>2, <2>3, <3>1, <3>3, QuietStepMaps
  <2>4. CASE tries' # tries
    <3>1. AlertWorker(w)
      BY <1>3, <2>4 DEF OutboxWorker, Fetch, PublishRaw, PublishRawError, MarkPublished,
                  IncrementRetry, MarkFailed, MarkError, Crash, done
    <3>2. QED
      BY <2>2, <2>4, <3>1, FailureMaps
  <2>5. QED
    BY <2>3, <2>4
<1>4. ASSUME NEW w \in Replicas, Crash(w), job[w] = NoJob
      PROVE  Kept' /\ [Promise!Next]_(Promise!promise)
  <2>1. UNCHANGED <<http, rows, queue, job, processed, tries, refused, sent>>
    BY <1>4 DEF Crash, Types, BrokerType, done
  <2>2. \A e : /\ State(e)' = State(e) /\ Held(e)' = Held(e) /\ Tracked(e)' = Tracked(e)
    BY <2>1 DEF State, Owed, GivenUp, Held, Tracked, Copies, InJob, rows
  <2>3. Kept' /\ UNCHANGED Promise!promise
    BY <2>1, <2>2 DEF Kept, Promise!promise
  <2>4. QED
    BY <2>3
<1>5. QED
  BY <1>1, <1>2, <1>3, <1>4 DEF Next

-----------------------------------------------------------------------------
\* The requests, the rows, the scans, the deliveries and the queues keep their
\* types: an UPDATE by the id of a pruned row and a negative acknowledgement
\* with requeue leave no count that is not one.
THEOREM OutboxTypes == Spec => []TypeOK
<1>1. Spec => []Types
  BY InitTypes, NextTypes, PTL DEF Spec
<1>2. QED
  BY <1>1, TypesImply, PTL

LEMMA SentInvariant == Spec => []Sent
<1>1. Init => Sent
  BY DEF Init, Sent, PublishedWasSent, NoRow
<1>2. Spec => []Types
  BY InitTypes, NextTypes, PTL DEF Spec
<1>3. QED
  BY <1>1, <1>2, SentStep, PTL DEF Spec

\* A row of the outbox is marked published, or pruned as such, only after a
\* publication of it succeeded, for any number of workers that publish and mark
\* the same rows: MarkPublished follows a PublishRaw without an error.
THEOREM PublishedRowsWereSent == Spec => []PublishedWasSent
  BY SentInvariant, PTL DEF Sent

\* A row is given up only after MaxOutboxRetries failed publications of it, for
\* any number of outbox workers that count from what they fetched.  The counter
\* alone is not inductive: MarkFailed sets it to the limit from a stale count,
\* so every failure that is not written down yet has to be counted, too.
THEOREM GivenUpOnlyAfterTries == Spec => []GivenUpAfterTries
<1>1. Spec => []Types
  BY InitTypes, NextTypes, PTL DEF Spec
<1>2. Init => Paid
  <2> SUFFICES ASSUME Init, NEW e \in Events PROVE PaidFor(e)
    BY DEF Paid
  <2>1. Failing(e) = {}
    BY DEF Init, Failing, NoRow
  <2>2. Cardinality(Failing(e)) = 0
    BY <2>1, FS_EmptySet
  <2>3. \A w \in Replicas : Listed(w) = {}
    BY DEF Init, Listed, Nothing
  <2>4. QED
    BY <2>2, <2>3 DEF Init, PaidFor
<1>3. Spec => []Paid
  BY <1>1, <1>2, PaidStep, PTL DEF Spec
<1>4. QED
  BY <1>1, <1>3, PaidImplies, PTL

LEMMA TriedInvariant == Spec => []Tried
<1>1. Init => Tried
  <2> SUFFICES ASSUME Init, NEW e \in Events PROVE TriedFor(e)
    BY DEF Tried
  <2>1. \A n \in Retries : queue[e][n] = 0
    BY DEF Init
  <2>2. \A w \in Replicas : job[w].ev # e
    BY OutboxNone DEF Init, NoJob
  <2>3. QED
    BY <2>1, <2>2 DEF Init, TriedFor
<1>2. Spec => []Types
  BY InitTypes, NextTypes, PTL DEF Spec
<1>3. QED
  BY <1>1, <1>2, TriedStep, PTL DEF Spec

\* The intake implements AtLeastOnce: 202 is answered only for a notification
\* that is owed, none that is owed becomes unknown again, and none is lost but
\* by the Nack after MaxAlertRetries + 1 failures of ProcessAlerts, whatever
\* workers, failed marks, prunings, requeues and crashes come between, for any
\* number of notifications and replicas, as long as a publication that reports
\* success has reached the broker.
THEOREM IntakeKeepsPromise == "wire" \notin Faults => (Spec => KeepsPromise)
<1> SUFFICES ASSUME "wire" \notin Faults PROVE Spec => KeepsPromise
  OBVIOUS
<1>1. Spec => []Types /\ []Sent /\ []Tried
  BY InitTypes, NextTypes, SentInvariant, TriedInvariant, PTL DEF Spec
<1>2. Init => Kept /\ Promise!Init
  BY InitMaps
<1>3. Types /\ Sent /\ Tried /\ Kept /\ [Next]_vars => Kept' /\ [Promise!Next]_(Promise!promise)
  BY StepMaps
<1>4. QED
  BY <1>1, <1>2, <1>3, PTL DEF Spec, KeepsPromise, Promise!Spec

\* What the promise is worth at any moment: a notification that handleWebhook
\* answered with 202 is owed, processed or parked, or ProcessAlerts has failed
\* on it once for the delivery and once for every retry.
Unlost(e) == State(e) \in {"owed", "processed", "parked"}
AnsweredIsTracked ==
    \A e \in Events : http[e] = "queued" => Unlost(e) \/ tries[e] > MaxAlertRetries

\* The notification of a row that PrunePublished may remove, or has, is with the
\* broker, with a handler or processed, or has failed as often as that.
PrunedIsHeld ==
    \A e \in Events :
        row[e] \in {"published", "pruned"} =>
            \/ Copies(e) # {} \/ InJob(e) \/ e \in processed
            \/ tries[e] > MaxAlertRetries

\* Kept holds throughout, when the wire is sound.
LEMMA AlwaysKept == "wire" \notin Faults => (Spec => []Kept)
<1> SUFFICES ASSUME "wire" \notin Faults PROVE Spec => []Kept
  OBVIOUS
<1>1. Spec => []Types /\ []Sent /\ []Tried
  BY InitTypes, NextTypes, SentInvariant, TriedInvariant, PTL DEF Spec
<1>2. QED
  BY <1>1, InitMaps, StepMaps, PTL DEF Spec

\* handleWebhook answers 202 only for what the outbox, the broker, a handler or
\* the alerts have, and that stays so until MaxAlertRetries + 1 failures of
\* ProcessAlerts have been counted for it: a crash, a stale mark, a pruned row or
\* a requeued delivery costs no notification its retries.
THEOREM AnsweredAlwaysTracked == "wire" \notin Faults => (Spec => []AnsweredIsTracked)
<1>1. Kept /\ Tried => AnsweredIsTracked
  <2> SUFFICES ASSUME Kept, Tried, NEW e \in Events, http[e] = "queued"
               PROVE  Unlost(e) \/ tries[e] > MaxAlertRetries
    BY DEF AnsweredIsTracked
  <2>1. State(e) \in {"owed", "processed", "parked"} \/ e \in refused
    BY StateTracked DEF Kept
  <2>2. QED
    BY <2>1 DEF Tried, TriedFor, Unlost
<1>2. QED
  BY <1>1, AlwaysKept, TriedInvariant, PTL

\* PrunePublished takes nothing away: when a row is marked published, and so may
\* be pruned, its notification is in the broker, in a handler or processed, what-
\* ever second publications, failed marks and crashes there were, unless all its
\* retries have failed.
THEOREM PrunedAlwaysHeld == "wire" \notin Faults => (Spec => []PrunedIsHeld)
<1>1. Sent /\ Kept /\ Tried => PrunedIsHeld
  BY DEF Sent, PublishedWasSent, Kept, Held, Tried, TriedFor, PrunedIsHeld
<1>2. QED
  BY <1>1, AlwaysKept, SentInvariant, TriedInvariant, PTL
=============================================================================
