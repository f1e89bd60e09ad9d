-------------------------- MODULE InvestigateQueue --------------------------
(***************************************************************************)
(* How an investigation request becomes a row: worker/investigate.go under *)
(* the queues of rabbitmq/topology.go.  A delivery is checked against      *)
(* deletions, takes an idempotency token in Valkey, looks for the row and  *)
(* inserts it.  A failed insert goes through a retry queue under the next  *)
(* retry number and gives the token back; past the last number the         *)
(* delivery is refused, and the broker has nowhere to put it.              *)
(*                                                                         *)
(* A message is one request (one dedupe key and one investigation id); the *)
(* broker may hold several copies of it, each with its retry number.  Each *)
(* replica handles one delivery at a time.  Faults says what may go wrong: *)
(* "db", "valkey" and "publish" fail commands, "wire" loses a publication  *)
(* that reported success (the publisher uses no confirms), "channel" loses *)
(* a consumer channel under a running handler, "crash" ends a process (or  *)
(* a handler, by a panic), "stop" is the graceful shutdown, which cancels  *)
(* the context of the handler it then waits for.                           *)
(***************************************************************************)
EXTENDS Naturals

CONSTANTS Msgs, Workers,
          MaxRetries,    \* MaxInvestigateRetries
          MaxPublish,    \* bound: publications of one message
          MaxCopies,     \* bound: copies of one message that faults may make
          Faults,
          None

ASSUME MaxAssumption ==
    MaxRetries \in Nat /\ MaxPublish \in Nat /\ MaxCopies \in Nat
ASSUME NoMsgAssumption == None \notin Msgs

VARIABLES
    sent,      \* sent[m]: how often m was published
    ready,     \* ready[m][n]: copies in alga.investigate.process
    waiting,   \* waiting[m][n]: copies in alga.investigate.retry.n
    dead,      \* messages in alga.dead_letter
    work,      \* the delivery a replica handles
    token,     \* dedupe keys in Valkey
    rows,      \* investigations in PostgreSQL
    deleted,   \* messages whose primary alert was deleted
    dropped,   \* messages a delivery of which was dropped as a duplicate
    stopping,  \* replicas whose context is cancelled
    tries,     \* history: failed inserts of m, counted up to MaxRetries + 1
    exhausted, \* history: messages refused past the last retry number
    unpublished \* history: messages a retry publication of which reported an
                \* error, or any publication of which was lost

broker == <<ready, waiting, dead>>
stores == <<token, rows, deleted>>
ends == <<tries, exhausted, unpublished>>
vars == <<sent, broker, work, stores, dropped, stopping, ends>>

Numbers == 0 .. MaxRetries
NoCopies == [m \in Msgs |-> [n \in Numbers |-> 0]]

Delivery(pc, m, n, live) == [pc |-> pc, m |-> m, n |-> n, live |-> live]
Idle == Delivery("idle", None, 0, FALSE)
At(pc, d) == Delivery(pc, d.m, d.n, d.live)

Steps == {"check", "token", "lookup", "create", "created", "retry", "requeued",
          "release"}

\* Types; a delivery in progress is one of a message.
TypeOK ==
    /\ sent \in [Msgs -> Nat]
    /\ ready \in [Msgs -> [Numbers -> Nat]]
    /\ waiting \in [Msgs -> [Numbers -> Nat]]
    /\ work \in [Workers -> [pc : Steps \cup {"idle"}, m : Msgs \cup {None},
                             n : Numbers, live : BOOLEAN]]
    /\ \A w \in Workers : work[w].pc # "idle" => work[w].m \in Msgs
    /\ dead \subseteq Msgs /\ token \subseteq Msgs /\ rows \subseteq Msgs
    /\ deleted \subseteq Msgs /\ dropped \subseteq Msgs
    /\ stopping \subseteq Workers
    /\ tries \in [Msgs -> 0 .. MaxRetries + 1]
    /\ exhausted \subseteq Msgs /\ unpublished \subseteq Msgs

Init ==
    /\ sent = [m \in Msgs |-> 0]
    /\ ready = NoCopies
    /\ waiting = NoCopies
    /\ work = [w \in Workers |-> Idle]
    /\ dead = {} /\ token = {} /\ rows = {} /\ deleted = {}
    /\ dropped = {} /\ stopping = {}
    /\ tries = [m \in Msgs |-> 0]
    /\ exhausted = {} /\ unpublished = {}

More(q, m, n) == [q EXCEPT ![m][n] = @ + 1]
Less(q, m, n) == [q EXCEPT ![m][n] = @ - 1]

\* What a publication that reports success does to the queue q.
Arrives(q, m, n) ==
    \/ q' = More(q, m, n) /\ UNCHANGED unpublished
    \/ /\ "wire" \in Faults
       /\ unpublished' = unpublished \cup {m}
       /\ UNCHANGED q

\* PublishInvestigation of the correlator or the stale sweep; the triage worker,
\* redelivered, publishes the same message again.
Publish(m) ==
    /\ sent[m] < MaxPublish
    /\ sent' = [sent EXCEPT ![m] = @ + 1]
    /\ Arrives(ready, m, 0)
    /\ UNCHANGED <<waiting, dead, work, stores, dropped, stopping, tries, exhausted>>

\* The consume loop hands a delivery to Handle.
Deliver(w, m, n) ==
    /\ work[w].pc = "idle"
    /\ ready[m][n] > 0
    /\ ready' = Less(ready, m, n)
    /\ work' = [work EXCEPT ![w] = Delivery("check", m, n, TRUE)]
    /\ UNCHANGED <<sent, waiting, dead, stores, dropped, stopping, ends>>

\* The Ack of a handler that has done all it will do.
Ack(w) == work' = [work EXCEPT ![w] = Idle]

Goto(w, pc) == work' = [work EXCEPT ![w] = At(pc, work[w])]

\* What a command of replica w can meet: a cancelled context fails before the
\* command is sent.
Fails(w, f) == f \in Faults \/ w \in stopping

\* InvestigationCancelled and AlertCancelled; both take an error for a no.
CancelCheck(w) ==
    /\ work[w].pc = "check"
    /\ \/ work[w].m \in deleted /\ Ack(w)
       \/ /\ work[w].m \in deleted
          /\ Fails(w, "valkey") \/ Fails(w, "db")
          /\ Goto(w, "token")
       \/ work[w].m \notin deleted /\ Goto(w, "token")
    /\ UNCHANGED <<sent, broker, stores, dropped, stopping, ends>>

\* SETNX of the dedupe key; it is there already: the delivery is a duplicate.
TakeToken(w) ==
    /\ work[w].pc = "token"
    /\ w \notin stopping
    /\ IF work[w].m \in token
       THEN Ack(w) /\ dropped' = dropped \cup {work[w].m} /\ UNCHANGED token
       ELSE Goto(w, "lookup") /\ token' = token \cup {work[w].m} /\ UNCHANGED dropped
    /\ UNCHANGED <<sent, broker, rows, deleted, stopping, ends>>

\* Its error is logged and the delivery goes on; the key may have been set.
TokenError(w) ==
    /\ work[w].pc = "token"
    /\ \/ Fails(w, "valkey") /\ UNCHANGED token
       \/ "valkey" \in Faults /\ token' = token \cup {work[w].m}
    /\ Goto(w, "lookup")
    /\ UNCHANGED <<sent, broker, rows, deleted, dropped, stopping, ends>>

\* GetAlertInvestigation; an error is taken for no row.
Lookup(w) ==
    /\ work[w].pc = "lookup"
    /\ \/ work[w].m \in rows /\ w \notin stopping /\ Ack(w)
       \/ work[w].m \notin rows /\ Goto(w, "create")
       \/ Fails(w, "db") /\ Goto(w, "create")
    /\ UNCHANGED <<sent, broker, stores, dropped, stopping, ends>>

\* CreateAlertInvestigation, under the unique index of its id.
Create(w) ==
    /\ work[w].pc = "create"
    /\ w \notin stopping
    /\ IF work[w].m \in rows THEN Ack(w) ELSE Goto(w, "created")
    /\ rows' = rows \cup {work[w].m}
    /\ UNCHANGED <<sent, broker, token, deleted, dropped, stopping, ends>>

\* It fails; the commit may have been made and its answer lost.
CreateError(w) ==
    /\ work[w].pc = "create"
    /\ \/ Fails(w, "db") /\ UNCHANGED rows
       \/ "db" \in Faults /\ rows' = rows \cup {work[w].m}
    /\ tries' = [tries EXCEPT ![work[w].m] = IF @ > MaxRetries THEN @ ELSE @ + 1]
    /\ Goto(w, "retry")
    /\ UNCHANGED <<sent, broker, token, deleted, dropped, stopping, exhausted, unpublished>>

\* Threads are told, the scheduler is notified, the delivery is acknowledged.
AckCreated(w) ==
    /\ work[w].pc = "created"
    /\ Ack(w)
    /\ UNCHANGED <<sent, broker, stores, dropped, stopping, ends>>

\* Mutant of Requeue: the copy keeps its number.
RequeueSameNumber(w) ==
    LET d == work[w]
    IN  /\ d.pc = "retry"
        /\ waiting' = More(waiting, d.m, d.n)
        /\ Goto(w, "requeued")
        /\ UNCHANGED <<sent, ready, dead, stores, dropped, stopping, ends>>

\* Mutant of Requeue: nothing is published for the last number.
RequeueDropsLast(w) ==
    LET d == work[w]
    IN  /\ d.pc = "retry"
        /\ d.n < MaxRetries
        /\ waiting' = IF d.n + 1 < MaxRetries THEN More(waiting, d.m, d.n + 1) ELSE waiting
        /\ Goto(w, "requeued")
        /\ UNCHANGED <<sent, ready, dead, stores, dropped, stopping, ends>>

\* retryOrDeadLetter publishes the message to the next retry queue ...
Requeue(w) ==
    LET d == work[w]
    IN  /\ d.pc = "retry"
        /\ d.n < MaxRetries
        /\ Arrives(waiting, d.m, d.n + 1)
        /\ Goto(w, "requeued")
        /\ UNCHANGED <<sent, ready, dead, stores, dropped, stopping, tries, exhausted>>

\* A refused delivery goes to alga.dlx under the key it came with: the queue has
\* no dead-letter routing key, and the retry queues return messages with the
\* investigate key.  The exchange is a direct one: only a queue bound with that
\* very key gets the message, and alga.dead_letter is bound with "#".
RoutingKeyInvestigate == "process"
DeadLetterBinding == "#"
Refuse(m) == dead' = IF DeadLetterBinding = RoutingKeyInvestigate THEN dead \cup {m} ELSE dead

\* ... or, past the last one or when that fails, refuses it.  A Nack on a lost
\* channel reaches nobody; a failed publish may have reached the queue.
DeadLetter(w) ==
    LET d == work[w]
    IN  /\ d.pc = "retry"
        /\ \/ /\ d.n = MaxRetries
              /\ exhausted' = IF d.live THEN exhausted \cup {d.m} ELSE exhausted
              /\ UNCHANGED <<waiting, unpublished>>
           \/ /\ d.n < MaxRetries
              /\ \/ Fails(w, "publish") /\ UNCHANGED waiting
                 \/ "publish" \in Faults /\ waiting' = More(waiting, d.m, d.n + 1)
              /\ unpublished' = IF d.live THEN unpublished \cup {d.m} ELSE unpublished
              /\ UNCHANGED exhausted
        /\ IF d.live THEN Refuse(d.m) ELSE UNCHANGED dead
        /\ Ack(w)
        /\ UNCHANGED <<sent, ready, stores, dropped, stopping, tries>>

AckRequeued(w) ==
    /\ work[w].pc = "requeued"
    /\ Goto(w, "release")
    /\ UNCHANGED <<sent, broker, stores, dropped, stopping, ends>>

\* The dedupe key is deleted, whoever set it; the error is ignored.
Release(w) ==
    /\ work[w].pc = "release"
    /\ \/ w \notin stopping /\ token' = token \ {work[w].m}
       \/ Fails(w, "valkey") /\ UNCHANGED token
    /\ Ack(w)
    /\ UNCHANGED <<sent, broker, rows, deleted, dropped, stopping, ends>>

\* A retry queue's TTL, a minute and more: longer than the acknowledgement and
\* the deletion of the key after the publication take.
Expire(m, n) ==
    /\ waiting[m][n] > 0
    /\ \A w \in Workers : work[w].m = m => work[w].pc \notin {"requeued", "release"}
    /\ waiting' = Less(waiting, m, n)
    /\ ready' = More(ready, m, n)
    /\ UNCHANGED <<sent, dead, work, stores, dropped, stopping, ends>>

\* The dedupe key's day is over.
TokenExpires(m) ==
    /\ m \in token
    /\ token' = token \ {m}
    /\ UNCHANGED <<sent, broker, work, rows, deleted, dropped, stopping, ends>>

DeleteAlert(m) ==
    /\ deleted' = deleted \cup {m}
    /\ UNCHANGED <<sent, broker, work, token, rows, dropped, stopping, ends>>

\* The broker delivers again what was not acknowledged.
Unacked(w) == work[w].live /\ work[w].pc \notin {"idle", "release"}

Redeliver(w) ==
    LET d == work[w]
    IN  IF Unacked(w)
        THEN /\ \A n \in Numbers : ready[d.m][n] + waiting[d.m][n] < MaxCopies
             /\ ready' = More(ready, d.m, d.n)
        ELSE UNCHANGED ready

\* The channel is lost; the handler does not know and goes on.
LoseChannel(w) ==
    /\ "channel" \in Faults
    /\ Unacked(w)
    /\ Redeliver(w)
    /\ work' = [work EXCEPT ![w] =
                   Delivery(work[w].pc, work[w].m, work[w].n, FALSE)]
    /\ UNCHANGED <<sent, waiting, dead, stores, dropped, stopping, ends>>

Crash(w) ==
    /\ "crash" \in Faults
    /\ work[w].pc # "idle"
    /\ Redeliver(w)
    /\ Ack(w)
    /\ stopping' = stopping \ {w}
    /\ UNCHANGED <<sent, waiting, dead, stores, dropped, ends>>

\* WorkerSet.Stop cancels the context and waits for the handler.
Stop(w) ==
    /\ "stop" \in Faults
    /\ w \notin stopping
    /\ stopping' = stopping \cup {w}
    /\ UNCHANGED <<sent, broker, work, stores, dropped, ends>>

Restart(w) ==
    /\ w \in stopping
    /\ work[w].pc = "idle"
    /\ stopping' = stopping \ {w}
    /\ UNCHANGED <<sent, broker, work, stores, dropped, ends>>

Handle(w) ==
    \/ CancelCheck(w) \/ TakeToken(w) \/ TokenError(w) \/ Lookup(w)
    \/ Create(w) \/ CreateError(w) \/ AckCreated(w)
    \/ Requeue(w) \/ DeadLetter(w) \/ AckRequeued(w) \/ Release(w)

Next ==
    \/ \E m \in Msgs : Publish(m) \/ TokenExpires(m) \/ DeleteAlert(m)
    \/ \E m \in Msgs, n \in Numbers :
          Expire(m, n) \/ \E w \in Workers : Deliver(w, m, n)
    \/ \E w \in Workers :
          Handle(w) \/ LoseChannel(w) \/ Crash(w) \/ Stop(w) \/ Restart(w)

Spec == Init /\ [][Next]_vars

\* Handlers go on, the broker delivers what is ready and retry queues expire.
Fairness ==
    /\ \A w \in Workers : WF_vars(Handle(w))
    /\ \A m \in Msgs :
          /\ SF_vars(\E w \in Workers, n \in Numbers : Deliver(w, m, n))
          /\ SF_vars(\E n \in Numbers : Expire(m, n))

FairSpec == Spec /\ Fairness

-----------------------------------------------------------------------------
InBroker(m) == \E n \in Numbers : ready[m][n] > 0 \/ waiting[m][n] > 0

\* A handler will still do something for m, and its delivery is not yet back
\* in the broker.
InHand(m) ==
    \E w \in Workers :
        /\ work[w].m = m /\ work[w].live
        /\ work[w].pc \in {"check", "token", "lookup", "create", "retry"}

Accounted(m) ==
    m \in rows \cup dead \cup deleted \/ InBroker(m) \/ InHand(m)

\* A publication of the request failed or never arrived, or the broker dropped it
\* after the last of MaxRetries + 1 failed inserts.
GivenUp(m) == m \in unpublished \/ (m \in exhausted /\ tries[m] > MaxRetries)

\* Whatever fails, a request disappears without a row or a deletion only as the
\* duplicate of a delivery that has the token, by a publication that fails or
\* never arrives, or after all its retries.
LossIsADrop ==
    \A m \in Msgs : sent[m] > 0 => Accounted(m) \/ GivenUp(m) \/ m \in dropped

\* While processes, channels and Valkey work, none is dropped, however often the
\* database and the publisher fail and however many duplicates there are.
NoneLost == \A m \in Msgs : sent[m] > 0 => Accounted(m) \/ GivenUp(m)

\* No process dies any more and no channel is lost.
Calm == [][\A w \in Workers : ~Crash(w) /\ ~LoseChannel(w)]_vars

AtRest(m) == ~InBroker(m) /\ \A w \in Workers : work[w].m # m

\* Once that is so, every request comes to rest, whatever else fails: no copy of it
\* stays in a queue or goes round between queues and handlers (and LossIsADrop
\* says where it ends).
Settles == <>Calm => \A m \in Msgs : []<>AtRest(m)
=============================================================================
