----------------------- MODULE InvestigateQueueProofs -----------------------
(***************************************************************************)
(* InvestigateQueue for any messages, replicas, retry limit and faults.    *)
(***************************************************************************)
EXTENDS InvestigateQueue, TLAPS

USE MaxAssumption, NoMsgAssumption

Deliveries == [pc : Steps \cup {"idle"}, m : Msgs \cup {None}, n : Numbers,
               live : BOOLEAN]

\* A number counted up is a number, and so is one counted down from above zero.
LEMMA CopiesType ==
    ASSUME NEW q \in [Msgs -> [Numbers -> Nat]], NEW m \in Msgs, NEW n \in Numbers
    PROVE  /\ More(q, m, n) \in [Msgs -> [Numbers -> Nat]]
           /\ q[m][n] > 0 => Less(q, m, n) \in [Msgs -> [Numbers -> Nat]]
  BY DEF More, Less

LEMMA NextNumber ==
    \A n \in Numbers : n \in Nat /\ n <= MaxRetries /\ (n < MaxRetries => n + 1 \in Numbers)
  BY DEF Numbers

\* The steps of a handler keep the types.
LEMMA HandleType ==
    ASSUME TypeOK, NEW w \in Workers, Handle(w)
    PROVE  TypeOK'
  <1> USE DEF TypeOK
  <1>1. work[w] \in Deliveries /\ (work[w].pc # "idle" => work[w].m \in Msgs)
    BY DEF Deliveries
  <1>2. Idle \in Deliveries /\ Idle.pc = "idle"
    BY DEF Idle, Delivery, Deliveries, Numbers
  <1>3. ASSUME NEW pc \in Steps, work[w].pc # "idle"
        PROVE  At(pc, work[w]) \in Deliveries /\ At(pc, work[w]).m \in Msgs
    BY <1>1, <1>3 DEF At, Delivery, Deliveries
  <1>4. ASSUME Ack(w)
        PROVE  /\ work' \in [Workers -> Deliveries]
               /\ \A v \in Workers : work'[v].pc # "idle" => work'[v].m \in Msgs
    BY <1>2, <1>4 DEF Ack, Deliveries
  <1>5. ASSUME NEW pc \in Steps, work[w].pc # "idle", Goto(w, pc)
        PROVE  /\ work' \in [Workers -> Deliveries]
               /\ \A v \in Workers : work'[v].pc # "idle" => work'[v].m \in Msgs
    BY <1>3, <1>5 DEF Goto, Deliveries
  <1>6. CASE CancelCheck(w)
    BY <1>4, <1>5, <1>6 DEF CancelCheck, Steps, broker, stores, ends, Deliveries
  <1>7. CASE TakeToken(w) \/ TokenError(w)
    BY <1>1, <1>4, <1>5, <1>7 DEF TakeToken, TokenError, Steps, broker, ends, Deliveries
  <1>8. CASE Lookup(w)
    BY <1>4, <1>5, <1>8 DEF Lookup, Steps, broker, stores, ends, Deliveries
  <1>9. CASE Create(w) \/ CreateError(w)
    <2>1. CASE Create(w)
      BY <1>1, <1>4, <1>5, <2>1 DEF Create, Steps, broker, ends, Deliveries
    <2>2. CASE CreateError(w)
      <3>1. tries' \in [Msgs -> 0 .. MaxRetries + 1]
        BY <1>1, <2>2 DEF CreateError
      <3>2. QED
        BY <1>1, <1>5, <2>2, <3>1 DEF CreateError, Steps, broker, ends, Deliveries
    <2>3. QED
      BY <1>9, <2>1, <2>2
  <1>10. CASE AckCreated(w) \/ AckRequeued(w)
    BY <1>4, <1>5, <1>10 DEF AckCreated, AckRequeued, Steps, broker, stores,
       ends, Deliveries
  <1>11. ASSUME work[w].pc = "retry", work[w].n < MaxRetries,
                waiting' = More(waiting, work[w].m, work[w].n + 1)
         PROVE  waiting' \in [Msgs -> [Numbers -> Nat]]
    <2>1. work[w].m \in Msgs /\ work[w].n + 1 \in Numbers
      BY <1>1, <1>11 DEF Deliveries, Numbers
    <2>2. QED
      BY <1>11, <2>1, CopiesType
  <1>12. CASE Requeue(w)
    <2>1. waiting' \in [Msgs -> [Numbers -> Nat]] /\ unpublished' \subseteq Msgs
      BY <1>1, <1>11, <1>12 DEF Requeue, Arrives
    <2>2. QED
      BY <1>5, <1>12, <2>1 DEF Requeue, Steps, stores, Deliveries
  <1>13. CASE DeadLetter(w)
    <2>1. waiting' \in [Msgs -> [Numbers -> Nat]]
      BY <1>11, <1>13 DEF DeadLetter
    <2>2. dead' \subseteq Msgs /\ exhausted' \subseteq Msgs /\ unpublished' \subseteq Msgs
      BY <1>1, <1>13 DEF DeadLetter, Refuse
    <2>3. QED
      BY <1>4, <1>13, <2>1, <2>2 DEF DeadLetter, stores, Deliveries
  <1>14. CASE Release(w)
    BY <1>4, <1>14 DEF Release, broker, ends, Deliveries
  <1>15. QED
    BY <1>6, <1>7, <1>8, <1>9, <1>10, <1>12, <1>13, <1>14 DEF Handle

\* Every step keeps the types.
LEMMA TypeStep ==
    ASSUME TypeOK, [Next]_vars
    PROVE  TypeOK'
  <1> USE DEF TypeOK
  <1>1. ASSUME NEW m \in Msgs, Publish(m)
        PROVE  TypeOK'
    <2>1. 0 \in Numbers
      BY DEF Numbers
    <2>2. sent' \in [Msgs -> Nat]
      BY <1>1 DEF Publish
    <2>3. ready' \in [Msgs -> [Numbers -> Nat]] /\ unpublished' \subseteq Msgs
      BY <1>1, <2>1, CopiesType DEF Publish, Arrives
    <2>4. QED
      BY <1>1, <2>2, <2>3 DEF Publish, stores
  <1>2. ASSUME NEW m \in Msgs, TokenExpires(m) \/ DeleteAlert(m)
        PROVE  TypeOK'
    BY <1>2 DEF TokenExpires, DeleteAlert, broker, ends
  <1>3. ASSUME NEW m \in Msgs, NEW n \in Numbers, Expire(m, n)
        PROVE  TypeOK'
    BY <1>3, CopiesType DEF Expire, stores, ends
  <1>4. ASSUME NEW m \in Msgs, NEW n \in Numbers, NEW w \in Workers, Deliver(w, m, n)
        PROVE  TypeOK'
    <2>1. Delivery("check", m, n, TRUE) \in Deliveries
      BY DEF Delivery, Deliveries, Steps
    <2>2. Delivery("check", m, n, TRUE).m = m
      BY DEF Delivery
    <2>3. /\ ready' \in [Msgs -> [Numbers -> Nat]]
          /\ work' = [work EXCEPT ![w] = Delivery("check", m, n, TRUE)]
          /\ UNCHANGED <<sent, waiting, dead, stores, dropped, stopping, ends>>
      BY <1>4, CopiesType DEF Deliver
    <2>4. /\ work' \in [Workers -> Deliveries]
          /\ \A v \in Workers : work'[v].pc # "idle" => work'[v].m \in Msgs
      BY <2>1, <2>2, <2>3 DEF Deliveries
    <2>5. QED
      BY <2>3, <2>4 DEF stores, ends, Deliveries
  <1>5. ASSUME NEW w \in Workers, Redeliver(w)
        PROVE  ready' \in [Msgs -> [Numbers -> Nat]]
    <2>1. CASE ~Unacked(w)
      BY <1>5, <2>1 DEF Redeliver
    <2>2. CASE Unacked(w)
      <3>1. work[w].m \in Msgs /\ work[w].n \in Numbers
        BY <2>2 DEF Unacked
      <3>2. ready' = More(ready, work[w].m, work[w].n)
        BY <1>5, <2>2 DEF Redeliver
      <3>3. QED
        BY <3>1, <3>2, CopiesType
    <2>3. QED
      BY <2>1, <2>2
  <1>6. ASSUME NEW w \in Workers, LoseChannel(w)
        PROVE  TypeOK'
    <2>1. /\ work' \in [Workers -> Deliveries]
          /\ \A v \in Workers : work'[v].pc # "idle" => work'[v].m \in Msgs
      BY <1>6 DEF LoseChannel, Delivery, Deliveries
    <2>2. QED
      BY <1>5, <1>6, <2>1 DEF LoseChannel, stores, ends, Deliveries
  <1>7. ASSUME NEW w \in Workers, Crash(w)
        PROVE  TypeOK'
    <2>1. /\ work' \in [Workers -> Deliveries]
          /\ \A v \in Workers : work'[v].pc # "idle" => work'[v].m \in Msgs
      BY <1>7 DEF Crash, Ack, Idle, Delivery, Deliveries, Numbers
    <2>2. QED
      BY <1>5, <1>7, <2>1 DEF Crash, stores, ends, Deliveries
  <1>8. ASSUME NEW w \in Workers, Stop(w) \/ Restart(w)
        PROVE  TypeOK'
    BY <1>8 DEF Stop, Restart, broker, stores, ends
  <1>9. CASE UNCHANGED vars
    BY <1>9 DEF vars, broker, stores, ends
  <1>10. QED
    BY <1>1, <1>2, <1>3, <1>4, <1>6, <1>7, <1>8, <1>9, HandleType DEF Next

\* The broker's queues, the deliveries and the stores keep their types.
THEOREM QueueTypes == Spec => []TypeOK
  <1>1. Init => TypeOK
    BY DEF Init, TypeOK, NoCopies, Idle, Delivery, Numbers
  <1>2. QED
    BY <1>1, TypeStep, PTL DEF Spec

-----------------------------------------------------------------------------
\* A copy that is added is in the broker, and the others stay.
LEMMA MoreKeeps ==
    ASSUME NEW q \in [Msgs -> [Numbers -> Nat]], NEW m \in Msgs, NEW n \in Numbers
    PROVE  /\ More(q, m, n)[m][n] > 0
           /\ \A x \in Msgs, k \in Numbers : q[x][k] > 0 => More(q, m, n)[x][k] > 0
  BY DEF More

\* A copy that is taken is one of its own number only.
LEMMA LessKeeps ==
    ASSUME NEW q \in [Msgs -> [Numbers -> Nat]], NEW m \in Msgs, NEW n \in Numbers
    PROVE  \A x \in Msgs, k \in Numbers :
               q[x][k] > 0 /\ (x # m \/ k # n) => Less(q, m, n)[x][k] > 0
  BY DEF Less

\* w drops its delivery of m: the token is taken.
Drops(w, m) == TakeToken(w) /\ work[w].m = m /\ m \in token

\* A step leaves m accounted for, gives it up or drops it.
Ended(m) == m \in unpublished \/ m \in exhausted
Kept(m) == Accounted(m)' \/ Ended(m)' \/ \E w \in Workers : Drops(w, m)

\* A handler leaves the request it has in the broker, in a store, given up or
\* dropped as a duplicate, and touches no other.
LEMMA HandleKeeps ==
    ASSUME TypeOK, NEW w \in Workers, Handle(w), NEW m \in Msgs, Accounted(m)
    PROVE  Kept(m)
  <1> USE DEF TypeOK, Kept, Accounted
  <1>1. rows \subseteq rows' /\ dead \subseteq dead' /\ deleted \subseteq deleted'
    BY DEF Handle, CancelCheck, TakeToken, TokenError, Lookup, Create, CreateError,
       AckCreated, Requeue, DeadLetter, Refuse, AckRequeued, Release, broker, stores
  <1>2. /\ ready' = ready
        /\ waiting' = waiting \/ \E n \in Numbers : waiting' = More(waiting, work[w].m, n)
    <2>1. CASE Requeue(w) \/ DeadLetter(w)
      <3>1. work[w].n < MaxRetries => work[w].n + 1 \in Numbers
        BY DEF Numbers
      <3>2. QED
        BY <2>1, <3>1 DEF Requeue, Arrives, DeadLetter
    <2>2. QED
      BY <2>1 DEF Handle, CancelCheck, TakeToken, TokenError, Lookup, Create,
         CreateError, AckCreated, AckRequeued, Release, broker
  <1>3. work[w].pc # "idle" /\ work[w].m \in Msgs
    BY DEF Handle, CancelCheck, TakeToken, TokenError, Lookup, Create, CreateError,
       AckCreated, Requeue, DeadLetter, AckRequeued, Release
  <1>4. CASE InBroker(m)
    <2>1. PICK n \in Numbers : ready[m][n] > 0 \/ waiting[m][n] > 0
      BY <1>4 DEF InBroker
    <2>2. ready'[m][n] > 0 \/ waiting'[m][n] > 0
      BY <1>2, <1>3, <2>1, MoreKeeps
    <2>3. QED
      BY <2>2 DEF InBroker
  <1>5. ASSUME NEW v \in Workers, v # w, work[v].m = m, work[v].live,
               work[v].pc \in {"check", "token", "lookup", "create", "retry"}
        PROVE  InHand(m)'
    <2>1. work'[v] = work[v]
      BY <1>5 DEF Handle, CancelCheck, TakeToken, TokenError, Lookup, Create,
         CreateError, AckCreated, Requeue, DeadLetter, AckRequeued, Release, Ack, Goto
    <2>2. QED
      BY <1>5, <2>1 DEF InHand
  <1>6. ASSUME work[w].m = m, work[w].live,
               work[w].pc \in {"check", "token", "lookup", "create", "retry"}
        PROVE  Kept(m)
    <2>1. ASSUME NEW pc \in {"token", "lookup", "create", "retry"}, Goto(w, pc)
          PROVE  Kept(m)
      <3>1. work'[w].m = m /\ work'[w].live /\ work'[w].pc = pc
        BY <1>6, <2>1 DEF Goto, At, Delivery
      <3>2. QED
        BY <2>1, <3>1 DEF InHand
    <2>2. CASE CancelCheck(w)
      BY <1>1, <1>6, <2>1, <2>2 DEF CancelCheck
    <2>3. CASE TakeToken(w)
      BY <1>6, <2>1, <2>3 DEF TakeToken, Drops
    <2>4. CASE TokenError(w)
      BY <2>1, <2>4 DEF TokenError
    <2>5. CASE Lookup(w)
      BY <1>1, <1>6, <2>1, <2>5 DEF Lookup
    <2>6. CASE Create(w)
      BY <1>6, <2>6 DEF Create
    <2>7. CASE CreateError(w)
      BY <2>1, <2>7 DEF CreateError
    <2>8. CASE Requeue(w)
      <3>1. work[w].n + 1 \in Numbers
        BY <2>8 DEF Requeue, Numbers
      <3>2. waiting'[m][work[w].n + 1] > 0 \/ m \in unpublished'
        BY <1>6, <2>8, <3>1, MoreKeeps DEF Requeue, Arrives
      <3>3. QED
        BY <3>1, <3>2 DEF InBroker, Ended
    <2>9. CASE DeadLetter(w)
      BY <1>6, <2>9 DEF DeadLetter, Ended
    <2>10. QED
      BY <1>6, <2>2, <2>3, <2>4, <2>5, <2>6, <2>7, <2>8, <2>9 DEF Handle,
         AckCreated, AckRequeued, Release
  <1>7. QED
    BY <1>1, <1>4, <1>5, <1>6 DEF InHand

\* Every step keeps what is accounted for, or drops it.
LEMMA StepKeeps ==
    ASSUME TypeOK, Next, NEW m \in Msgs, Accounted(m)
    PROVE  Kept(m)
  <1> USE DEF TypeOK, Kept, Accounted
  <1>1. ASSUME UNCHANGED <<rows, dead, deleted, ready, waiting, work>>
        PROVE  Kept(m)
    BY <1>1 DEF InBroker, InHand
  <1>2. ASSUME NEW x \in Msgs, Publish(x)
        PROVE  Kept(m)
    <2>1. 0 \in Numbers
      BY DEF Numbers
    <2>2. InBroker(m) => InBroker(m)'
      BY <1>2, <2>1, MoreKeeps DEF Publish, Arrives, InBroker
    <2>3. QED
      BY <1>2, <2>2 DEF Publish, stores, InHand
  <1>3. ASSUME NEW x \in Msgs, TokenExpires(x)
        PROVE  Kept(m)
    BY <1>1, <1>3 DEF TokenExpires, broker
  <1>4. ASSUME NEW x \in Msgs, DeleteAlert(x)
        PROVE  Kept(m)
    BY <1>4 DEF DeleteAlert, broker, InBroker, InHand
  <1>5. ASSUME NEW x \in Msgs, NEW n \in Numbers, Expire(x, n)
        PROVE  Kept(m)
    <2>1. InBroker(m) => InBroker(m)'
      BY <1>5, MoreKeeps, LessKeeps DEF Expire, InBroker
    <2>2. QED
      BY <1>5, <2>1 DEF Expire, stores, InHand
  <1>6. ASSUME NEW x \in Msgs, NEW n \in Numbers, NEW w \in Workers, Deliver(w, x, n)
        PROVE  Kept(m)
    <2>1. CASE x = m
      <3>1. work'[w] = Delivery("check", m, n, TRUE)
        BY <1>6, <2>1 DEF Deliver
      <3>2. QED
        BY <3>1 DEF Delivery, InHand
    <2>2. CASE x # m
      <3>1. InBroker(m) => InBroker(m)'
        BY <1>6, <2>2, LessKeeps DEF Deliver, InBroker
      <3>2. \A v \in Workers : work[v].m = m /\ v # w => work'[v] = work[v]
        BY <1>6 DEF Deliver
      <3>3. work[w].pc = "idle"
        BY <1>6 DEF Deliver
      <3>4. InHand(m) => InHand(m)'
        BY <3>2, <3>3 DEF InHand
      <3>5. QED
        BY <1>6, <3>1, <3>4 DEF Deliver, stores
    <2>3. QED
      BY <2>1, <2>2
  <1>7. ASSUME NEW w \in Workers, LoseChannel(w) \/ Crash(w)
        PROVE  Kept(m)
    <2>1. Redeliver(w) /\ waiting' = waiting
      BY <1>7 DEF LoseChannel, Crash
    <2>2. /\ InBroker(m) => InBroker(m)'
          /\ Unacked(w) /\ work[w].m = m => InBroker(m)'
      <3>1. CASE ~Unacked(w)
        BY <2>1, <3>1 DEF Redeliver, InBroker
      <3>2. CASE Unacked(w)
        <4> DEFINE x == work[w].m
                   n == work[w].n
        <4>1. x \in Msgs /\ n \in Numbers
          BY <3>2 DEF Unacked
        <4>2. ready' = More(ready, x, n)
          BY <2>1, <3>2 DEF Redeliver
        <4> HIDE DEF x, n
        <4>3. /\ ready'[x][n] > 0
              /\ \A y \in Msgs, k \in Numbers : ready[y][k] > 0 => ready'[y][k] > 0
          BY <4>1, <4>2, MoreKeeps
        <4>4. x = m => InBroker(m)'
          BY <4>1, <4>3 DEF InBroker
        <4>5. InBroker(m) => InBroker(m)'
          BY <2>1, <4>3 DEF InBroker
        <4>6. QED
          BY <4>4, <4>5 DEF x
      <3>3. QED
        BY <3>1, <3>2
    <2>3. \A v \in Workers : v # w => work'[v] = work[v]
      BY <1>7 DEF LoseChannel, Crash, Ack
    <2>4. InHand(m) => InHand(m)' \/ InBroker(m)'
      BY <2>2, <2>3 DEF InHand, Unacked
    <2>5. QED
      BY <1>7, <2>2, <2>4 DEF LoseChannel, Crash, stores
  <1>8. ASSUME NEW w \in Workers, Stop(w) \/ Restart(w)
        PROVE  Kept(m)
    BY <1>1, <1>8 DEF Stop, Restart, broker, stores
  <1>9. QED
    BY <1>2, <1>3, <1>4, <1>5, <1>6, <1>7, <1>8, HandleKeeps DEF Next

\* The first publication of m puts it into the broker, or is lost.
LEMMA FirstPublication ==
    ASSUME TypeOK, Next, NEW m \in Msgs, ~(sent[m] > 0), sent'[m] > 0
    PROVE  InBroker(m)' \/ Ended(m)'
  <1>1. Publish(m)
    <2>1. sent'[m] # sent[m]
      OBVIOUS
    <2>2. ASSUME NEW x \in Msgs, Publish(x)
          PROVE  x = m
      BY <2>1, <2>2 DEF Publish, TypeOK
    <2>3. ASSUME NEW w \in Workers, Handle(w)
          PROVE  UNCHANGED sent
      BY <2>3 DEF Handle, CancelCheck, TakeToken, TokenError, Lookup, Create,
         CreateError, AckCreated, Requeue, DeadLetter, AckRequeued, Release
    <2>4. QED
      BY <2>1, <2>2, <2>3 DEF Next, TokenExpires, DeleteAlert, Expire, Deliver,
         LoseChannel, Crash, Stop, Restart
  <1>2. 0 \in Numbers
    BY DEF Numbers
  <1>3. QED
    BY <1>1, <1>2, MoreKeeps DEF Publish, Arrives, InBroker, Ended, TypeOK

\* What is dropped or given up stays so.
LEMMA EndsGrow ==
    ASSUME Next
    PROVE  /\ dropped \subseteq dropped'
           /\ exhausted \subseteq exhausted' /\ unpublished \subseteq unpublished'
  <1>1. ASSUME NEW w \in Workers, Handle(w)
        PROVE  /\ dropped \subseteq dropped'
               /\ exhausted \subseteq exhausted' /\ unpublished \subseteq unpublished'
    BY <1>1 DEF Handle, CancelCheck, TakeToken, TokenError, Lookup, Create, CreateError,
       AckCreated, Requeue, Arrives, DeadLetter, AckRequeued, Release, ends
  <1>2. QED
    BY <1>1 DEF Next, Publish, Arrives, TokenExpires, DeleteAlert, Expire, Deliver,
       LoseChannel, Crash, Stop, Restart, ends

-----------------------------------------------------------------------------
(* The retry number of a delivery is paid for by failed inserts. *)

\* What a handler holds of m, and what its pc says about its last insert.
Counted(w, m) ==
    work[w].m = m =>
        /\ tries[m] >= work[w].n
        /\ work[w].pc = "retry" => tries[m] >= work[w].n + 1

Paid(m) ==
    /\ \A n \in Numbers : ready[m][n] > 0 \/ waiting[m][n] > 0 => tries[m] >= n
    /\ \A w \in Workers : Counted(w, m)
    /\ m \in exhausted => tries[m] > MaxRetries

NumbersPaid == \A m \in Msgs : Paid(m)

\* A queue that gets a copy whose number is paid for, or loses one.
LEMMA CopiesPaid ==
    ASSUME NEW q \in [Msgs -> [Numbers -> Nat]], NEW x \in Msgs, NEW k \in Numbers,
           NEW t, NEW m \in Msgs, \A n \in Numbers : q[m][n] > 0 => t >= n
    PROVE  /\ m # x \/ t >= k => \A n \in Numbers : More(q, x, k)[m][n] > 0 => t >= n
           /\ \A n \in Numbers : Less(q, x, k)[m][n] > 0 => t >= n
  <1>1. ASSUME NEW n \in Numbers
        PROVE  /\ More(q, x, k)[m][n] > 0 => q[m][n] > 0 \/ (m = x /\ n = k)
               /\ Less(q, x, k)[m][n] > 0 => q[m][n] > 0
    BY DEF More, Less
  <1>2. QED
    BY <1>1

LEMMA HandlePaid ==
    ASSUME TypeOK, NumbersPaid, NEW w \in Workers, Handle(w)
    PROVE  NumbersPaid'
  <1> USE DEF TypeOK
  <1> SUFFICES ASSUME NEW m \in Msgs PROVE Paid(m)'
    BY DEF NumbersPaid
  <1>1. Paid(m) /\ tries[m] \in Nat /\ (m \in exhausted => tries[m] > MaxRetries)
    BY DEF NumbersPaid, Paid
  <1>2. work[w].pc # "idle" /\ work[w].m \in Msgs /\ work[w].n \in Numbers
    BY DEF Handle, CancelCheck, TakeToken, TokenError, Lookup, Create, CreateError,
       AckCreated, Requeue, DeadLetter, AckRequeued, Release
  <1>3. ready' = ready /\ \A v \in Workers \ {w} : work'[v] = work[v]
    BY DEF Handle, CancelCheck, TakeToken, TokenError, Lookup, Create, CreateError,
       AckCreated, Requeue, DeadLetter, AckRequeued, Release, Ack, Goto, broker
  <1>4. ASSUME tries' = tries, ~CreateError(w) PROVE Counted(w, m)'
    <2>1. Ack(w) \/ \E pc \in Steps \ {"retry"} : Goto(w, pc)
      BY <1>4 DEF Handle, CancelCheck, TakeToken, TokenError, Lookup, Create,
         AckCreated, Requeue, DeadLetter, AckRequeued, Release, Steps
    <2>2. CASE Ack(w)
      BY <2>2 DEF Ack, Idle, Delivery, Counted
    <2>3. CASE \E pc \in Steps \ {"retry"} : Goto(w, pc)
      <3>1. PICK pc \in Steps \ {"retry"} : Goto(w, pc)
        BY <2>3
      <3>2. work'[w].m = work[w].m /\ work'[w].n = work[w].n /\ work'[w].pc = pc
        BY <3>1 DEF Goto, At, Delivery
      <3>3. QED
        BY <1>1, <1>4, <3>2 DEF Paid, Counted
    <2>4. QED
      BY <2>1, <2>2, <2>3
  <1>5. CASE CreateError(w)
    <2>1. /\ UNCHANGED <<ready, waiting, exhausted>>
          /\ tries' = [tries EXCEPT ![work[w].m] = IF @ > MaxRetries THEN @ ELSE @ + 1]
          /\ Goto(w, "retry")
      BY <1>5 DEF CreateError, broker
    <2>2. work'[w].m = work[w].m /\ work'[w].n = work[w].n
      BY <2>1 DEF Goto, At, Delivery
    <2>3. /\ tries'[m] \in Nat /\ tries'[m] >= tries[m]
          /\ work[w].m = m => tries'[m] = IF tries[m] > MaxRetries THEN tries[m]
                                                                   ELSE tries[m] + 1
      BY <1>2, <2>1
    <2>4. Counted(w, m)'
      <3>1. work[w].m = m => tries[m] >= work[w].n /\ work[w].n <= MaxRetries
                             /\ work[w].n \in Nat
        BY <1>1, <1>2 DEF Paid, Counted, Numbers
      <3>2. work[w].m = m => tries'[m] >= work[w].n + 1
        BY <1>1, <2>3, <3>1
      <3>3. QED
        BY <2>2, <2>3, <3>1, <3>2 DEF Counted
    <2>5. \A v \in Workers \ {w} : Counted(v, m)'
      <3>1. \A v \in Workers : work[v].n \in Nat
        BY DEF Numbers
      <3>2. QED
        BY <1>1, <1>3, <2>3, <3>1 DEF Paid, Counted
    <2>6. \A n \in Numbers : n \in Nat
      BY DEF Numbers
    <2>7. QED
      BY <1>1, <2>1, <2>3, <2>4, <2>5, <2>6 DEF Paid
  <1>6. CASE ~CreateError(w)
    <2>1. tries' = tries
      BY <1>6 DEF Handle, CancelCheck, TakeToken, TokenError, Lookup, Create,
         AckCreated, Requeue, DeadLetter, AckRequeued, Release, ends
    <2>2. \A v \in Workers : Counted(v, m)'
      <3>1. \A v \in Workers \ {w} : Counted(v, m)'
        BY <1>1, <1>3, <2>1 DEF Paid, Counted
      <3>2. Counted(w, m)'
        BY <1>4, <1>6, <2>1
      <3>3. QED
        BY <3>1, <3>2
    <2>3. /\ \A n \in Numbers : waiting'[m][n] > 0 => tries[m] >= n
          /\ m \in exhausted' => tries[m] > MaxRetries
      <3>1. CASE Requeue(w) \/ DeadLetter(w)
        <4>1. work[w].pc = "retry" /\ (work[w].m = m => tries[m] >= work[w].n + 1)
          BY <1>1, <3>1 DEF Requeue, DeadLetter, Paid, Counted
        <4>2. work[w].n < MaxRetries => work[w].n + 1 \in Numbers
          BY <1>2, NextNumber
        <4>3. \/ waiting' = waiting
              \/ work[w].n < MaxRetries /\ waiting' = More(waiting, work[w].m, work[w].n + 1)
          BY <3>1 DEF Requeue, Arrives, DeadLetter
        <4>4. \A n \in Numbers : waiting[m][n] > 0 => tries[m] >= n
          BY <1>1 DEF Paid
        <4>5. \A n \in Numbers : waiting'[m][n] > 0 => tries[m] >= n
          BY <1>2, <4>1, <4>2, <4>3, <4>4, CopiesPaid
        <4>6. m \in exhausted' => m \in exhausted \/ (work[w].m = m /\ work[w].n = MaxRetries)
          BY <3>1 DEF Requeue, DeadLetter
        <4>7. QED
          BY <1>1, <4>1, <4>5, <4>6
      <3>2. CASE ~(Requeue(w) \/ DeadLetter(w))
        BY <1>1, <1>6, <3>2 DEF Handle, CancelCheck, TakeToken, TokenError, Lookup, Create,
           AckCreated, AckRequeued, Release, ends, broker, Paid
      <3>3. QED
        BY <3>1, <3>2
    <2>4. QED
      BY <1>1, <1>3, <2>1, <2>2, <2>3 DEF Paid
  <1>7. QED
    BY <1>5, <1>6

LEMMA PaidStep ==
    ASSUME TypeOK, NumbersPaid, [Next]_vars
    PROVE  NumbersPaid'
  <1> USE DEF TypeOK
  <1>1. ASSUME UNCHANGED <<ready, waiting, work, tries, exhausted>>
        PROVE  NumbersPaid'
    BY <1>1 DEF NumbersPaid, Paid, Counted
  <1>2. ASSUME NEW x \in Msgs, Publish(x)
        PROVE  NumbersPaid'
    <2>1. 0 \in Numbers /\ UNCHANGED <<waiting, work, tries, exhausted>>
      BY <1>2 DEF Publish, Numbers
    <2>2. ASSUME NEW m \in Msgs
          PROVE  \A n \in Numbers : ready'[m][n] > 0 => tries[m] >= n
      <3>1. tries[m] >= 0 /\ \A n \in Numbers : ready[m][n] > 0 => tries[m] >= n
        BY DEF NumbersPaid, Paid
      <3>2. ready' = ready \/ ready' = More(ready, x, 0)
        BY <1>2 DEF Publish, Arrives
      <3>3. QED
        BY <2>1, <3>1, <3>2, CopiesPaid
    <2>3. QED
      BY <2>1, <2>2 DEF NumbersPaid, Paid, Counted
  <1>3. ASSUME NEW x \in Msgs, NEW k \in Numbers, Expire(x, k)
        PROVE  NumbersPaid'
    <2> SUFFICES ASSUME NEW m \in Msgs PROVE Paid(m)'
      BY DEF NumbersPaid
    <2>1. /\ waiting' = Less(waiting, x, k) /\ ready' = More(ready, x, k)
          /\ waiting[x][k] > 0 /\ UNCHANGED <<work, tries, exhausted>>
      BY <1>3 DEF Expire, ends
    <2>2. Paid(m) /\ tries[x] >= k
      BY <2>1 DEF NumbersPaid, Paid
    <2>3. /\ \A n \in Numbers : ready'[m][n] > 0 => tries[m] >= n
          /\ \A n \in Numbers : waiting'[m][n] > 0 => tries[m] >= n
      BY <2>1, <2>2, CopiesPaid DEF Paid
    <2>4. QED
      BY <2>1, <2>2, <2>3 DEF Paid, Counted
  <1>4. ASSUME NEW x \in Msgs, NEW k \in Numbers, NEW w \in Workers, Deliver(w, x, k)
        PROVE  NumbersPaid'
    <2> SUFFICES ASSUME NEW m \in Msgs PROVE Paid(m)'
      BY DEF NumbersPaid
    <2>1. /\ ready' = Less(ready, x, k) /\ ready[x][k] > 0
          /\ work' = [work EXCEPT ![w] = Delivery("check", x, k, TRUE)]
          /\ UNCHANGED <<waiting, tries, exhausted>>
      BY <1>4 DEF Deliver, ends
    <2>2. Paid(m) /\ tries[x] >= k
      BY <2>1 DEF NumbersPaid, Paid
    <2>3. \A n \in Numbers : ready'[m][n] > 0 => tries[m] >= n
      BY <2>1, <2>2, CopiesPaid DEF Paid
    <2>4. \A v \in Workers : Counted(v, m)'
      BY <2>1, <2>2 DEF Paid, Counted, Delivery
    <2>5. QED
      BY <2>1, <2>2, <2>3, <2>4 DEF Paid
  <1>5. ASSUME NEW w \in Workers, LoseChannel(w) \/ Crash(w)
        PROVE  NumbersPaid'
    <2> SUFFICES ASSUME NEW m \in Msgs PROVE Paid(m)'
      BY DEF NumbersPaid
    <2>1. Redeliver(w) /\ UNCHANGED <<waiting, tries, exhausted>> /\ work[w].pc # "idle"
      BY <1>5 DEF LoseChannel, Crash, Unacked, ends
    <2>2. /\ Paid(m) /\ work[w].m \in Msgs /\ work[w].n \in Numbers
          /\ work[w].m = m => tries[m] >= work[w].n
      BY <2>1 DEF NumbersPaid, Paid, Counted
    <2>3. ready' = ready \/ ready' = More(ready, work[w].m, work[w].n)
      BY <2>1 DEF Redeliver
    <2>4. \A n \in Numbers : ready'[m][n] > 0 => tries[m] >= n
      BY <2>2, <2>3, CopiesPaid DEF Paid
    <2>5. \A v \in Workers : Counted(v, m)'
      <3>1. \/ work' = [work EXCEPT ![w] = Idle]
            \/ work' = [work EXCEPT ![w] =
                           Delivery(work[w].pc, work[w].m, work[w].n, FALSE)]
        BY <1>5 DEF LoseChannel, Crash, Ack
      <3>2. \A v \in Workers \ {w} : Counted(v, m)'
        BY <2>1, <2>2, <3>1 DEF Paid, Counted
      <3>3. Counted(w, m) /\ tries' = tries
        BY <2>1, <2>2 DEF Paid
      <3>4. CASE work' = [work EXCEPT ![w] = Idle]
        <4>1. work'[w].m = None
          BY <3>4 DEF Idle, Delivery
        <4>2. Counted(w, m)'
          BY <4>1 DEF Counted
        <4>3. QED
          BY <3>2, <4>2
      <3>5. CASE work' = [work EXCEPT ![w] =
                            Delivery(work[w].pc, work[w].m, work[w].n, FALSE)]
        <4>1. /\ work'[w].m = work[w].m /\ work'[w].n = work[w].n
              /\ work'[w].pc = work[w].pc
          BY <3>5 DEF Delivery
        <4>2. tries'[m] = tries[m]
          BY <3>3
        <4>3. Counted(w, m)'
          BY <3>3, <4>1, <4>2 DEF Counted
        <4>4. QED
          BY <3>2, <4>3
      <3>6. QED
        BY <3>1, <3>2, <3>4, <3>5
    <2>6. QED
      BY <2>1, <2>2, <2>4, <2>5 DEF Paid
  <1>6. QED
    BY <1>1, <1>2, <1>3, <1>4, <1>5, HandlePaid DEF Next, TokenExpires, DeleteAlert, Stop,
       Restart, vars, broker, ends

LEMMA PaidInvariant == Spec => []NumbersPaid
  <1>1. Init => NumbersPaid
    <2> SUFFICES ASSUME Init, NEW m \in Msgs PROVE Paid(m)
      BY DEF NumbersPaid
    <2>1. \A n \in Numbers : ready[m][n] = 0 /\ waiting[m][n] = 0
      BY DEF Init, NoCopies
    <2>2. \A w \in Workers : work[w].m # m
      BY DEF Init, Idle, Delivery
    <2>3. QED
      BY <2>1, <2>2 DEF Init, Paid, Counted
  <1>2. QED
    BY <1>1, QueueTypes, PaidStep, PTL DEF Spec

-----------------------------------------------------------------------------
(* Under every fault. *)

\* A step leaves no published request without a trace but a drop or an end.
Traced == \A m \in Msgs : sent[m] > 0 => Accounted(m) \/ Ended(m) \/ m \in dropped

LEMMA LossStep ==
    ASSUME TypeOK, Traced, [Next]_vars
    PROVE  Traced'
  <1>1. CASE UNCHANGED vars
    BY <1>1 DEF vars, broker, stores, ends, Traced, Accounted, Ended, InBroker, InHand
  <1>2. CASE Next
    <2> SUFFICES ASSUME NEW m \in Msgs, sent'[m] > 0
                 PROVE  Accounted(m)' \/ Ended(m)' \/ m \in dropped'
      BY DEF Traced
    <2>1. CASE sent[m] > 0
      <3>1. (m \in dropped => m \in dropped') /\ (Ended(m) => Ended(m)')
        BY <1>2, EndsGrow DEF Ended
      <3>2. CASE Accounted(m)
        BY <1>2, <3>2, StepKeeps DEF Kept, Drops, TakeToken
      <3>3. QED
        BY <2>1, <3>1, <3>2 DEF Traced
    <2>2. CASE ~(sent[m] > 0)
      BY <1>2, <2>2, FirstPublication DEF Accounted
    <2>3. QED
      BY <2>1, <2>2
  <1>3. QED
    BY <1>1, <1>2

\* Whatever commands fail, processes die and channels break, a request is in the
\* broker, in a handler, in PostgreSQL or deleted, unless a publication of it
\* failed or was lost, one of its deliveries was dropped as a duplicate, or it was
\* refused, and then its insert has failed MaxRetries + 1 times: no redelivery and
\* no second copy uses up a retry of its own.
THEOREM LossOnlyByDrop == Spec => []LossIsADrop
  <1>1. Init => Traced
    BY DEF Init, Traced
  <1>2. Spec => []Traced
    BY <1>1, QueueTypes, LossStep, PTL DEF Spec
  <1>3. Traced /\ NumbersPaid => LossIsADrop
    BY DEF Traced, NumbersPaid, Paid, Ended, LossIsADrop, GivenUp
  <1>4. QED
    BY <1>2, <1>3, PaidInvariant, PTL

-----------------------------------------------------------------------------
(* While only the database and the publisher fail, and the wire to the broker. *)

SoundChannels == stopping = {} /\ \A w \in Workers : work[w].pc # "idle" => work[w].live

\* Somebody answers for the token of m: a row, a deletion, the end of its retries,
\* a handler that has passed it, or one that is about to give it back and has
\* left a copy in a retry queue.
Answered(m) ==
    \/ m \in rows \cup dead \cup deleted \/ Ended(m)
    \/ \E w \in Workers :
          /\ work[w].m = m
          /\ \/ work[w].pc \in {"lookup", "create", "retry"}
             \/ /\ work[w].pc \in {"requeued", "release"}
                /\ \E n \in Numbers : waiting[m][n] > 0

TokensAnswered == \A m \in Msgs : m \in token => Answered(m)

LEMMA CalmStep ==
    ASSUME Faults \subseteq {"db", "publish", "wire"}, TypeOK, SoundChannels, Next
    PROVE  SoundChannels'
  <1> USE DEF SoundChannels, TypeOK
  <1>1. ASSUME NEW w \in Workers, Handle(w)
        PROVE  SoundChannels'
    <2>1. stopping' = stopping /\ work[w].pc # "idle"
      BY <1>1 DEF Handle, CancelCheck, TakeToken, TokenError, Lookup, Create, CreateError,
         AckCreated, Requeue, DeadLetter, AckRequeued, Release
    <2>2. Ack(w) \/ \E pc \in Steps : Goto(w, pc)
      BY <1>1 DEF Handle, CancelCheck, TakeToken, TokenError, Lookup, Create, CreateError,
         AckCreated, Requeue, DeadLetter, AckRequeued, Release, Steps
    <2>3. QED
      BY <2>1, <2>2 DEF Ack, Goto, At, Delivery, Idle
  <1>2. ASSUME NEW w \in Workers, NEW m \in Msgs, NEW n \in Numbers, Deliver(w, m, n)
        PROVE  SoundChannels'
    BY <1>2 DEF Deliver, Delivery
  <1>3. QED
    BY <1>1, <1>2 DEF Next, Publish, TokenExpires, DeleteAlert, Expire, LoseChannel, Crash,
       Stop, Restart

\* A handler passes the answer for a token on, or gives the token back.
LEMMA HandleAnswers ==
    ASSUME Faults \subseteq {"db", "publish", "wire"}, TypeOK, SoundChannels,
           NEW w \in Workers, Handle(w),
           NEW m \in Msgs, m \in token => Answered(m), m \in token'
    PROVE  Answered(m)'
  <1> USE DEF TypeOK
  <1>1. rows \subseteq rows' /\ dead \subseteq dead' /\ deleted \subseteq deleted'
    BY DEF Handle, CancelCheck, TakeToken, TokenError, Lookup, Create, CreateError,
       AckCreated, Requeue, DeadLetter, Refuse, AckRequeued, Release, broker, stores
  <1>2. \A v \in Workers \ {w} : work'[v] = work[v]
    BY DEF Handle, CancelCheck, TakeToken, TokenError, Lookup, Create, CreateError,
       AckCreated, Requeue, DeadLetter, AckRequeued, Release, Ack, Goto
  <1>3. waiting' = waiting \/ \E n \in Numbers : waiting' = More(waiting, work[w].m, n)
    <2>1. CASE Requeue(w) \/ DeadLetter(w)
      <3>1. work[w].n < MaxRetries => work[w].n + 1 \in Numbers
        BY DEF Numbers
      <3>2. QED
        BY <2>1, <3>1 DEF Requeue, Arrives, DeadLetter
    <2>2. QED
      BY <2>1 DEF Handle, CancelCheck, TakeToken, TokenError, Lookup, Create,
         CreateError, AckCreated, AckRequeued, Release, broker
  <1>4. work[w].pc # "idle" /\ work[w].m \in Msgs /\ work[w].live /\ w \notin stopping
    <2>1. work[w].pc # "idle"
      BY DEF Handle, CancelCheck, TakeToken, TokenError, Lookup, Create, CreateError,
         AckCreated, Requeue, DeadLetter, AckRequeued, Release, At
    <2>2. work[w].m \in Msgs
      BY <2>1 DEF Delivery
    <2>3. QED
      BY <2>1, <2>2 DEF SoundChannels
  <1>5. \A n \in Numbers : waiting[m][n] > 0 => waiting'[m][n] > 0
    <2>1. ASSUME NEW k \in Numbers, waiting' = More(waiting, work[w].m, k)
          PROVE  \A n \in Numbers : waiting[m][n] > 0 => waiting'[m][n] > 0
      BY <1>4, <2>1, MoreKeeps
    <2>2. CASE waiting' = waiting
      BY <2>2
    <2>3. QED
      BY <1>3, <2>1, <2>2
  <1>6. ASSUME NEW pc \in {"lookup", "create", "retry"}, Goto(w, pc), work[w].m = m
        PROVE  Answered(m)'
    <2>1. work'[w].m = m /\ work'[w].pc = pc
      BY <1>6 DEF Goto, At, Delivery
    <2>2. QED
      BY <2>1 DEF Answered
  <1>7. CASE m \in rows \cup dead \cup deleted \/ Ended(m)
    <2>1. Ended(m) => Ended(m)'
      BY DEF Handle, CancelCheck, TakeToken, TokenError, Lookup, Create, CreateError,
         AckCreated, Requeue, Arrives, DeadLetter, AckRequeued, Release, ends, Ended
    <2>2. QED
      BY <1>1, <1>7, <2>1 DEF Answered
  <1>8. ASSUME NEW v \in Workers \ {w}, work[v].m = m,
               \/ work[v].pc \in {"lookup", "create", "retry"}
               \/ /\ work[v].pc \in {"requeued", "release"}
                  /\ \E n \in Numbers : waiting[m][n] > 0
        PROVE  Answered(m)'
    BY <1>2, <1>5, <1>8 DEF Answered
  <1>9. CASE work[w].m = m /\ work[w].pc \in {"lookup", "create", "retry"}
    <2>1. CASE Lookup(w)
      BY <1>1, <1>6, <1>9, <2>1 DEF Lookup, Answered, stores
    <2>2. CASE Create(w)
      BY <1>9, <2>2 DEF Create, Answered
    <2>3. CASE CreateError(w)
      BY <1>6, <1>9, <2>3 DEF CreateError
    <2>4. CASE Requeue(w)
      <3>1. work[w].n + 1 \in Numbers
        BY <2>4 DEF Requeue, Numbers
      <3>2. waiting'[m][work[w].n + 1] > 0 \/ m \in unpublished'
        BY <1>9, <2>4, <3>1, MoreKeeps DEF Requeue, Arrives
      <3>3. work'[w].m = m /\ work'[w].pc = "requeued"
        BY <1>9, <2>4 DEF Requeue, Goto, At, Delivery
      <3>4. QED
        BY <3>1, <3>2, <3>3 DEF Answered, Ended
    <2>5. CASE DeadLetter(w)
      BY <1>4, <1>9, <2>5 DEF DeadLetter, Answered, Ended
    <2>6. QED
      BY <1>9, <2>1, <2>2, <2>3, <2>4, <2>5 DEF Handle, CancelCheck, TakeToken, TokenError,
         AckCreated, AckRequeued, Release
  <1>10. CASE /\ work[w].m = m /\ work[w].pc \in {"requeued", "release"}
              /\ \E n \in Numbers : waiting[m][n] > 0
    <2>1. CASE AckRequeued(w)
      <3>1. work'[w].m = m /\ work'[w].pc = "release"
        BY <1>10, <2>1 DEF AckRequeued, Goto, At, Delivery
      <3>2. QED
        BY <1>5, <1>10, <3>1 DEF Answered
    <2>2. CASE Release(w)
      BY <1>4, <1>10, <2>2 DEF Release, Fails
    <2>3. QED
      BY <1>10, <2>1, <2>2 DEF Handle, CancelCheck, TakeToken, TokenError, Lookup, Create,
         CreateError, AckCreated, Requeue, DeadLetter
  <1>11. CASE m \notin token
    <2>1. TakeToken(w) /\ work[w].m = m
      BY <1>4, <1>11 DEF Handle, CancelCheck, TakeToken, TokenError, Lookup, Create,
         CreateError, AckCreated, Requeue, DeadLetter, AckRequeued, Release, stores, Fails
    <2>2. QED
      BY <1>6, <1>11, <2>1 DEF TakeToken
  <1>12. QED
    BY <1>7, <1>8, <1>9, <1>10, <1>11 DEF Answered

LEMMA AnsweredStep ==
    ASSUME Faults \subseteq {"db", "publish", "wire"}, TypeOK, SoundChannels, TokensAnswered, Next
    PROVE  TokensAnswered'
  <1> SUFFICES ASSUME NEW m \in Msgs, m \in token'
               PROVE  Answered(m)'
    BY DEF TokensAnswered
  <1>1. m \in token => Answered(m)
    BY DEF TokensAnswered
  <1>0. Ended(m) => Ended(m)'
    BY EndsGrow DEF Ended
  <1>2. ASSUME m \in token, UNCHANGED <<waiting, work>>,
               rows \subseteq rows', dead \subseteq dead', deleted \subseteq deleted'
        PROVE  Answered(m)'
    BY <1>0, <1>1, <1>2 DEF Answered
  <1>3. ASSUME NEW x \in Msgs, Publish(x) \/ TokenExpires(x) \/ DeleteAlert(x)
        PROVE  Answered(m)'
    BY <1>2, <1>3 DEF Publish, TokenExpires, DeleteAlert, broker, stores
  <1>4. ASSUME NEW x \in Msgs, NEW n \in Numbers, Expire(x, n)
        PROVE  Answered(m)'
    <2>1. x # m => waiting'[m] = waiting[m]
      BY <1>4 DEF Expire, Less, TypeOK
    <2>2. QED
      BY <1>0, <1>1, <1>4, <2>1 DEF Expire, Answered, stores
  <1>5. ASSUME NEW x \in Msgs, NEW n \in Numbers, NEW w \in Workers, Deliver(w, x, n)
        PROVE  Answered(m)'
    <2>1. work[w].pc = "idle" /\ \A v \in Workers \ {w} : work'[v] = work[v]
      BY <1>5 DEF Deliver, TypeOK
    <2>2. QED
      BY <1>0, <1>1, <1>5, <2>1 DEF Deliver, Answered, stores
  <1>6. ASSUME NEW w \in Workers, Handle(w)
        PROVE  Answered(m)'
    BY <1>1, <1>6, HandleAnswers
  <1>7. QED
    BY <1>3, <1>4, <1>5, <1>6 DEF Next, LoseChannel, Crash, Stop, Restart, SoundChannels

\* A delivery is dropped only if its request has an answer elsewhere.
LEMMA DropIsDuplicate ==
    ASSUME TypeOK, SoundChannels, TokensAnswered, NEW w \in Workers, NEW m \in Msgs, Drops(w, m)
    PROVE  Accounted(m)' \/ Ended(m)'
  <1>1. /\ UNCHANGED <<rows, dead, deleted, ready, waiting, exhausted, unpublished>>
        /\ \A v \in Workers \ {w} : work'[v] = work[v]
    BY DEF Drops, TakeToken, Ack, broker, ends, TypeOK
  <1>2. Answered(m) /\ work[w].pc = "token"
    BY DEF Drops, TakeToken, TokensAnswered
  <1>3. ASSUME NEW v \in Workers, work[v].m = m, work[v].pc \in {"lookup", "create", "retry"}
        PROVE  InHand(m)'
    BY <1>1, <1>2, <1>3 DEF InHand, SoundChannels
  <1>4. (\E n \in Numbers : waiting[m][n] > 0) => InBroker(m)'
    BY <1>1 DEF InBroker
  <1>5. QED
    BY <1>1, <1>2, <1>3, <1>4 DEF Answered, Accounted, Ended

\* Every request that was published is where it should be, or at its end.
Present == \A m \in Msgs : sent[m] > 0 => Accounted(m) \/ Ended(m)

LEMMA PresentStep ==
    ASSUME Faults \subseteq {"db", "publish", "wire"}, TypeOK, SoundChannels, TokensAnswered,
           Present, Next
    PROVE  Present'
  <1> SUFFICES ASSUME NEW m \in Msgs, sent'[m] > 0
               PROVE  Accounted(m)' \/ Ended(m)'
    BY DEF Present
  <1>1. CASE sent[m] > 0
    <2>1. Ended(m) => Ended(m)'
      BY EndsGrow DEF Ended
    <2>2. QED
      BY <1>1, <2>1, StepKeeps, DropIsDuplicate DEF Present, Kept
  <1>2. CASE ~(sent[m] > 0)
    BY <1>2, FirstPublication DEF Accounted
  <1>3. QED
    BY <1>1, <1>2

\* While processes, channels and Valkey work, no request disappears as a duplicate,
\* however often the database and the publisher fail and however many copies there
\* are: whoever drops a delivery has seen a token that somebody answers for.  What
\* remains are lost publications and MaxRetries + 1 failed inserts.
THEOREM NoRequestLost == Faults \subseteq {"db", "publish", "wire"} => (Spec => []NoneLost)
  <1> SUFFICES ASSUME Faults \subseteq {"db", "publish", "wire"}
               PROVE  Spec => []NoneLost
    OBVIOUS
  <1> DEFINE I == SoundChannels /\ TokensAnswered /\ Present
  <1>1. Init => I
    BY DEF Init, SoundChannels, TokensAnswered, Present, Idle, Delivery
  <1>2. TypeOK /\ I /\ [Next]_vars => I'
    <2>1. ASSUME TypeOK, I, Next PROVE I'
      BY <2>1, CalmStep, AnsweredStep, PresentStep
    <2>2. ASSUME I, UNCHANGED vars PROVE I'
      BY <2>2 DEF vars, broker, stores, ends, SoundChannels, TokensAnswered, Present, Answered,
         Accounted, Ended, InBroker, InHand
    <2>3. QED
      BY <2>1, <2>2
  <1>3. Spec => []Present
    BY <1>1, <1>2, QueueTypes, PTL DEF Spec
  <1>4. Present /\ NumbersPaid => NoneLost
    BY DEF Present, NumbersPaid, Paid, Ended, NoneLost, GivenUp
  <1>5. QED
    BY <1>3, <1>4, PaidInvariant, PTL
=============================================================================
