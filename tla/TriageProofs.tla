----------------------------- MODULE TriageProofs -----------------------------
(***************************************************************************)
(* For every number of alerts, flushers, investigations and faults and in  *)
(* every deployment: the types of Correlator and Triage, that no alert     *)
(* vanishes uncounted between the list, the flushes, the queues and        *)
(* triage, that what is once on record stays so or is counted as lost, and *)
(* that a flusher which still holds the lock pops what it published.       *)
(***************************************************************************)
EXTENDS Triage, SequenceTheorems, TLAPS

USE CorrelatorModes, CorrelatorBounds, CorrelatorProcs

-----------------------------------------------------------------------------
(* Sequences: what ToSet, IsPrefix and a cut at the head make of each other *)

\* An element more at the end.
LEMMA ToSetAppend ==
    ASSUME NEW S, NEW s \in Seq(S), NEW e \in S
    PROVE  ToSet(Append(s, e)) = ToSet(s) \cup {e}
  BY AppendProperties DEF ToSet

LEMMA ToSetType ==
    ASSUME NEW S, NEW s \in Seq(S)
    PROVE  ToSet(s) \subseteq S
  BY DEF ToSet

LEMMA Members ==
    ASSUME NEW S, NEW s \in Seq(S)
    PROVE  \A x : x \in ToSet(s) <=> \E i \in 1 .. Len(s) : x = s[i]
  BY LenProperties DEF ToSet

\* A sequence falls into its head and the rest.
LEMMA Cut ==
    ASSUME NEW S, NEW s \in Seq(S), NEW n \in 0 .. Len(s)
    PROVE  /\ DropFirst(s, n) \in Seq(S)
           /\ ToSet(s) = ToSet(SubSeq(s, 1, n)) \cup ToSet(DropFirst(s, n))
<1>1. /\ SubSeq(s, 1, n) \in Seq(S) /\ Len(SubSeq(s, 1, n)) = n
      /\ \A i \in 1 .. n : SubSeq(s, 1, n)[i] = s[i]
  BY SubSeqProperties
<1>2. /\ DropFirst(s, n) \in Seq(S) /\ Len(DropFirst(s, n)) = Len(s) - n
      /\ \A i \in 1 .. Len(s) - n : DropFirst(s, n)[i] = s[n + i]
  <2>1. /\ Len(s) \in Nat /\ n \in Int /\ n + 1 \in Int
        /\ \A i \in n + 1 .. Len(s) : s[i] \in S
    BY LenProperties
  <2>2. \A i \in 1 .. Len(s) - (n + 1) + 1 :
           SubSeq(s, n + 1, Len(s))[i] = s[(n + 1) + i - 1]
    BY <2>1, SubSeqProperties
  <2>3. /\ SubSeq(s, n + 1, Len(s)) \in Seq(S)
        /\ Len(SubSeq(s, n + 1, Len(s))) = Len(s) - n
    BY <2>1, SubSeqProperties
  <2>4. QED
    BY <2>1, <2>2, <2>3 DEF DropFirst
<1> DEFINE h == SubSeq(s, 1, n)
           t == DropFirst(s, n)
<1> HIDE DEF h, t
<1>3. /\ \A x : x \in ToSet(s) <=> \E i \in 1 .. Len(s) : x = s[i]
      /\ \A x : x \in ToSet(h) <=> \E i \in 1 .. n : x = s[i]
      /\ \A x : x \in ToSet(t) <=> \E i \in 1 .. Len(s) - n : x = s[n + i]
  <2>1. \A x : x \in ToSet(s) <=> \E i \in 1 .. Len(s) : x = s[i]
    BY Members
  <2>2. \A x : x \in ToSet(h) <=> \E i \in 1 .. n : x = s[i]
    <3>1. h \in Seq(S) /\ Len(h) = n /\ \A i \in 1 .. n : h[i] = s[i]
      BY <1>1 DEF h
    <3>2. QED
      BY <3>1, Members
  <2>3. \A x : x \in ToSet(t) <=> \E i \in 1 .. Len(s) - n : x = s[n + i]
    <3>1. t \in Seq(S) /\ Len(t) = Len(s) - n
          /\ \A i \in 1 .. Len(s) - n : t[i] = s[n + i]
      BY <1>2 DEF t
    <3>2. \A x : x \in ToSet(t) <=> \E i \in 1 .. Len(t) : x = t[i]
      BY <3>1, Members
    <3>3. \A i \in 1 .. Len(t) : t[i] = s[n + i]
      BY <3>1
    <3>4. QED
      BY <3>1, <3>2, <3>3, Zenon
  <2>4. QED
    BY <2>1, <2>2, <2>3
<1>4. ASSUME NEW x \in ToSet(s) PROVE x \in ToSet(h) \cup ToSet(t)
  <2>1. PICK i \in 1 .. Len(s) : x = s[i]
    BY <1>3
  <2>2. CASE i <= n
    BY <1>3, <2>1, <2>2
  <2>3. CASE i > n
    <3>1. i - n \in 1 .. Len(s) - n /\ n + (i - n) = i
      BY <2>3, LenProperties
    <3>2. QED
      BY <1>3, <2>1, <3>1
  <2>4. QED
    BY <2>2, <2>3, LenProperties
<1>5. ToSet(h) \cup ToSet(t) \subseteq ToSet(s)
  <2>1. \A i \in 1 .. Len(s) - n : n + i \in 1 .. Len(s)
    BY LenProperties
  <2>2. \A i \in 1 .. n : i \in 1 .. Len(s)
    BY LenProperties
  <2>3. QED
    BY <1>3, <2>1, <2>2
<1>6. QED
  BY <1>2, <1>4, <1>5 DEF h, t

\* The head of a list is what its prefix is.
LEMMA PrefixIsHead ==
    ASSUME NEW S, NEW b \in Seq(S), NEW s \in Seq(S), IsPrefix(b, s)
    PROVE  Len(b) <= Len(s) /\ SubSeq(s, 1, Len(b)) = b
  BY SubSeqFull DEF IsPrefix

LEMMA PrefixOfItself ==
    ASSUME NEW S, NEW s \in Seq(S)
    PROVE  IsPrefix(s, s)
  BY LenProperties DEF IsPrefix

\* What arrives later leaves the prefix alone.
LEMMA PrefixOfAppend ==
    ASSUME NEW S, NEW b \in Seq(S), NEW s \in Seq(S), NEW e \in S, IsPrefix(b, s)
    PROVE  IsPrefix(b, Append(s, e))
<1> DEFINE t == Append(s, e)
<1>1. t \in Seq(S) /\ Len(t) = Len(s) + 1 /\ \A i \in 1 .. Len(s) : t[i] = s[i]
  BY AppendProperties
<1>2. Len(b) <= Len(s) /\ SubSeq(s, 1, Len(b)) = b /\ Len(b) \in Nat
  BY PrefixIsHead, LenProperties
<1>3. \A i \in 1 .. Len(b) : b[i] = s[i]
  BY <1>2, SubSeqProperties
<1> HIDE DEF t
<1>4. /\ SubSeq(t, 1, Len(b)) \in Seq(S) /\ Len(SubSeq(t, 1, Len(b))) = Len(b)
      /\ \A i \in 1 .. Len(b) : SubSeq(t, 1, Len(b))[i] = t[i]
  BY <1>1, <1>2, SubSeqProperties
<1>5. SubSeq(t, 1, Len(b)) = b
  BY <1>1, <1>2, <1>3, <1>4, SeqEqual
<1>6. QED
  BY <1>1, <1>2, <1>5, SubSeqFull DEF IsPrefix, t

-----------------------------------------------------------------------------
(* Types *)

Places == {"new", "lookup", "append", "buffer", "done", "refused",
           "idle", "peek", "recheck", "relook", "merge", "gate", "gmerge",
           "publish", "cool", "pop", "unlock"}
Work == [id : Ids, alerts : SUBSET Alerts]
Stages == {"idle", "process", "investigate", "decide", "retry", "fallback", "ack"}

\* The parts of TypeOK, and that the triage worker, when it is at work, has a
\* message.
KeyType ==
    /\ mode \in Modes
    /\ list \in Seq(Alerts)
    /\ lock \in Flushers \cup {None}
    /\ cooldown \in 0 .. MaxInvs

ProcType ==
    /\ pc \in [Procs -> Places]
    /\ batch \in [Flushers -> Seq(Alerts)]
    /\ id \in [Procs -> 0 .. MaxInvs]

RowType ==
    /\ row \in [Ids -> {"none", "open", "done"}]
    /\ members \in [Ids -> SUBSET Alerts]
    /\ ids \in 0 .. MaxInvs

BrokerType ==
    /\ tq \subseteq Messages
    /\ wq \subseteq Work
    /\ tjob \in [msg : Messages \cup {NoMsg}, todo : SUBSET Alerts, pc : Stages]
    /\ tjob = NoJob \/ (tjob.msg \in Messages /\ tjob.pc # "idle")
    /\ settled \subseteq Alerts

HistoryType == lost \subseteq Alerts /\ torn \subseteq Flushers

Types == KeyType /\ ProcType /\ RowType /\ BrokerType /\ HistoryType

LEMMA TypesImply == Types => TypeOK
  BY DEF Types, TypeOK, KeyType, ProcType, RowType, BrokerType, HistoryType, Places,
         Work, Stages

LEMMA InitTypes == Init => Types
<1> SUFFICES ASSUME Init PROVE Types
  OBVIOUS
<1>1. KeyType /\ ProcType
  BY EmptySeq DEF Init, KeyType, ProcType, Procs, Places
<1>2. RowType /\ BrokerType /\ HistoryType
  BY DEF Init, RowType, BrokerType, HistoryType, NoJob, NoMsg, Stages
<1>3. QED
  BY <1>1, <1>2 DEF Types

\* What a flush hands over is alerts.
LEMMA TakenType ==
    ASSUME ProcType, NEW p \in Procs
    PROVE  Taken(p) \subseteq Alerts
  BY ToSetType DEF ProcType, Procs, Taken

\* A handler or flusher goes on to the next place, with an id it read or made.
Moves(p) == \E l \in Places, i \in 0 .. MaxInvs : With(p, l, i)

LEMMA MoveType ==
    ASSUME ProcType, NEW p \in Procs, Moves(p), UNCHANGED batch
    PROVE  ProcType'
  BY DEF ProcType, Moves, With

LEMMA AlertMoves ==
    ASSUME KeyType, ProcType, NEW a \in Alerts, ProcessAlert(a)
    PROVE  Moves(a)
<1>1. 0 \in 0 .. MaxInvs /\ id[a] \in 0 .. MaxInvs
  BY DEF ProcType, Procs
<1>2. CASE ProcessSuppressed(a) \/ ProcessCheck(a)
  <2>1. Onward \in Places
    BY DEF Onward, Places
  <2>2. QED
    BY <1>1, <1>2, <2>1 DEF ProcessSuppressed, ProcessCheck, Moves, Go, Places, KeyType
<1>3. CASE AppendLookup(a)
  <2>1. Onward \in Places
    BY DEF Onward, Places
  <2>2. QED
    BY <1>1, <1>3, <2>1 DEF AppendLookup, Moves, Go, Places
<1>4. CASE AppendAlert(a) \/ BufferAlert(a) \/ BufferError(a)
  BY <1>1, <1>4 DEF AppendAlert, BufferAlert, BufferError, Moves, Go, Places
<1>5. QED
  BY <1>2, <1>3, <1>4 DEF ProcessAlert

LEMMA FlushMoves ==
    ASSUME Types, NEW p \in Procs, flushInvestigation(p)
    PROVE  Moves(p)
<1> USE DEF Types
<1>1. 0 \in 0 .. MaxInvs /\ id[p] \in 0 .. MaxInvs /\ Ids \subseteq 0 .. MaxInvs
  BY DEF ProcType, Ids
<1>2. CASE Recheck(p)
  BY <1>1, <1>2 DEF Recheck, Moves, Go, Places, KeyType
<1>3. CASE Relook(p)
  BY <1>1, <1>3 DEF Relook, Moves, Go, Places
<1>4. CASE MergeCooldown(p) \/ SetCooldown(p)
  BY <1>1, <1>4 DEF MergeCooldown, SetCooldown, Finish, Moves, Go, Places
<1>5. CASE Gate(p) \/ MergeActive(p)
  BY <1>1, <1>5 DEF Gate, MergeActive, Moves, Go, Places
<1>6. CASE Publish(p)
  <2>1. ids + 1 \in 0 .. MaxInvs
    BY <1>6 DEF Publish, RowType
  <2>2. QED
    BY <1>6, <2>1 DEF Publish, Moves, Places
<1>7. CASE PublishError(p)
  BY <1>1, <1>7 DEF PublishError, FlushFails, Moves, Go, Places
<1>8. QED
  BY <1>2, <1>3, <1>4, <1>5, <1>6, <1>7 DEF flushInvestigation

LEMMA AlertTypes ==
    ASSUME Types, NEW a \in Alerts, ProcessAlert(a), UNCHANGED mode
    PROVE  Types'
<1>1. KeyType'
  <2>1. CASE BufferAlert(a)
    BY <2>1, AppendProperties DEF BufferAlert, Types, KeyType
  <2>2. QED
    BY <2>1 DEF ProcessAlert, ProcessSuppressed, ProcessCheck, AppendLookup, AppendAlert,
         BufferError, Types, KeyType, valkey
<1>2. ProcType'
  <2>1. UNCHANGED batch
    BY DEF ProcessAlert, ProcessSuppressed, ProcessCheck, AppendLookup, AppendAlert,
           BufferAlert, BufferError
  <2>2. QED
    BY <2>1, AlertMoves, MoveType DEF Types, Procs
<1>3. RowType'
  BY DEF ProcessAlert, ProcessSuppressed, ProcessCheck, AppendLookup, AppendAlert,
         BufferAlert, BufferError, Types, RowType, rows
<1>4. BrokerType' /\ HistoryType'
  BY DEF ProcessAlert, ProcessSuppressed, ProcessCheck, AppendLookup, AppendAlert,
         BufferAlert, BufferError, Types, BrokerType, HistoryType, broker, history
<1>5. QED
  BY <1>1, <1>2, <1>3, <1>4 DEF Types

LEMMA FlushTypes ==
    ASSUME Types, NEW p \in Procs, flushInvestigation(p), UNCHANGED mode
    PROVE  Types'
<1>1. Taken(p) \subseteq Alerts
  BY TakenType DEF Types
<1>2. KeyType'
  BY DEF flushInvestigation, Recheck, Relook, MergeCooldown, Gate, MergeActive, Publish,
         PublishError, SetCooldown, Types, KeyType, ProcType, valkey
<1>3. ProcType'
  <2>1. UNCHANGED batch
    BY DEF flushInvestigation, Recheck, Relook, MergeCooldown, Gate, MergeActive, Publish,
           PublishError, SetCooldown
  <2>2. QED
    BY <2>1, FlushMoves, MoveType DEF Types
<1>4. RowType'
  BY <1>1 DEF flushInvestigation, Recheck, Relook, MergeCooldown, Gate, MergeActive, Publish,
         PublishError, SetCooldown, Types, RowType, rows
<1>5. BrokerType'
  <2>1. CASE Publish(p)
    <3>1. ids + 1 \in Ids /\ 0 \in 0 .. MaxTriageRetries
      BY <2>1 DEF Publish, Types, RowType, Ids
    <3>2. /\ [id |-> ids + 1, alerts |-> Taken(p), n |-> 0] \in Messages
          /\ [id |-> ids + 1, alerts |-> Taken(p)] \in Work
      BY <1>1, <3>1 DEF Messages, Work
    <3>3. QED
      BY <2>1, <3>2 DEF Publish, Send, Types, BrokerType
  <2>2. QED
    BY <2>1 DEF flushInvestigation, Recheck, Relook, MergeCooldown, Gate, MergeActive,
         PublishError, SetCooldown, Types, BrokerType, broker
<1>6. HistoryType'
  BY <1>1 DEF flushInvestigation, Recheck, Relook, MergeCooldown, Gate, MergeActive, Publish,
         Send, PublishError, SetCooldown, Types, HistoryType, history
<1>7. QED
  BY <1>2, <1>3, <1>4, <1>5, <1>6 DEF Types

\* How much a pop takes off the list.
LEMMA PopTakes ==
    ASSUME Types, NEW f \in Flushers
    PROVE  Least(Len(batch[f]), Len(list)) \in 0 .. Len(list)
  BY LenProperties DEF Types, KeyType, ProcType, Least

LEMMA KeyTypes ==
    ASSUME Types, NEW f \in Flushers, flushKey(f) \/ Crash(f), UNCHANGED mode
    PROVE  Types'
<1> USE DEF Types
<1>1. <<>> \in Seq(Alerts)
  BY EmptySeq
<1>2. KeyType'
  <2>1. CASE Pop(f)
    BY <2>1, PopTakes, Cut DEF Pop, KeyType
  <2>2. QED
    BY <2>1 DEF flushKey, Crash, Flush, Acquire, Peek, PopError, Release, KeyType, valkey
<1>3. ProcType'
  <2>1. f \in Procs /\ 0 \in 0 .. MaxInvs
    BY DEF Procs
  <2>2. /\ batch' \in [Flushers -> Seq(Alerts)]
        /\ UNCHANGED <<pc, id>> \/ \E l \in Places : With(f, l, 0)
    <3>1. \/ batch' = batch
          \/ batch' = [batch EXCEPT ![f] = <<>>]
          \/ batch' = [batch EXCEPT ![f] = list]
      BY DEF flushKey, Crash, Flush, Peek, Pop, PopError, Release
    <3>2. \/ UNCHANGED <<pc, id>>
          \/ \E l \in {"peek", "recheck", "unlock", "idle"} : Go(f, l)
      BY DEF flushKey, Crash, Flush, Acquire, Peek, Pop, PopError, Release
    <3>3. batch \in [Flushers -> Seq(Alerts)] /\ list \in Seq(Alerts)
      BY DEF ProcType, KeyType
    <3>4. batch' \in [Flushers -> Seq(Alerts)]
      BY <1>1, <3>1, <3>3
    <3>5. {"peek", "recheck", "unlock", "idle"} \subseteq Places
      BY DEF Places
    <3>6. QED
      BY <3>2, <3>4, <3>5 DEF Go
  <2>3. CASE UNCHANGED <<pc, id>>
    BY <2>2, <2>3 DEF ProcType
  <2>4. ASSUME NEW l \in Places, With(f, l, 0)
        PROVE  ProcType'
    <3>1. pc' \in [Procs -> Places]
      BY <2>1, <2>4 DEF ProcType, With
    <3>2. id' \in [Procs -> 0 .. MaxInvs]
      BY <2>1, <2>4 DEF ProcType, With
    <3>3. QED
      BY <2>2, <3>1, <3>2 DEF ProcType
  <2>5. QED
    BY <2>2, <2>3, <2>4
<1>4. RowType' /\ BrokerType'
  BY DEF flushKey, Crash, Flush, Peek, Pop, PopError, Release, RowType, BrokerType, rows,
         broker
<1>5. HistoryType'
  <2>1. CASE Pop(f)
    <3> DEFINE n == Least(Len(batch[f]), Len(list))
    <3>1. ToSet(SubSeq(list, 1, n)) \subseteq Alerts
      BY PopTakes, Cut, ToSetType DEF KeyType
    <3>2. QED
      BY <2>1, <3>1 DEF Pop, HistoryType, history, Flushing
  <2>2. QED
    BY <2>1 DEF flushKey, Crash, Flush, Peek, PopError, Release, HistoryType, history,
                Flushing
<1>6. QED
  BY <1>2, <1>3, <1>4, <1>5

LEMMA OutsideTypes ==
    ASSUME Types, UNCHANGED mode,
           \/ ListExpires \/ CooldownExpires \/ LockExpires \/ RemoveCooldown
           \/ \E m \in wq : InvestigationCreated(m)
           \/ \E i \in Ids : InvestigationEnds(i)
    PROVE  Types'
<1> USE DEF Types
<1>1. <<>> \in Seq(Alerts) /\ 0 \in 0 .. MaxInvs
  BY EmptySeq
<1>2. KeyType'
  BY <1>1 DEF ListExpires, CooldownExpires, LockExpires, RemoveCooldown,
         InvestigationCreated, InvestigationEnds, KeyType, valkey
<1>3. ProcType'
  BY DEF ListExpires, CooldownExpires, LockExpires, RemoveCooldown,
         InvestigationCreated, InvestigationEnds, ProcType, proc
<1>4. RowType'
  BY DEF ListExpires, CooldownExpires, LockExpires, RemoveCooldown,
         InvestigationCreated, InvestigationEnds, RowType, rows, BrokerType, Work
<1>5. BrokerType'
  BY DEF ListExpires, CooldownExpires, LockExpires, RemoveCooldown,
         InvestigationCreated, InvestigationEnds, BrokerType, broker
<1>6. HistoryType'
  <2>1. ToSet(list) \subseteq Alerts
    BY ToSetType DEF KeyType
  <2>2. QED
    BY <2>1 DEF ListExpires, CooldownExpires, LockExpires, RemoveCooldown,
         InvestigationCreated, InvestigationEnds, HistoryType, history, Flushing
<1>7. QED
  BY <1>2, <1>3, <1>4, <1>5, <1>6

LEMMA TriageTypes ==
    ASSUME Types, TriageNext, UNCHANGED mode
    PROVE  Types'
<1> USE DEF Types
<1>1. UNCHANGED kept
  BY DEF TriageNext, Handle, Process, HandleInvestigate, HandleDecision, HandleRetry,
         DeadLetter, Fallback, Ack, TriageCrash
<1>2. KeyType' /\ ProcType' /\ RowType' /\ UNCHANGED torn
  BY <1>1 DEF kept, valkey, proc, rows, KeyType, ProcType, RowType
<1>3. /\ \A m \in Messages : m.alerts \subseteq Alerts
      /\ \A m \in Messages : [id |-> m.id, alerts |-> m.alerts] \in Work
      /\ \A m \in Messages : m.n + 1 <= MaxTriageRetries =>
                              [m EXCEPT !.n = @ + 1] \in Messages
  BY DEF Messages, Work
<1>4. BrokerType'
  <2>1. ASSUME NEW m \in tq, Handle(m) PROVE BrokerType'
    BY <1>3, <2>1 DEF Handle, BrokerType, NoJob, Stages
  <2>2. CASE Process \/ Ack
    BY <2>2 DEF Process, Ack, BrokerType, NoJob, Stages
  <2>3. CASE HandleInvestigate \/ Fallback
    BY <1>3, <2>3 DEF HandleInvestigate, Fallback, Send, Investigate, BrokerType, NoJob, Stages
  <2>4. CASE HandleDecision
    BY <2>4 DEF HandleDecision, BrokerType, NoJob, Stages
  <2>5. CASE HandleRetry
    BY <1>3, <2>5 DEF HandleRetry, Send, Redeliver, BrokerType, NoJob, Stages
  <2>6. CASE DeadLetter
    BY <1>3, <2>6 DEF DeadLetter, BrokerType, NoJob, Stages
  <2>7. CASE TriageCrash
    BY <2>7 DEF TriageCrash, Redeliver, BrokerType, NoJob, Stages
  <2>8. QED
    BY <2>1, <2>2, <2>3, <2>4, <2>5, <2>6, <2>7 DEF TriageNext
<1>5. HistoryType'
  <2>1. /\ tjob.msg.alerts \subseteq Alerts
        /\ [tjob.msg EXCEPT !.n = @ + 1].alerts = tjob.msg.alerts
        /\ Investigate.alerts = tjob.msg.alerts
    BY DEF Investigate, BrokerType, Messages, NoMsg
  <2>2. lost' \subseteq lost \cup tjob.msg.alerts
    BY <2>1 DEF TriageNext, Handle, Process, HandleInvestigate, HandleDecision, HandleRetry,
       Send, DeadLetter, Fallback, Ack, TriageCrash
  <2>3. QED
    BY <1>2, <2>1, <2>2 DEF HistoryType
<1>6. QED
  BY <1>2, <1>4, <1>5

LEMMA NextTypes == Types /\ [Next]_vars => Types'
<1> SUFFICES ASSUME Types, [Next]_vars PROVE Types'
  OBVIOUS
<1>1. CASE UNCHANGED vars
  BY <1>1 DEF vars, valkey, proc, rows, broker, history, Types, KeyType, ProcType, RowType,
              BrokerType, HistoryType
<1>2. CASE Next
  BY <1>2, AlertTypes, FlushTypes, KeyTypes, OutsideTypes, TriageTypes
     DEF Next, CorrelatorNext
<1>3. QED
  BY <1>1, <1>2

-----------------------------------------------------------------------------
(* The inductive invariant *)

\* Somebody else than the triage worker at work has the alert.
Written(a) ==
    \/ \E m \in tq \cup wq : a \in m.alerts
    \/ \E i \in Ids : a \in members[i]
    \/ a \in settled

\* The investigations that are asked for, by a message waiting or at work.
Request(m) == [id |-> m.id, alerts |-> m.alerts]
Asked == {Request(m) : m \in tq \cup wq \cup {tjob.msg, NoMsg}}

\* A row that does not exist has no alerts; the ids of rows were handed out.
RowPart == \A i \in Ids : IF row[i] = "none" THEN members[i] = {} ELSE i <= ids

\* What asks for the investigation of a row asks for alerts the row has, so the
\* worker may drop it; what asks for one investigation names the same alerts.
AskedPart ==
    /\ \A r \in Asked : /\ r.id \in 0 .. ids
                        /\ r.id \in Ids /\ row[r.id] # "none" =>
                              r.alerts \subseteq members[r.id]
    /\ \A q, r \in Asked : q.id = r.id => q.alerts = r.alerts

\* At each stage the triage worker has answered for the alerts it is done with;
\* what it passed on may be lost on the wire.
JobPart ==
    /\ tjob.pc \in {"process", "decide"} => tjob.msg.alerts \ tjob.todo \subseteq settled
    /\ tjob.pc = "ack" => \A a \in tjob.msg.alerts : Written(a) \/ a \in lost

\* Whoever appends to an investigation has seen its row.
IdPart ==
    \A p \in Procs :
       /\ pc[p] \in {"lookup", "relook"} => id[p] \in Ids
       /\ pc[p] \in {"append", "merge", "gmerge"} => id[p] \in Ids /\ row[id[p]] # "none"

\* What is flushed is on record, or was lost, before it is popped.
TakenPart ==
    \A p \in Procs :
       /\ pc[p] = "cool" => \A a \in Taken(p) : Carried(a) \/ a \in lost
       /\ pc[p] = "pop" => /\ p \in Flushers
                          /\ \A a \in Taken(p) : Carried(a) \/ a \in lost

\* A flusher under which nothing went away owns the lock and the head of the list.
Busy == {"recheck", "relook", "merge", "gate", "gmerge", "publish", "cool", "pop"}

LockPart ==
    \A f \in Flushers \ torn :
       /\ pc[f] # "idle" => lock = f
       /\ pc[f] \in Busy => IsPrefix(batch[f], list)

Parts == RowPart /\ AskedPart /\ JobPart /\ IdPart /\ TakenPart /\ LockPart

IInv == Types /\ Parts /\ NothingVanishes

LEMMA InitIInv == Init => IInv
<1> SUFFICES ASSUME Init PROVE IInv
  OBVIOUS
<1>1. Asked = {Request(NoMsg)}
  BY DEF Init, Asked, NoJob
<1>2. RowPart /\ AskedPart /\ JobPart
  BY <1>1 DEF Init, RowPart, AskedPart, Request, JobPart, NoJob, NoMsg, Ids
<1>3. IdPart /\ TakenPart /\ LockPart /\ NothingVanishes
  BY DEF Init, IdPart, TakenPart, LockPart, NothingVanishes, Busy, Procs
<1>4. QED
  BY <1>2, <1>3, InitTypes DEF IInv, Parts

-----------------------------------------------------------------------------
(* What is on record stays on record *)

\* Rows gain alerts and histories grow; a message that leaves the investigate
\* queue has its alerts in its row.
Growth ==
    /\ \A i \in Ids : members[i] \subseteq members'[i] /\ (row[i] # "none" => row'[i] # "none")
    /\ tq \subseteq tq' /\ settled \subseteq settled' /\ lost \subseteq lost' /\ ids <= ids'
    /\ \A m \in wq : m \in wq' \/ (m.id \in Ids /\ m.alerts \subseteq members'[m.id])

LEMMA NothingNew ==
    ASSUME Types, UNCHANGED <<rows, tq, wq, settled, ids>>, lost \subseteq lost'
    PROVE  Growth
  BY DEF Growth, Types, RowType, rows

LEMMA MembersGrow ==
    ASSUME Types, NEW i \in Ids, NEW A,
           members' = [members EXCEPT ![i] = @ \cup A],
           UNCHANGED <<row, tq, wq, settled, ids, lost>>
    PROVE  Growth
  BY DEF Growth, Types, RowType

LEMMA CreatedGrows ==
    ASSUME Types, RowPart, AskedPart, NEW m \in wq, InvestigationCreated(m)
    PROVE  Growth
<1>1. m.id \in Ids
  BY DEF Types, BrokerType, Work
<1>2. /\ wq' = wq \ {m}
      /\ UNCHANGED <<tq, settled, ids, lost>>
  BY DEF InvestigationCreated, history
<1>3. CASE row[m.id] = "none"
  <2>1. /\ row' = [row EXCEPT ![m.id] = "open"]
        /\ members' = [members EXCEPT ![m.id] = m.alerts]
    BY <1>3 DEF InvestigationCreated
  <2>2. members[m.id] = {}
    BY <1>1, <1>3 DEF RowPart
  <2>3. \A i \in Ids : members[i] \subseteq members'[i] /\ (row[i] # "none" => row'[i] # "none")
    BY <1>1, <2>1, <2>2 DEF Types, RowType
  <2>4. m.alerts \subseteq members'[m.id]
    BY <1>1, <2>1 DEF Types, RowType
  <2>5. QED
    BY <1>1, <1>2, <2>3, <2>4 DEF Growth, Types, RowType
<1>4. CASE row[m.id] # "none"
  <2>1. UNCHANGED rows
    BY <1>4 DEF InvestigationCreated
  <2>2. Request(m) \in Asked
    BY DEF Asked
  <2>3. m.alerts \subseteq members[m.id]
    BY <1>1, <1>4, <2>2 DEF AskedPart, Request
  <2>4. QED
    BY <1>1, <1>2, <2>1, <2>3 DEF Growth, Types, RowType, rows
<1>5. QED
  BY <1>3, <1>4

LEMMA CorrelatorGrows ==
    ASSUME Types, RowPart, AskedPart, IdPart, CorrelatorNext
    PROVE  Growth
<1>1. ASSUME NEW a \in Alerts, ProcessAlert(a) PROVE Growth
  <2>1. CASE AppendAlert(a)
    <3>1. id[a] \in Ids
      BY <2>1 DEF AppendAlert, IdPart, Procs
    <3>2. UNCHANGED <<row, tq, wq, settled, ids, lost>>
      BY <2>1 DEF AppendAlert, broker, history
    <3>3. \/ members' = [members EXCEPT ![id[a]] = @ \cup {a}]
          \/ UNCHANGED members
      BY <2>1 DEF AppendAlert
    <3>4. QED
      BY <3>1, <3>2, <3>3, MembersGrow, NothingNew DEF rows
  <2>2. CASE ~AppendAlert(a)
    BY <1>1, <2>2, NothingNew DEF ProcessAlert, ProcessSuppressed, ProcessCheck,
       AppendLookup, BufferAlert, BufferError, broker, history
  <2>3. QED
    BY <2>1, <2>2
<1>2. ASSUME NEW p \in Procs, flushInvestigation(p) PROVE Growth
  <2>1. CASE MergeCooldown(p) \/ MergeActive(p)
    <3>1. id[p] \in Ids
      BY <2>1 DEF MergeCooldown, MergeActive, IdPart
    <3>2. UNCHANGED <<row, tq, wq, settled, ids>>
      BY <2>1 DEF MergeCooldown, MergeActive, broker
    <3>3. \/ members' = [members EXCEPT ![id[p]] = @ \cup Taken(p)] /\ UNCHANGED lost
          \/ UNCHANGED members /\ lost \subseteq lost'
      BY <2>1 DEF MergeCooldown, MergeActive, history
    <3>4. QED
      BY <3>1, <3>2, <3>3, MembersGrow, NothingNew DEF rows
  <2>2. CASE Publish(p)
    BY <2>2 DEF Publish, Send, Growth, Types, RowType, rows, history
  <2>3. CASE ~(MergeCooldown(p) \/ MergeActive(p) \/ Publish(p))
    BY <1>2, <2>3, NothingNew DEF flushInvestigation, Recheck, Relook, Gate, PublishError,
       SetCooldown, broker, history
  <2>4. QED
    BY <2>1, <2>2, <2>3
<1>3. ASSUME NEW f \in Flushers, flushKey(f) \/ Crash(f) PROVE Growth
  BY <1>3, NothingNew DEF flushKey, Crash, Flush, Peek, Pop, PopError, Release, broker,
     history
<1>4. CASE ListExpires \/ CooldownExpires \/ LockExpires \/ RemoveCooldown
  BY <1>4, NothingNew DEF ListExpires, CooldownExpires, LockExpires, RemoveCooldown,
     broker, history
<1>5. ASSUME NEW i \in Ids, InvestigationEnds(i) PROVE Growth
  BY <1>5 DEF InvestigationEnds, Growth, Types, RowType, broker, history
<1>6. QED
  BY <1>1, <1>2, <1>3, <1>4, <1>5, CreatedGrows DEF CorrelatorNext

LEMMA WrittenStays ==
    ASSUME Types, Growth
    PROVE  \A a : Written(a) => Written(a)'
  BY DEF Growth, Written, Types, RowType

\* The triage worker passes on what it takes, has it decided, or it is lost.
LEMMA TriageKeeps ==
    ASSUME Types, JobPart, TriageNext
    PROVE  \A a : Carried(a) => Carried(a)' \/ a \in lost'
<1> SUFFICES ASSUME NEW a, Carried(a) PROVE Carried(a)' \/ a \in lost'
  OBVIOUS
<1>1. UNCHANGED members
  BY DEF TriageNext, Handle, Process, HandleInvestigate, HandleDecision, HandleRetry,
         DeadLetter, Fallback, Ack, TriageCrash, kept, rows
<1>2. ASSUME NEW m \in tq, Handle(m) PROVE Carried(a)'
  <2>1. tq' = tq \ {m} /\ UNCHANGED wq /\ settled \subseteq settled' /\ tjob.msg = NoMsg
    BY <1>2 DEF Handle, NoJob
  <2>2. m.alerts \subseteq tjob'.msg.alerts \/ m.alerts \subseteq settled'
    BY <1>2 DEF Handle
  <2>3. QED
    BY <1>1, <2>1, <2>2 DEF Carried, NoMsg
<1>3. CASE Process \/ HandleInvestigate \/ HandleDecision \/ HandleRetry \/ DeadLetter
  <2>1. tq \subseteq tq' /\ wq \subseteq wq' /\ settled \subseteq settled'
    BY <1>3 DEF Process, HandleInvestigate, HandleDecision, HandleRetry, Send, Redeliver,
       DeadLetter
  <2>2. tjob'.msg = tjob.msg \/ tjob.msg \in tq'
    BY <1>3 DEF Process, HandleInvestigate, HandleDecision, HandleRetry, Redeliver, DeadLetter,
               Types, BrokerType
  <2>3. QED
    BY <1>1, <2>1, <2>2 DEF Carried
<1>4. CASE Ack
  <2>1. UNCHANGED <<tq, wq, settled, lost>> /\ tjob.pc = "ack"
    BY <1>4 DEF Ack
  <2>2. Written(a) \/ a \in lost
    BY <2>1 DEF Carried, Written, JobPart
  <2>3. QED
    BY <1>1, <2>1, <2>2 DEF Carried, Written
<1>5. CASE Fallback
  <2>1. tq \subseteq tq' /\ wq \subseteq wq' /\ settled \subseteq settled'
    BY <1>5 DEF Fallback, Send
  <2>2. tjob.msg.alerts \subseteq lost' \/ Investigate \in wq'
    BY <1>5 DEF Fallback, Send, Investigate
  <2>3. Investigate.alerts = tjob.msg.alerts
    BY DEF Investigate
  <2>4. QED
    BY <1>1, <2>1, <2>2, <2>3 DEF Carried
<1>6. CASE TriageCrash
  <2>1. tq \subseteq tq' /\ UNCHANGED <<wq, settled>>
    BY <1>6 DEF TriageCrash, Redeliver
  <2>2. tjob.msg \in tq' \/ tjob.msg.alerts \subseteq lost'
    BY <1>6 DEF TriageCrash, Redeliver
  <2>3. QED
    BY <1>1, <2>1, <2>2 DEF Carried
<1>7. QED
  BY <1>2, <1>3, <1>4, <1>5, <1>6 DEF TriageNext

LEMMA CarriedStep ==
    ASSUME Types, RowPart, AskedPart, IdPart, JobPart, [Next]_vars
    PROVE  \A a : Carried(a) => Carried(a)' \/ a \in lost'
<1>1. CASE CorrelatorNext
  <2>1. \A a : Written(a) => Written(a)'
    BY <1>1, CorrelatorGrows, WrittenStays
  <2>2. UNCHANGED tjob
    BY <1>1 DEF CorrelatorNext, ProcessAlert, ProcessSuppressed, ProcessCheck, AppendLookup,
       AppendAlert, BufferAlert, BufferError, flushInvestigation, Recheck, Relook,
       MergeCooldown, Gate, MergeActive, Publish, PublishError, SetCooldown, flushKey, Flush,
       Peek, Pop, PopError, Release, Crash, ListExpires, CooldownExpires, LockExpires,
       RemoveCooldown, InvestigationCreated, InvestigationEnds, broker
  <2>3. QED
    BY <2>1, <2>2 DEF Carried, Written
<1>2. CASE TriageNext
  BY <1>2, TriageKeeps
<1>3. CASE UNCHANGED vars
  BY <1>3 DEF vars, broker, rows, Carried
<1>4. QED
  BY <1>1, <1>2, <1>3 DEF Next

LEMMA LostGrows ==
    ASSUME Types, RowPart, AskedPart, IdPart, [Next]_vars
    PROVE  lost \subseteq lost' /\ \A i \in Ids : row[i] # "none" => row'[i] # "none"
<1>1. CASE CorrelatorNext
  BY <1>1, CorrelatorGrows DEF Growth
<1>2. CASE TriageNext
  BY <1>2 DEF TriageNext, Handle, Process, HandleInvestigate, HandleDecision, HandleRetry,
         Send, DeadLetter, Fallback, Ack, TriageCrash, kept, rows
<1>3. CASE UNCHANGED vars
  BY <1>3 DEF vars, history, rows
<1>4. QED
  BY <1>1, <1>2, <1>3 DEF Next

-----------------------------------------------------------------------------
(* Rows and messages *)

LEMMA RowStep ==
    ASSUME Types, RowPart, AskedPart, IdPart, [Next]_vars
    PROVE  RowPart'
<1> USE DEF Types, RowType
<1>1. ASSUME NEW a \in Alerts, ProcessAlert(a) PROVE RowPart'
  BY <1>1 DEF ProcessAlert, ProcessSuppressed, ProcessCheck, AppendLookup, AppendAlert,
     BufferAlert, BufferError, rows, RowPart, IdPart, Procs
<1>2. ASSUME NEW p \in Procs, flushInvestigation(p) PROVE RowPart'
  <2>1. CASE MergeCooldown(p) \/ MergeActive(p)
    <3>1. id[p] \in Ids /\ row[id[p]] # "none"
      BY <2>1 DEF MergeCooldown, MergeActive, IdPart
    <3>2. UNCHANGED <<row, ids>>
      BY <2>1 DEF MergeCooldown, MergeActive
    <3>3. members' = [members EXCEPT ![id[p]] = @ \cup Taken(p)] \/ UNCHANGED members
      BY <2>1 DEF MergeCooldown, MergeActive
    <3>4. QED
      BY <3>1, <3>2, <3>3 DEF RowPart
  <2>2. CASE Publish(p)
    BY <2>2 DEF Publish, rows, RowPart, Ids
  <2>3. CASE ~(MergeCooldown(p) \/ MergeActive(p) \/ Publish(p))
    BY <1>2, <2>3 DEF flushInvestigation, Recheck, Relook, Gate, PublishError, SetCooldown,
       rows, RowPart
  <2>4. QED
    BY <2>1, <2>2, <2>3
<1>3. ASSUME NEW m \in wq, InvestigationCreated(m) PROVE RowPart'
  <2>1. Request(m) \in Asked /\ m.id \in Ids
    BY DEF Asked, BrokerType, Work
  <2>2. m.id <= ids
    BY <2>1 DEF AskedPart, Request
  <2>3. QED
    BY <1>3, <2>1, <2>2 DEF InvestigationCreated, rows, RowPart
<1>4. ASSUME NEW i \in Ids, InvestigationEnds(i) PROVE RowPart'
  BY <1>4 DEF InvestigationEnds, RowPart
<1>5. ASSUME NEW f \in Flushers, flushKey(f) \/ Crash(f) PROVE RowPart'
  BY <1>5 DEF flushKey, Crash, Flush, Peek, Pop, PopError, Release, rows, RowPart
<1>6. CASE ListExpires \/ CooldownExpires \/ LockExpires \/ RemoveCooldown
  BY <1>6 DEF ListExpires, CooldownExpires, LockExpires, RemoveCooldown, rows, RowPart
<1>7. CASE TriageNext
  BY <1>7 DEF TriageNext, Handle, Process, HandleInvestigate, HandleDecision, HandleRetry,
     DeadLetter, Fallback, Ack, TriageCrash, kept, rows, RowPart
<1>8. CASE UNCHANGED vars
  BY <1>8 DEF vars, rows, RowPart
<1>9. QED
  BY <1>1, <1>2, <1>3, <1>4, <1>5, <1>6, <1>7, <1>8 DEF Next, CorrelatorNext

\* Only a publication asks for an investigation nobody asked for, under a new id.
LEMMA NewlyAsked ==
    ASSUME Types, [Next]_vars
    PROVE  \/ Asked' \subseteq Asked
           \/ \E A : /\ Asked' \subseteq Asked \cup {[id |-> ids + 1, alerts |-> A]}
                    /\ ids' = ids + 1 /\ UNCHANGED rows
<1>1. CASE TriageNext
  <2>1. Request([tjob.msg EXCEPT !.n = @ + 1]) = Request(tjob.msg)
    BY DEF Request, Types, BrokerType, Messages, NoMsg
  <2>2. Request([id |-> tjob.msg.id, alerts |-> tjob.msg.alerts]) = Request(tjob.msg)
    BY DEF Request
  <2>3. tq' \subseteq tq \cup {tjob.msg, [tjob.msg EXCEPT !.n = @ + 1]}
    BY <1>1 DEF TriageNext, Handle, Process, HandleInvestigate, HandleDecision, HandleRetry,
       Send, DeadLetter, Fallback, Ack, TriageCrash, Redeliver
  <2>4. wq' \subseteq wq \cup {[id |-> tjob.msg.id, alerts |-> tjob.msg.alerts]}
    BY <1>1 DEF TriageNext, Handle, Process, HandleInvestigate, HandleDecision, HandleRetry,
       Send, Investigate, DeadLetter, Fallback, Ack, TriageCrash, Redeliver
  <2>5. tjob'.msg \in tq \cup {tjob.msg, NoMsg}
    BY <1>1 DEF TriageNext, Handle, Process, HandleInvestigate, HandleDecision, HandleRetry,
       DeadLetter, Fallback, Ack, TriageCrash, Redeliver, NoJob, Types, BrokerType
  <2>6. ASSUME NEW m \in tq' \cup wq' \cup {tjob'.msg, NoMsg} PROVE Request(m) \in Asked
    <3>1. \A n \in tq \cup wq \cup {tjob.msg, NoMsg} : Request(n) \in Asked
      BY DEF Asked
    <3>2. CASE m \in tq \cup wq \cup {tjob.msg, NoMsg}
      BY <3>1, <3>2
    <3>3. CASE m = [tjob.msg EXCEPT !.n = @ + 1]
      BY <2>1, <3>1, <3>3
    <3>4. CASE m = [id |-> tjob.msg.id, alerts |-> tjob.msg.alerts]
      BY <2>2, <3>1, <3>4
    <3>5. QED
      BY <2>3, <2>4, <2>5, <2>6, <3>2, <3>3, <3>4
  <2>7. QED
    BY <2>6 DEF Asked, Request
<1>2. ASSUME NEW p \in Procs, Publish(p)
      PROVE  /\ Asked' \subseteq Asked \cup {[id |-> ids + 1, alerts |-> Taken(p)]}
             /\ ids' = ids + 1 /\ UNCHANGED rows
  BY <1>2 DEF Publish, Send, Asked, Request
<1>3. CASE CorrelatorNext /\ \A p \in Procs : ~Publish(p)
  <2>1. tq' \subseteq tq /\ wq' \subseteq wq /\ UNCHANGED tjob
    BY <1>3 DEF CorrelatorNext, ProcessAlert, ProcessSuppressed, ProcessCheck, AppendLookup,
       AppendAlert, BufferAlert, BufferError, flushInvestigation, Recheck, Relook,
       MergeCooldown, Gate, MergeActive, PublishError, SetCooldown, flushKey, Flush,
       Peek, Pop, PopError, Release, Crash, ListExpires, CooldownExpires, LockExpires,
       RemoveCooldown, InvestigationCreated, InvestigationEnds, broker
  <2>2. QED
    BY <2>1 DEF Asked, Request
<1>4. CASE UNCHANGED vars
  BY <1>4 DEF vars, broker, Asked, Request
<1>5. QED
  BY <1>1, <1>2, <1>3, <1>4 DEF Next

LEMMA AskedStep ==
    ASSUME Types, RowPart, AskedPart, IdPart, [Next]_vars
    PROVE  AskedPart'
<1> USE DEF Types, RowType
<1>1. \A r \in Asked : r.id \in Int
  BY DEF AskedPart
<1>2. CASE \E A : /\ Asked' \subseteq Asked \cup {[id |-> ids + 1, alerts |-> A]}
                 /\ ids' = ids + 1 /\ UNCHANGED rows
  <2>1. PICK A : Asked' \subseteq Asked \cup {[id |-> ids + 1, alerts |-> A]}
    BY <1>2
  <2>2. ids + 1 \in Ids => row[ids + 1] = "none"
    BY DEF RowPart
  <2>3. \A r \in Asked : r.id # ids + 1
    BY DEF AskedPart
  <2>4. QED
    BY <1>1, <1>2, <2>1, <2>2, <2>3 DEF AskedPart, rows
<1>3. CASE Asked' \subseteq Asked
  <2>1. ids <= ids' /\ ids' \in Nat
    <3>1. CASE CorrelatorNext
      <4>1. Types'
        BY NextTypes
      <4>2. QED
        BY <3>1, <4>1, CorrelatorGrows DEF Growth
    <3>2. CASE TriageNext \/ UNCHANGED vars
      BY <3>2 DEF vars, TriageNext, Handle, Process, HandleInvestigate, HandleDecision,
         HandleRetry, DeadLetter, Fallback, Ack, TriageCrash, kept
    <3>3. QED
      BY <3>1, <3>2 DEF Next
  <2>2. ASSUME NEW r \in Asked, r.id \in Ids, row'[r.id] # "none"
        PROVE  r.alerts \subseteq members'[r.id]
    <3>1. CASE row[r.id] # "none"
      <4>1. r.alerts \subseteq members[r.id]
        BY <2>2, <3>1 DEF AskedPart
      <4>2. members[r.id] \subseteq members'[r.id]
        <5>1. CASE CorrelatorNext
          BY <2>2, <5>1, CorrelatorGrows DEF Growth
        <5>2. CASE TriageNext \/ UNCHANGED vars
          BY <5>2 DEF vars, rows, TriageNext, Handle, Process, HandleInvestigate,
             HandleDecision, HandleRetry, DeadLetter, Fallback, Ack, TriageCrash, kept
        <5>3. QED
          BY <5>1, <5>2 DEF Next
      <4>3. QED
        BY <4>1, <4>2
    <3>2. CASE row[r.id] = "none"
      <4>1. PICK m \in wq : InvestigationCreated(m) /\ m.id = r.id
        BY <2>2, <3>2 DEF Next, CorrelatorNext, ProcessAlert, ProcessSuppressed, ProcessCheck,
           AppendLookup, AppendAlert, BufferAlert, BufferError, flushInvestigation, Recheck,
           Relook, MergeCooldown, Gate, MergeActive, Publish, PublishError, SetCooldown,
           flushKey, Flush, Peek, Pop, PopError, Release, Crash, ListExpires,
           CooldownExpires, LockExpires, RemoveCooldown, InvestigationCreated,
           InvestigationEnds, rows, vars, TriageNext, Handle, Process, HandleInvestigate,
           HandleDecision, HandleRetry, DeadLetter, Fallback, Ack, TriageCrash, kept
      <4>2. members'[r.id] = m.alerts
        BY <2>2, <3>2, <4>1 DEF InvestigationCreated
      <4>3. Request(m) \in Asked /\ Request(m).id = r.id /\ Request(m).alerts = m.alerts
        BY <4>1 DEF Asked, Request
      <4>4. QED
        BY <4>2, <4>3 DEF AskedPart
    <3>3. QED
      BY <3>1, <3>2
  <2>3. QED
    BY <1>3, <2>1, <2>2 DEF AskedPart
<1>4. QED
  BY <1>2, <1>3, NewlyAsked

-----------------------------------------------------------------------------
(* The triage worker *)

LEMMA JobStep ==
    ASSUME Types, RowPart, AskedPart, IdPart, JobPart, [Next]_vars
    PROVE  JobPart'
<1>1. CASE CorrelatorNext
  <2>1. UNCHANGED <<tjob, settled>>
    BY <1>1 DEF CorrelatorNext, ProcessAlert, ProcessSuppressed, ProcessCheck, AppendLookup,
       AppendAlert, BufferAlert, BufferError, flushInvestigation, Recheck, Relook,
       MergeCooldown, Gate, MergeActive, Publish, PublishError, SetCooldown, flushKey, Flush,
       Peek, Pop, PopError, Release, Crash, ListExpires, CooldownExpires, LockExpires,
       RemoveCooldown, InvestigationCreated, InvestigationEnds, broker
  <2>2. (\A a : Written(a) => Written(a)') /\ lost \subseteq lost'
    BY <1>1, CorrelatorGrows, WrittenStays DEF Growth
  <2>3. QED
    BY <2>1, <2>2 DEF JobPart
<1>2. CASE TriageNext
  <2>1. ASSUME NEW m \in tq, Handle(m) PROVE JobPart'
    BY <2>1 DEF Handle, JobPart, NoJob
  <2>2. CASE Process
    BY <2>2 DEF Process, JobPart, Types, BrokerType
  <2>3. CASE HandleInvestigate
    <3>1. CASE tjob'.pc = "ack"
      <4>1. /\ Investigate \in wq' \/ Investigate.alerts \subseteq lost'
            /\ tjob'.msg = tjob.msg /\ Investigate.alerts = tjob.msg.alerts
        BY <2>3, <3>1 DEF HandleInvestigate, Send, Investigate, Types, BrokerType
      <4>2. \A a \in tjob'.msg.alerts : Written(a)' \/ a \in lost'
        BY <4>1 DEF Written
      <4>3. QED
        BY <3>1, <4>2 DEF JobPart
    <3>2. CASE tjob'.pc # "ack"
      BY <2>3, <3>2 DEF HandleInvestigate, JobPart, Types, BrokerType
    <3>3. QED
      BY <3>1, <3>2
  <2>4. CASE HandleDecision
    BY <2>4 DEF HandleDecision, JobPart, Types, BrokerType, Written
  <2>5. CASE HandleRetry
    <3>1. [tjob.msg EXCEPT !.n = @ + 1].alerts = tjob.msg.alerts
      BY DEF Types, BrokerType, Messages, NoMsg
    <3>2. CASE tjob'.pc = "ack"
      <4>1. /\ \/ [tjob.msg EXCEPT !.n = @ + 1] \in tq'
               \/ tjob.msg.alerts \subseteq lost'
            /\ tjob'.msg = tjob.msg
        BY <2>5, <3>1, <3>2 DEF HandleRetry, Send, Redeliver, NoJob, Types, BrokerType
      <4>2. \A a \in tjob'.msg.alerts : Written(a)' \/ a \in lost'
        BY <3>1, <4>1 DEF Written
      <4>3. QED
        BY <3>2, <4>2 DEF JobPart
    <3>3. CASE tjob'.pc # "ack"
      BY <2>5, <3>3 DEF HandleRetry, Redeliver, JobPart, Types, BrokerType, NoJob
    <3>4. QED
      BY <3>2, <3>3
  <2>6. CASE DeadLetter
    BY <2>6 DEF DeadLetter, JobPart, Types, BrokerType
  <2>7. CASE Fallback \/ Ack \/ TriageCrash
    BY <2>7 DEF Fallback, Ack, TriageCrash, Redeliver, JobPart, NoJob
  <2>8. QED
    BY <1>2, <2>1, <2>2, <2>3, <2>4, <2>5, <2>6, <2>7 DEF TriageNext
<1>3. CASE UNCHANGED vars
  BY <1>3 DEF vars, broker, rows, history, JobPart, Written
<1>4. QED
  BY <1>1, <1>2, <1>3 DEF Next

-----------------------------------------------------------------------------
(* Handlers and flushers *)

\* A handler or flusher that takes no step of its own stands where it was.
Stands(p) ==
    pc'[p] = pc[p] /\ id'[p] = id[p] /\ (p \in Flushers => batch'[p] = batch[p])

LEMMA OwnStep ==
    ASSUME Types, [Next]_vars, NEW p \in Procs, ~Stands(p)
    PROVE  \/ p \in Alerts /\ ProcessAlert(p)
           \/ flushInvestigation(p)
           \/ p \in Flushers /\ (flushKey(p) \/ Crash(p))
<1>1. ASSUME NEW a \in Alerts, ProcessAlert(a) PROVE p = a
  <2>1. UNCHANGED batch
    BY <1>1 DEF ProcessAlert, ProcessSuppressed, ProcessCheck, AppendLookup, AppendAlert,
           BufferAlert, BufferError
  <2>2. Moves(a)
    BY <1>1, AlertMoves DEF Types
  <2>3. QED
    BY <2>1, <2>2 DEF Moves, With, Stands, Types, ProcType
<1>2. ASSUME NEW q \in Procs, flushInvestigation(q) PROVE p = q
  <2>1. UNCHANGED batch
    BY <1>2 DEF flushInvestigation, Recheck, Relook, MergeCooldown, Gate, MergeActive, Publish,
           PublishError, SetCooldown
  <2>2. Moves(q)
    BY <1>2, FlushMoves
  <2>3. QED
    BY <2>1, <2>2 DEF Moves, With, Stands, Types, ProcType
<1>3. ASSUME NEW f \in Flushers, flushKey(f) \/ Crash(f) PROVE p = f
  BY <1>3 DEF flushKey, Crash, Flush, Acquire, Peek, Pop, PopError, Release, Go, With, proc,
     Stands, Types, ProcType
<1>4. ASSUME UNCHANGED proc PROVE FALSE
  BY <1>4 DEF proc, Stands
<1>5. CASE ListExpires \/ CooldownExpires \/ LockExpires \/ RemoveCooldown
  BY <1>4, <1>5 DEF ListExpires, CooldownExpires, LockExpires, RemoveCooldown
<1>6. ASSUME NEW m \in wq, InvestigationCreated(m) PROVE FALSE
  BY <1>4, <1>6 DEF InvestigationCreated
<1>7. ASSUME NEW i \in Ids, InvestigationEnds(i) PROVE FALSE
  BY <1>4, <1>7 DEF InvestigationEnds
<1>8. CASE TriageNext
  BY <1>4, <1>8 DEF TriageNext, Handle, Process, HandleInvestigate, HandleDecision,
     HandleRetry, DeadLetter, Fallback, Ack, TriageCrash, kept
<1>9. CASE UNCHANGED vars
  BY <1>4, <1>9 DEF vars
<1>10. QED
  BY <1>1, <1>2, <1>3, <1>5, <1>6, <1>7, <1>8, <1>9 DEF Next, CorrelatorNext

LEMMA IdStep ==
    ASSUME Types, RowPart, AskedPart, IdPart, [Next]_vars
    PROVE  IdPart'
<1> SUFFICES ASSUME NEW p \in Procs
             PROVE  /\ pc'[p] \in {"lookup", "relook"} => id'[p] \in Ids
                    /\ pc'[p] \in {"append", "merge", "gmerge"} =>
                          id'[p] \in Ids /\ row'[id'[p]] # "none"
  BY DEF IdPart
<1> USE DEF Types, KeyType, ProcType, RowType
<1>1. \A i \in Ids : row[i] # "none" => row'[i] # "none"
  BY LostGrows
<1>2. CASE Stands(p)
  BY <1>1, <1>2 DEF Stands, IdPart
<1>3. cooldown # 0 => cooldown \in Ids
  BY DEF Ids
<1>4. ASSUME p \in Alerts, ProcessAlert(p)
      PROVE  /\ pc'[p] \in {"lookup", "relook"} => id'[p] \in Ids
             /\ pc'[p] \in {"append", "merge", "gmerge"} =>
                   id'[p] \in Ids /\ row[id'[p]] # "none"
  <2>1. Onward \in {"buffer", "recheck"}
    BY DEF Onward
  <2>2. QED
    BY <1>3, <1>4, <2>1 DEF ProcessAlert, ProcessSuppressed, ProcessCheck, AppendLookup,
       AppendAlert, BufferAlert, BufferError, Go, With, IdPart
<1>5. ASSUME flushInvestigation(p)
      PROVE  /\ pc'[p] \in {"lookup", "relook"} => id'[p] \in Ids
             /\ pc'[p] \in {"append", "merge", "gmerge"} =>
                   id'[p] \in Ids /\ row[id'[p]] # "none"
  BY <1>3, <1>5 DEF flushInvestigation, Recheck, Relook, MergeCooldown, Gate, MergeActive,
     Publish, PublishError, SetCooldown, Finish, FlushFails, Go, With, IdPart
<1>6. ASSUME p \in Flushers, flushKey(p) \/ Crash(p), ~Stands(p)
      PROVE  pc'[p] \in {"peek", "recheck", "unlock", "idle"}
  BY <1>6 DEF flushKey, Crash, Flush, Acquire, Peek, Pop, PopError, Release, Go, With, proc,
     Stands
<1>7. QED
  BY <1>1, <1>2, <1>4, <1>5, <1>6, OwnStep

LEMMA TakenStep ==
    ASSUME Types, Parts, [Next]_vars
    PROVE  TakenPart'
<1> SUFFICES ASSUME NEW p \in Procs
             PROVE  /\ pc'[p] = "cool" => \A a \in Taken(p)' : Carried(a)' \/ a \in lost'
                    /\ pc'[p] = "pop" => /\ p \in Flushers
                                        /\ \A a \in Taken(p)' : Carried(a)' \/ a \in lost'
  BY DEF TakenPart, Taken
<1> USE DEF Parts
<1>1. /\ \A a : Carried(a) => Carried(a)' \/ a \in lost'
      /\ lost \subseteq lost'
  BY CarriedStep, LostGrows
<1>2. CASE Stands(p)
  <2>1. Taken(p)' = Taken(p)
    BY <1>2 DEF Stands, Taken, Procs
  <2>2. QED
    BY <1>1, <1>2, <2>1 DEF Stands, TakenPart
<1>3. ASSUME p \in Alerts, ProcessAlert(p) PROVE pc'[p] \notin {"cool", "pop"}
  <2>1. Onward \in {"buffer", "recheck"}
    BY DEF Onward
  <2>2. QED
    BY <1>3, <2>1 DEF ProcessAlert, ProcessSuppressed, ProcessCheck, AppendLookup,
       AppendAlert, BufferAlert, BufferError, Go, With, Types, ProcType
<1>4. ASSUME p \in Flushers, flushKey(p) \/ Crash(p), ~Stands(p)
      PROVE  pc'[p] \notin {"cool", "pop"}
  BY <1>4 DEF flushKey, Crash, Flush, Acquire, Peek, Pop, PopError, Release, Go, With, proc,
     Stands, Types, ProcType
<1>5. CASE flushInvestigation(p)
  <2>1. Taken(p)' = Taken(p)
    BY <1>5 DEF flushInvestigation, Recheck, Relook, MergeCooldown, Gate, MergeActive,
       Publish, PublishError, SetCooldown, Taken
  <2>2. CASE MergeCooldown(p)
    <3>1. pc'[p] # "cool" /\ (pc'[p] = "pop" => p \in Flushers)
      BY <2>2 DEF MergeCooldown, Finish, Go, With, Types, ProcType
    <3>2. CASE members' = [members EXCEPT ![id[p]] = @ \cup Taken(p)]
      <4>1. id[p] \in Ids
        BY <2>2 DEF MergeCooldown, IdPart
      <4>2. \A a \in Taken(p) : Carried(a)'
        BY <3>2, <4>1 DEF Carried, Types, RowType
      <4>3. QED
        BY <2>1, <3>1, <4>2
    <3>3. CASE lost' = lost \cup Taken(p)
      BY <2>1, <3>1, <3>3
    <3>4. QED
      BY <2>2, <3>2, <3>3 DEF MergeCooldown
  <2>3. CASE MergeActive(p)
    <3>1. CASE pc'[p] = "cool"
      <4>1. members' = [members EXCEPT ![id[p]] = @ \cup Taken(p)] /\ id[p] \in Ids
        BY <2>3, <3>1 DEF MergeActive, IdPart, Go, With, Types, ProcType
      <4>2. \A a \in Taken(p) : Carried(a)'
        BY <4>1 DEF Carried, Types, RowType
      <4>3. QED
        BY <2>1, <3>1, <4>2
    <3>2. CASE pc'[p] # "cool"
      BY <2>3, <3>2 DEF MergeActive, Go, With, Types, ProcType
    <3>3. QED
      BY <3>1, <3>2
  <2>4. CASE Publish(p)
    <3>1. pc'[p] = "cool"
      BY <2>4 DEF Publish, With, Types, ProcType
    <3>2. (\E m \in tq' \cup wq' : m.alerts = Taken(p)) \/ Taken(p) \subseteq lost'
      <4>1. CASE mode.triage
        <5>1. \/ [id |-> ids + 1, alerts |-> Taken(p), n |-> 0] \in tq'
              \/ Taken(p) \subseteq lost'
          BY <2>4, <4>1 DEF Publish, Send
        <5>2. QED
          BY <5>1
      <4>2. CASE ~mode.triage
        <5>1. [id |-> ids + 1, alerts |-> Taken(p)] \in wq' \/ Taken(p) \subseteq lost'
          BY <2>4, <4>2 DEF Publish, Send
        <5>2. QED
          BY <5>1
      <4>3. QED
        BY <4>1, <4>2
    <3>3. \A a \in Taken(p) : Carried(a)' \/ a \in lost'
      BY <3>2 DEF Carried
    <3>4. QED
      BY <2>1, <3>1, <3>3
  <2>5. CASE SetCooldown(p)
    <3>1. pc[p] = "cool" /\ pc'[p] # "cool" /\ (pc'[p] = "pop" => p \in Flushers)
      BY <2>5 DEF SetCooldown, Finish, Go, With, Types, ProcType
    <3>2. \A a \in Taken(p) : Carried(a)' \/ a \in lost'
      BY <1>1, <3>1 DEF TakenPart
    <3>3. QED
      BY <2>1, <3>1, <3>2
  <2>6. CASE Recheck(p) \/ Relook(p) \/ Gate(p) \/ PublishError(p)
    BY <2>6 DEF Recheck, Relook, Gate, PublishError, FlushFails, Go, With, Types, ProcType
  <2>7. QED
    BY <1>5, <2>2, <2>3, <2>4, <2>5, <2>6 DEF flushInvestigation
<1>6. QED
  BY <1>2, <1>3, <1>4, <1>5, OwnStep

-----------------------------------------------------------------------------
(* The lock and the list *)

\* Two flushers under which nothing went away are one: both own the lock.
LEMMA OneWhole ==
    ASSUME LockPart, NEW f \in Flushers \ torn, NEW g \in Flushers \ torn,
           pc[f] # "idle", pc[g] # "idle"
    PROVE  f = g
  BY DEF LockPart

\* The list under a flusher that stands: nobody cuts it without f being told.
LEMMA StandingLock ==
    ASSUME Types, LockPart, [Next]_vars, NEW f \in Flushers, f \notin torn',
           pc[f] # "idle", Stands(f)
    PROVE  /\ f \notin torn /\ lock' = lock
           /\ list' = list \/ \E a \in Alerts : list' = Append(list, a)
<1> USE DEF Types, HistoryType, Flushing
<1>1. ASSUME NEW a \in Alerts, ProcessAlert(a)
      PROVE  UNCHANGED <<lock, torn>> /\ (list' = list \/ list' = Append(list, a))
  BY <1>1 DEF ProcessAlert, ProcessSuppressed, ProcessCheck, AppendLookup, AppendAlert,
     BufferAlert, BufferError, valkey, history
<1>2. ASSUME NEW p \in Procs, flushInvestigation(p) PROVE UNCHANGED <<lock, list, torn>>
  BY <1>2 DEF flushInvestigation, Recheck, Relook, MergeCooldown, Gate, MergeActive, Publish,
     PublishError, SetCooldown, valkey, history
<1>3. ASSUME NEW g \in Flushers, flushKey(g) \/ Crash(g)
      PROVE  f \notin torn /\ lock' = lock /\ list' = list
  <2>1. CASE Release(g) \/ Crash(g)
    <3>1. f # g
      BY <2>1 DEF Release, Crash, Go, With, Stands, ProcType, Procs
    <3>2. f \notin torn /\ lock = f
      BY <2>1, <3>1 DEF Release, Crash, LockPart
    <3>3. QED
      BY <2>1, <3>1, <3>2 DEF Release, Crash
  <2>2. CASE Flush(g)
    <3>1. lock = f /\ f \notin torn
      BY <2>2 DEF Flush, LockPart, history
    <3>2. lock # None
      BY <3>1
    <3>3. QED
      BY <2>2, <3>1, <3>2 DEF Flush, Acquire
  <2>3. CASE Pop(g)
    <3>1. g \notin torn
      BY <2>3 DEF Pop
    <3>2. f \notin torn /\ pc[g] # "idle"
      BY <2>3, <3>1 DEF Pop, history
    <3>3. f = g
      BY <3>1, <3>2, OneWhole
    <3>4. QED
      BY <2>3, <3>3 DEF Pop, Go, With, Stands, ProcType, Procs
  <2>4. CASE Peek(g) \/ PopError(g)
    BY <2>4 DEF Peek, PopError, valkey, history
  <2>5. QED
    BY <1>3, <2>1, <2>2, <2>3, <2>4 DEF flushKey
<1>4. CASE ListExpires \/ RemoveCooldown
  BY <1>4 DEF ListExpires, RemoveCooldown
<1>5. CASE LockExpires
  BY <1>5 DEF LockExpires, LockPart, history
<1>6. CASE CooldownExpires
  BY <1>6 DEF CooldownExpires, history
<1>7. ASSUME NEW m \in wq, InvestigationCreated(m) PROVE UNCHANGED <<lock, list, torn>>
  BY <1>7 DEF InvestigationCreated, valkey, history
<1>8. ASSUME NEW i \in Ids, InvestigationEnds(i) PROVE UNCHANGED <<lock, list, torn>>
  BY <1>8 DEF InvestigationEnds, valkey, history
<1>9. CASE TriageNext \/ UNCHANGED vars
  BY <1>9 DEF TriageNext, Handle, Process, HandleInvestigate, HandleDecision, HandleRetry,
     DeadLetter, Fallback, Ack, TriageCrash, kept, vars, valkey, history
<1>10. QED
  BY <1>1, <1>2, <1>3, <1>4, <1>5, <1>6, <1>7, <1>8, <1>9 DEF Next, CorrelatorNext

LEMMA LockStep ==
    ASSUME Types, LockPart, [Next]_vars
    PROVE  LockPart'
<1> SUFFICES ASSUME NEW f \in Flushers, f \notin torn'
             PROVE  /\ pc'[f] # "idle" => lock' = f
                    /\ pc'[f] \in Busy => IsPrefix(batch'[f], list')
  BY DEF LockPart, Busy
<1> USE DEF Types, KeyType, ProcType, HistoryType
<1>1. f \in Procs /\ f \notin Alerts
  BY DEF Procs
<1>2. CASE Stands(f) /\ pc[f] # "idle"
  <2>1. /\ f \notin torn /\ lock' = lock
        /\ list' = list \/ \E a \in Alerts : list' = Append(list, a)
    BY <1>2, StandingLock
  <2>2. pc[f] \in Busy => IsPrefix(batch[f], list')
    <3>1. CASE list' = list
      BY <2>1, <3>1 DEF LockPart
    <3>2. ASSUME NEW a \in Alerts, list' = Append(list, a)
          PROVE  pc[f] \in Busy => IsPrefix(batch[f], list')
      BY <2>1, <3>2, PrefixOfAppend DEF LockPart
    <3>3. QED
      BY <2>1, <3>1, <3>2
  <2>3. QED
    BY <1>2, <2>1, <2>2 DEF Stands, LockPart
<1>3. CASE Stands(f) /\ pc[f] = "idle"
  BY <1>3 DEF Stands, Busy
<1>4. CASE flushInvestigation(f)
  <2>1. /\ pc[f] \in Busy /\ pc[f] # "idle"
        /\ UNCHANGED <<lock, list, batch, torn>>
    BY <1>4 DEF flushInvestigation, Recheck, Relook, MergeCooldown, Gate, MergeActive, Publish,
       PublishError, SetCooldown, valkey, history, Busy
  <2>2. QED
    BY <2>1 DEF LockPart
<1>5. CASE (flushKey(f) \/ Crash(f)) /\ ~Stands(f)
  <2>1. CASE Flush(f)
    <3>1. lock' = f /\ pc'[f] = "peek"
      BY <1>1, <1>5, <2>1 DEF Flush, Acquire, Go, With, Stands
    <3>2. QED
      BY <3>1 DEF Busy
  <2>2. CASE Peek(f)
    <3>1. UNCHANGED <<lock, list, torn>> /\ pc[f] # "idle"
      BY <2>2 DEF Peek, valkey, history
    <3>2. pc'[f] \in Busy => batch'[f] = list
      BY <1>1, <2>2 DEF Peek, Go, With, Busy
    <3>3. QED
      BY <3>1, <3>2, PrefixOfItself DEF LockPart
  <2>3. CASE Pop(f) \/ PopError(f)
    <3>1. pc'[f] = "unlock" /\ pc[f] # "idle" /\ UNCHANGED lock
      BY <1>1, <2>3 DEF Pop, PopError, Go, With, valkey
    <3>2. f \notin torn
      BY <2>3 DEF Pop, PopError, history
    <3>3. QED
      BY <3>1, <3>2 DEF LockPart, Busy
  <2>4. CASE Release(f) \/ Crash(f)
    <3>1. pc'[f] = "idle"
      BY <1>1, <2>4 DEF Release, Crash, Go, With
    <3>2. QED
      BY <3>1 DEF Busy
  <2>5. QED
    BY <1>5, <2>1, <2>2, <2>3, <2>4 DEF flushKey
<1>6. QED
  BY <1>1, <1>2, <1>3, <1>4, <1>5, OwnStep

\* What leaves the list is on record by then.
LEMMA ListKept ==
    ASSUME Types, Parts, [Next]_vars, NEW a \in ToSet(list)
    PROVE  a \in ToSet(list') \/ Carried(a)' \/ a \in lost'
<1> USE DEF Parts
<1>1. (Carried(a) => Carried(a)' \/ a \in lost') /\ lost \subseteq lost'
  BY CarriedStep, LostGrows
<1>2. ASSUME NEW b \in Alerts, ProcessAlert(b) PROVE a \in ToSet(list')
  <2>1. list' = list \/ list' = Append(list, b)
    BY <1>2 DEF ProcessAlert, ProcessSuppressed, ProcessCheck, AppendLookup, AppendAlert,
       BufferAlert, BufferError, valkey
  <2>2. QED
    BY <2>1, ToSetAppend DEF Types, KeyType
<1>3. ASSUME NEW f \in Flushers, flushKey(f) \/ Crash(f)
      PROVE  a \in ToSet(list') \/ Carried(a)' \/ a \in lost'
  <2>1. CASE Pop(f)
    <3> DEFINE n == Least(Len(batch[f]), Len(list))
    <3>1. /\ n \in 0 .. Len(list) /\ list' = DropFirst(list, n)
      BY <2>1, PopTakes DEF Pop
    <3>2. a \in ToSet(SubSeq(list, 1, n)) \/ a \in ToSet(list')
      BY <3>1, Cut DEF Types, KeyType
    <3>3. ASSUME NEW b \in ToSet(batch[f]) PROVE Carried(b) \/ b \in lost
      <4>1. pc[f] = "pop" /\ f \in Procs /\ Taken(f) = ToSet(batch[f])
        BY <2>1 DEF Pop, Procs, Taken
      <4>2. QED
        BY <3>3, <4>1 DEF TakenPart
    <3>4. CASE a \in ToSet(SubSeq(list, 1, n)) /\ f \in torn
      <4>1. lost' = lost \cup (ToSet(SubSeq(list, 1, n)) \ ToSet(batch[f]))
        BY <2>1, <3>4 DEF Pop
      <4>2. QED
        BY <1>1, <3>3, <3>4, <4>1
    <3>5. CASE a \in ToSet(SubSeq(list, 1, n)) /\ f \notin torn
      <4>1. IsPrefix(batch[f], list)
        BY <2>1, <3>5 DEF Pop, LockPart, Busy
      <4>2. /\ batch[f] \in Seq(Alerts) /\ list \in Seq(Alerts)
        BY DEF Types, KeyType, ProcType
      <4>3. Len(batch[f]) <= Len(list) /\ SubSeq(list, 1, Len(batch[f])) = batch[f]
        BY <4>1, <4>2, PrefixIsHead
      <4>4. n = Len(batch[f])
        BY <4>2, <4>3, LenProperties DEF Least
      <4>5. a \in ToSet(batch[f])
        BY <3>5, <4>3, <4>4
      <4>6. QED
        BY <1>1, <3>3, <4>5
    <3>6. QED
      BY <3>2, <3>4, <3>5
  <2>2. CASE ~Pop(f)
    BY <1>3, <2>2 DEF flushKey, Crash, Flush, Peek, PopError, Release, valkey
  <2>3. QED
    BY <2>1, <2>2
<1>4. CASE ListExpires \/ RemoveCooldown
  BY <1>1, <1>4 DEF ListExpires, RemoveCooldown
<1>5. CASE CooldownExpires \/ LockExpires \/ (\E m \in wq : InvestigationCreated(m))
           \/ (\E i \in Ids : InvestigationEnds(i)) \/ TriageNext \/ UNCHANGED vars
           \/ \E p \in Procs : flushInvestigation(p)
  <2>1. UNCHANGED list
    BY <1>5 DEF CooldownExpires, LockExpires, InvestigationCreated, InvestigationEnds, valkey,
       TriageNext, Handle, Process, HandleInvestigate, HandleDecision, HandleRetry,
       DeadLetter, Fallback, Ack, TriageCrash, kept, vars, flushInvestigation, Recheck,
       Relook, MergeCooldown, Gate, MergeActive, Publish, PublishError, SetCooldown
  <2>2. QED
    BY <2>1
<1>6. QED
  BY <1>2, <1>3, <1>4, <1>5 DEF Next, CorrelatorNext

LEMMA VanishStep ==
    ASSUME Types, Parts, NothingVanishes, [Next]_vars
    PROVE  NothingVanishes'
<1> SUFFICES ASSUME NEW a \in Alerts, pc'[a] = "done"
             PROVE  a \in ToSet(list') \/ Carried(a)' \/ a \in lost'
  BY DEF NothingVanishes
<1> USE DEF Parts
<1>1. /\ Carried(a) => Carried(a)' \/ a \in lost'
      /\ lost \subseteq lost' /\ a \in Procs /\ a \notin Flushers
  BY CarriedStep, LostGrows DEF Procs
<1>2. CASE Stands(a)
  BY <1>1, <1>2, ListKept DEF Stands, NothingVanishes
<1>3. CASE ProcessAlert(a)
  <2>1. CASE BufferAlert(a)
    BY <2>1, ToSetAppend DEF BufferAlert, Types, KeyType
  <2>2. CASE AppendAlert(a)
    <3>1. members' = [members EXCEPT ![id[a]] = @ \cup {a}] /\ id[a] \in Ids
      BY <1>1, <2>2 DEF AppendAlert, IdPart, Go, With, Types, ProcType
    <3>2. QED
      BY <3>1 DEF Carried, Types, RowType
  <2>3. CASE ~BufferAlert(a) /\ ~AppendAlert(a)
    <3>1. Onward # "done"
      BY DEF Onward
    <3>2. QED
      BY <1>1, <1>3, <2>3, <3>1 DEF ProcessAlert, ProcessSuppressed, ProcessCheck, AppendLookup,
         BufferError, Go, With, Types, ProcType
  <2>4. QED
    BY <2>1, <2>2, <2>3
<1>4. CASE flushInvestigation(a)
  <2>1. Taken(a) = {a}
    BY DEF Taken
  <2>2. CASE MergeCooldown(a)
    <3>1. CASE members' = [members EXCEPT ![id[a]] = @ \cup Taken(a)]
      <4>1. id[a] \in Ids
        BY <1>1, <2>2 DEF MergeCooldown, IdPart
      <4>2. QED
        BY <2>1, <3>1, <4>1 DEF Carried, Types, RowType
    <3>2. CASE lost' = lost \cup Taken(a)
      BY <2>1, <3>2
    <3>3. QED
      BY <2>2, <3>1, <3>2 DEF MergeCooldown
  <2>3. CASE SetCooldown(a)
    <3>1. pc[a] = "cool"
      BY <2>3 DEF SetCooldown
    <3>2. QED
      BY <1>1, <2>1, <3>1 DEF TakenPart
  <2>4. CASE ~MergeCooldown(a) /\ ~SetCooldown(a)
    BY <1>1, <1>4, <2>4 DEF flushInvestigation, Recheck, Relook, Gate, MergeActive, Publish,
       PublishError, FlushFails, Go, With, Types, ProcType
  <2>5. QED
    BY <2>2, <2>3, <2>4
<1>5. QED
  BY <1>1, <1>2, <1>3, <1>4, OwnStep

LEMMA NextIInv == IInv /\ [Next]_vars => IInv'
<1> SUFFICES ASSUME IInv, [Next]_vars PROVE IInv'
  OBVIOUS
<1> USE DEF IInv, Parts
<1>1. Types' /\ RowPart' /\ AskedPart'
  BY NextTypes, RowStep, AskedStep
<1>2. JobPart' /\ IdPart' /\ TakenPart'
  BY JobStep, IdStep, TakenStep
<1>3. LockPart' /\ NothingVanishes'
  BY LockStep, VanishStep
<1>4. QED
  BY <1>1, <1>2, <1>3

LEMMA AlwaysIInv == Spec => []IInv
  BY InitIInv, NextIInv, PTL DEF Spec

-----------------------------------------------------------------------------
\* The keys in Valkey, the handlers and flushers, the rows and the queues keep
\* their types: what the triage worker gives back, retries or passes on is a
\* message of an investigation, with a retry count within the limit.
THEOREM TriageStateTypes == Spec => []TypeOK
<1>1. IInv => TypeOK
  BY TypesImply DEF IInv
<1>2. QED
  BY <1>1, AlwaysIInv, PTL

\* An alert ProcessAlert took stays in the list until a message, a row or a
\* decision of triage has it, or its loss is of the kinds counted in lost (the
\* message the broker drops when the triage worker refuses it among them, unless
\* its fallback is published), however many flushers of however many processes flush the key, whatever
\* commands fail, and wherever a flusher or the triage worker dies.
THEOREM NoAlertVanishes == Spec => []NothingVanishes
<1>1. IInv => NothingVanishes
  BY DEF IInv
<1>2. QED
  BY <1>1, AlwaysIInv, PTL

\* popPending removes what was published and nothing else, as long as neither
\* the list nor the lock went away under the flusher.
THEOREM BatchIsPopped == Spec => []PopsItsBatch
<1>1. IInv => PopsItsBatch
  BY DEF IInv, Parts, LockPart, Busy, PopsItsBatch
<1>2. QED
  BY <1>1, AlwaysIInv, PTL

\* From the message to the row or the decision nobody lets go of an alert
\* unseen: the investigate worker that drops the message of a row that exists
\* (its insert has no effect on a second delivery) has its alerts there already,
\* and the triage worker acks only what it passed on or had decided.  Where an
\* alert is let go of, by a publication lost on the wire or by the failed
\* fallback of a message that was refused, it is in lost.
LetGoIsLost ==
    [][\A a \in Alerts : Carried(a) => Carried(a)' \/ a \in lost']_vars

THEOREM OnRecordForGood == Spec => LetGoIsLost
<1>1. IInv /\ [Next]_vars => [\A a \in Alerts : Carried(a) => Carried(a)' \/ a \in lost']_vars
  BY CarriedStep DEF IInv, Parts
<1>2. QED
  BY <1>1, AlwaysIInv, PTL DEF Spec, LetGoIsLost
=============================================================================
