---------------------------- MODULE AlertsProofs ----------------------------
(***************************************************************************)
(* For every number of alerts of the fingerprint, handlers and requests:   *)
(* the types of Alerts, that one alert is open at most, that the timeline  *)
(* never counts a resolution twice, and that no firing notification is     *)
(* swallowed.                                                              *)
(***************************************************************************)
EXTENDS Alerts, FiniteSetTheorems, TLAPS

OpNames == AllOps \cup {"none"}
PcNames == {"idle", "dedup", "verify", "lookup", "create", "track", "targets", "trigger",
            "latest", "insert", "select", "write", "entry", "untrack", "chat", "complete",
            "close", "relink", "find", "erase", "cancel", "list", "purge", "check"}
Ids == 0 .. MaxAlerts
Handlers == [op : OpNames, pc : PcNames, n : Ids, t : Ids]

RowType ==
    /\ st \in [Numbers -> {"none", "firing", "resolved", "purged"}]
    /\ ack \in [Numbers -> BOOLEAN] /\ sil \in [Numbers -> BOOLEAN]
    /\ del \in [Numbers -> BOOLEAN]
    /\ targets \in [Numbers -> Ids]
    /\ recent \in Ids

ThreadType ==
    /\ th \in [Threads -> Handlers]
    /\ \A w \in Threads : th[w].pc = "idle" => th[w] = Idle
    /\ seen \in [Threads -> BOOLEAN]

RestType ==
    /\ tracked \in BOOLEAN /\ cancel \subseteq Numbers
    /\ inv \in [Numbers -> {"none", "queued", "open", "complete", "gone"}]
    /\ events \in [Numbers -> Nat] /\ closings \in [Numbers -> Nat]
    /\ faults \in Nat

Types == RowType /\ ThreadType /\ RestType

LEMMA TypesImply == Types => TypeOK
  BY DEF Types, TypeOK, RowType, ThreadType, RestType, Handlers, OpNames, Ids

LEMMA NumbersAreIds == Numbers \subseteq Ids /\ 0 \in Ids /\ \A n \in Ids : n # 0 => n \in Numbers
  BY AlertsBounds DEF Numbers, Ids

\* The places of a handler of a firing notification before it has found or
\* created an alert.
Early == {"dedup", "verify", "lookup", "create"}

\* What is known of a handler: one that is past these places began while, or
\* before, an alert was open, or has none (its insert was refused); one that
\* deletes names an alert that exists, and only what exists is deleted.
Witnessed ==
    /\ \A w \in Threads :
          /\ th[w].op = "firing" /\ th[w].pc \notin Early => seen[w] \/ th[w].n = 0
          /\ th[w].op = "delete" => st[th[w].n] # "none" /\ th[w].n \in Numbers
    /\ \A n \in Numbers : st[n] = "none" => ~del[n]

Single == \E n \in Numbers : Open \subseteq {n}

IInv == Types /\ Witnessed /\ Single /\ ResolvedOnce

-----------------------------------------------------------------------------
(* The move of a handler. *)

\* What the next place r of the handler of w may be.
Move(w, r) ==
    /\ r \in Handlers
    /\ r.pc = "idle" => r = Idle
    /\ th' = [th EXCEPT ![w] = r]
    /\ th[w] = Idle => /\ r.op = "firing" => r.pc \in Early
                       /\ r.op = "delete" => st[r.n] # "none" /\ r.n \in Numbers
    /\ th[w] # Idle /\ r # Idle => r.op = th[w].op
    /\ th[w].op = "delete" /\ r # Idle => r.n = th[w].n
    /\ th[w].op = "firing" =>
          IF th[w].pc \in Early
          THEN /\ r = Idle => Open # {} \/ faults' # faults
               /\ r # Idle /\ r.pc \notin Early => Open' # {} \/ r.n = 0
          ELSE r # Idle => r.pc \notin Early /\ r.n = th[w].n

LEMMA IdleHandler == Idle \in Handlers /\ Idle.pc = "idle" /\ Idle.op = "none"
  BY NumbersAreIds DEF Idle, Handlers, OpNames, PcNames

\* A handler that goes on to another place with the same alert.
LEMMA GotoMoves ==
    ASSUME Types, NEW w \in Threads, NEW pc \in PcNames \ {"idle"}, th[w] # Idle,
           Goto(w, pc),
           th[w].op = "firing" => (pc \in Early <=> th[w].pc \in Early)
    PROVE  \E r : Move(w, r)
<1> DEFINE r == [th[w] EXCEPT !.pc = pc]
<1>1. th[w] \in Handlers
  BY DEF Types, ThreadType
<1>2. /\ r \in Handlers /\ r.pc = pc /\ r.op = th[w].op /\ r.n = th[w].n
  BY <1>1 DEF Handlers
<1>3. th' = [th EXCEPT ![w] = r]
  BY <1>1 DEF Goto, Types, ThreadType
<1>4. r # Idle
  BY <1>2, IdleHandler
<1> HIDE DEF r
<1>5. Move(w, r)
  BY <1>2, <1>3, <1>4 DEF Move
<1>6. QED
  BY <1>5

\* ... that ends.
LEMMA EndMoves ==
    ASSUME Types, NEW w \in Threads, th[w] # Idle, End(w),
           th[w].op = "firing" /\ th[w].pc \in Early => Open # {} \/ faults' # faults
    PROVE  \E r : Move(w, r)
  BY IdleHandler DEF Move, End

\* ... that goes on with another alert.
LEMMA WithMoves ==
    ASSUME Types, NEW w \in Threads, NEW pc \in PcNames \ {"idle"}, NEW n \in Ids,
           th[w] # Idle, th[w].op # "delete", With(w, pc, n),
           th[w].op = "firing" =>
               /\ pc \notin Early /\ th[w].pc \in Early
               /\ Open' # {} \/ n = 0
    PROVE  \E r : Move(w, r)
<1> DEFINE r == [th[w] EXCEPT !.pc = pc, !.n = n]
<1>1. th[w] \in Handlers
  BY DEF Types, ThreadType
<1>2. /\ r \in Handlers /\ r.pc = pc /\ r.op = th[w].op /\ r.n = n
  BY <1>1 DEF Handlers
<1>3. th' = [th EXCEPT ![w] = r]
  BY <1>1 DEF With, Types, ThreadType
<1>4. r # Idle
  BY <1>2, IdleHandler
<1> HIDE DEF r
<1>5. Move(w, r)
  BY <1>2, <1>3, <1>4 DEF Move
<1>6. QED
  BY <1>5

LEMMA NumberFound ==
    /\ Open \subseteq Numbers /\ NextNumber \subseteq Numbers
    /\ \A n \in NextNumber : st[n] = "none"
  BY DEF Open, NextNumber, Unused

LEMMA StartMoves ==
    ASSUME Types, NEW w \in Threads, Start(w)
    PROVE  \E r : Move(w, r)
<1>1. PICK op \in Ops, n \in Numbers :
         /\ th[w] = Idle
         /\ op \in {"acknowledge", "resolve", "reopen", "silence", "delete", "purge"}
               => st[n] # "none"
         /\ th' = [th EXCEPT ![w] = [op |-> op, pc |-> First(op), n |-> n, t |-> 0]]
  BY DEF Start
<1> DEFINE r == [op |-> op, pc |-> First(op), n |-> n, t |-> 0]
<1>2. op \in AllOps
  BY AlertsOps
<1>3. First(op) \in PcNames \ {"idle"} /\ (op = "firing" => First(op) \in Early)
  BY <1>2 DEF First, AllOps, PcNames, Early
<1>4. r \in Handlers
  BY <1>2, <1>3, NumbersAreIds DEF Handlers, OpNames
<1>5. r.pc # "idle" /\ (op = "firing" => r.pc \in Early) /\ r.op = op /\ r.n = n
  BY <1>3
<1>6. th[w].op = "none" /\ (op = "delete" => st[n] # "none")
  BY <1>1, IdleHandler
<1> HIDE DEF r
<1>7. Move(w, r)
  <2>1. th' = [th EXCEPT ![w] = r]
    BY <1>1 DEF r
  <2>2. r.op = "delete" => st[r.n] # "none" /\ r.n \in Numbers
    BY <1>5, <1>6
  <2>3. QED
    BY <1>1, <1>4, <1>5, <1>6, <2>1, <2>2 DEF Move
<1>8. QED
  BY <1>7

LEMMA SkipMoves ==
    ASSUME Types, NEW w \in Threads, Skip(w) \/ Abort(w)
    PROVE  \E r : Move(w, r)
<1>1. faults' # faults
  BY DEF Types, RestType, Skip, Abort, Fault
<1>2. CASE End(w) /\ th[w] # Idle
  BY <1>1, <1>2, EndMoves
<1>3. CASE Skip(w) /\ ~End(w)
  <2>1. th[w] # Idle
    BY <1>3, IdleHandler DEF Skip
  <2>2. CASE th[w].pc = "create" /\ th[w].op = "firing" /\ With(w, "trigger", 0)
    BY <2>1, <2>2, WithMoves, NumbersAreIds DEF PcNames, Early
  <2>3. CASE \E pc \in {"relink", "targets", "trigger", "chat", "untrack"} :
                Goto(w, pc) /\ th[w].pc \notin Early
    BY <2>1, <2>3, GotoMoves DEF PcNames, Early
  <2>4. QED
    BY <1>3, <2>2, <2>3 DEF Skip, AfterTrack, Early
<1>4. QED
  BY <1>2, <1>3, IdleHandler DEF Skip, Abort

LEMMA IntakeMoves ==
    ASSUME Types, Witnessed, NEW w \in Threads, Intake(w)
    PROVE  \E r : Move(w, r)
<1>1. th[w] # Idle
  BY IdleHandler DEF Intake, At, IsDuplicate, VerifyDuplicate, LookupOpen, CreateFiring,
     MarkTracked, UpdateDeliveryTargets, TriggerCorrelator, ResolvedUnknown, CreateResolved
<1>2. CASE IsDuplicate(w)
  BY <1>1, <1>2, GotoMoves DEF IsDuplicate, At, PcNames, Early
<1>3. CASE VerifyDuplicate(w)
  BY <1>1, <1>3, GotoMoves, EndMoves DEF VerifyDuplicate, At, PcNames, Early
<1>4. CASE LookupOpen(w)
  <2>1. CASE th[w].op # "resolved" /\ Open = {}
    BY <1>1, <1>4, <2>1, GotoMoves DEF LookupOpen, At, PcNames, Early
  <2>2. CASE th[w].op # "resolved" /\ Open # {}
    BY <1>1, <1>4, <2>2, EndMoves DEF LookupOpen, At
  <2>3. CASE th[w].op = "resolved" /\ Open = {}
    BY <1>1, <1>4, <2>3, GotoMoves DEF LookupOpen, At, PcNames
  <2>4. CASE th[w].op = "resolved" /\ Open # {}
    <3>1. PICK n \in Open : With(w, "select", n)
      BY <1>4, <2>4 DEF LookupOpen, At
    <3>2. QED
      BY <1>1, <2>4, <3>1, WithMoves, NumberFound, NumbersAreIds DEF PcNames
  <2>5. QED
    BY <2>1, <2>2, <2>3, <2>4
<1>5. CASE CreateFiring(w)
  <2>1. CASE ~Insertable("firing")
    BY <1>1, <1>5, <2>1, WithMoves, EndMoves, NumbersAreIds
       DEF CreateFiring, At, PcNames, Early
  <2>2. CASE Insertable("firing")
    <3>1. PICK n \in NextNumber, silenced \in BOOLEAN :
             Insert(n, "firing", silenced) /\ With(w, "track", n)
      BY <1>5, <2>2 DEF CreateFiring
    <3>2. n \in Open'
      BY <3>1, NumberFound DEF Insert, Open, Types, RowType, Witnessed
    <3>3. QED
      BY <1>1, <1>5, <3>1, <3>2, WithMoves, NumberFound, NumbersAreIds
         DEF CreateFiring, At, PcNames, Early
  <2>3. QED
    BY <2>1, <2>2
<1>6. CASE MarkTracked(w)
  BY <1>1, <1>6, GotoMoves, EndMoves DEF MarkTracked, AfterTrack, PcNames, Early
<1>7. CASE UpdateDeliveryTargets(w)
  BY <1>1, <1>7, GotoMoves, EndMoves DEF UpdateDeliveryTargets, PcNames, Early
<1>8. CASE TriggerCorrelator(w)
  BY <1>1, <1>8, EndMoves DEF TriggerCorrelator, Early
<1>9. CASE ResolvedUnknown(w)
  BY <1>1, <1>9, GotoMoves, EndMoves DEF ResolvedUnknown, At, PcNames
<1>10. CASE CreateResolved(w)
  <2>1. th[w].op = "resolved"
    BY <1>10 DEF CreateResolved, At
  <2>2. CASE End(w)
    BY <1>1, <2>1, <2>2, EndMoves
  <2>3. CASE \E n \in NextNumber : With(w, "targets", n)
    BY <1>1, <2>1, <2>3, WithMoves, NumberFound, NumbersAreIds DEF PcNames
  <2>4. QED
    BY <1>10, <2>2, <2>3 DEF CreateResolved
<1>11. QED
  BY <1>2, <1>3, <1>4, <1>5, <1>6, <1>7, <1>8, <1>9, <1>10 DEF Intake

LEMMA ChangeMoves ==
    ASSUME Types, NEW w \in Threads, Change(w) \/ Removal(w)
    PROVE  \E r : Move(w, r)
<1>1. /\ th[w] # Idle
      /\ th[w].op = "firing" => th[w].pc \notin Early
  BY IdleHandler DEF Change, Removal, At, Early, SelectAlert, WriteResolved, InsertEvent,
     WriteAcknowledged, WriteReopened, ReopenLinked, RemoveTracking, UpdateChatPosts,
     CompleteRead, CompleteWrite, FindAlert, DeleteAlert, AddCancel, PurgeList, PurgeRow,
     CheckCancelled, CreateInvestigation
<1>2. CASE End(w)
  BY <1>1, <1>2, EndMoves
<1>3. CASE \E pc \in PcNames \ {"idle"} :
              Goto(w, pc) /\ (th[w].op = "firing" => pc \notin Early)
  BY <1>1, <1>3, GotoMoves
<1>4. CASE \E n \in Ids : th' = [th EXCEPT ![w].pc = "write", ![w].t = n]
  <2>1. PICK n \in Ids : th' = [th EXCEPT ![w].pc = "write", ![w].t = n]
    BY <1>4
  <2> DEFINE r == [th[w] EXCEPT !.pc = "write", !.t = n]
  <2>2. th[w] \in Handlers
    BY DEF Types, ThreadType
  <2>3. /\ r \in Handlers /\ r.pc = "write" /\ r.op = th[w].op /\ r.n = th[w].n
    BY <2>2, NumbersAreIds DEF Handlers, PcNames
  <2>4. th' = [th EXCEPT ![w] = r]
    BY <2>1, <2>2 DEF Types, ThreadType
  <2>5. r # Idle
    BY <2>3, IdleHandler
  <2> HIDE DEF r
  <2>6. Move(w, r)
    BY <1>1, <2>3, <2>4, <2>5 DEF Move, Early
  <2>7. QED
    BY <2>6
<1>5. CASE SelectAlert(w)
  <2>1. CASE th[w].op = "reopen"
    <3>1. th[w].n \in Ids
      BY DEF Types, ThreadType, Handlers
    <3>2. QED
      BY <1>2, <1>4, <1>5, <2>1, <3>1 DEF SelectAlert
  <2>2. CASE th[w].op \in {"acknowledge", "resolve"}
    BY <1>2, <1>4, <1>5, <2>2, NumberFound, NumbersAreIds DEF SelectAlert
  <2>3. CASE th[w].op \notin {"reopen", "acknowledge", "resolve"}
    BY <1>2, <1>4, <1>5, <2>3, NumberFound, NumbersAreIds DEF SelectAlert
  <2>4. QED
    BY <2>1, <2>2, <2>3
<1>6. CASE Change(w) /\ ~SelectAlert(w)
  <2>1. CASE WriteAcknowledged(w) \/ WriteReopened(w)
    BY <1>2, <1>3, <2>1 DEF At, WriteAcknowledged, WriteReopened, PcNames, Early
  <2>5. CASE WriteResolved(w) \/ InsertEvent(w)
    <3>1. Goto(w, "entry") \/ Goto(w, "untrack")
      BY <2>5 DEF WriteResolved, InsertEvent
    <3>2. {"entry", "untrack"} \subseteq PcNames \ (Early \cup {"idle"})
      BY DEF PcNames, Early
    <3>3. QED
      BY <1>3, <3>1, <3>2
  <2>2. CASE ReopenLinked(w) \/ RemoveTracking(w) \/ UpdateChatPosts(w)
    BY <1>2, <1>3, <2>2 DEF At, ReopenLinked, RemoveTracking, UpdateChatPosts, PcNames,
                            Early
  <2>3. CASE CompleteRead(w) \/ CompleteWrite(w)
    BY <1>2, <1>3, <2>3 DEF CompleteRead, CompleteWrite, PcNames, Early
  <2>6. QED
    BY <1>6, <2>1, <2>2, <2>3, <2>5 DEF Change
<1>7. CASE FindAlert(w) \/ DeleteAlert(w) \/ AddCancel(w)
  BY <1>2, <1>3, <1>7 DEF At, FindAlert, DeleteAlert, AddCancel, PcNames, Early
<1>8. CASE PurgeList(w) \/ PurgeRow(w)
  BY <1>2, <1>3, <1>8 DEF At, PurgeList, PurgeRow, PcNames, Early
<1>9. CASE CheckCancelled(w) \/ CreateInvestigation(w)
  BY <1>2, <1>3, <1>9 DEF At, CheckCancelled, CreateInvestigation, PcNames
<1>10. QED
  BY <1>5, <1>6, <1>7, <1>8, <1>9 DEF Removal

LEMMA HandlerMoves ==
    ASSUME Types, Witnessed, Steps
    PROVE  UNCHANGED th \/ \E w \in Threads, r \in Handlers : Move(w, r)
<1>1. CASE DedupExpires \/ CancelExpires
  BY <1>1 DEF DedupExpires, CancelExpires
<1>2. ASSUME NEW w \in Threads,
             Start(w) \/ Abort(w) \/ Skip(w) \/ Intake(w) \/ Change(w) \/ Removal(w)
      PROVE  \E r \in Handlers : Move(w, r)
  <2>1. \E r : Move(w, r)
    BY <1>2, StartMoves, SkipMoves, IntakeMoves, ChangeMoves
  <2>2. QED
    BY <2>1 DEF Move
<1>3. QED
  BY <1>1, <1>2 DEF Steps

-----------------------------------------------------------------------------
(* The rows. *)

\* What a step makes of the rows: types, one open alert; a number that is used
\* stays used, one that is purged stays purged, and only a used one is deleted.
RowStep ==
    /\ RowType' /\ Single'
    /\ \A n \in Numbers : st'[n] = "none" => st[n] = "none"
    /\ \A n \in Numbers : st[n] = "purged" => st'[n] = "purged"
    /\ \A n \in Numbers : del'[n] => del[n] \/ st[n] # "none"

LEMMA RowsUntouched ==
    ASSUME IInv, UNCHANGED rows
    PROVE  RowStep
<1>1. UNCHANGED <<st, ack, sil, del, targets, recent>>
  BY DEF rows
<1>2. RowType'
  BY <1>1 DEF IInv, Types, RowType
<1>3. Open' = Open
  BY <1>1 DEF Open
<1>4. QED
  BY <1>1, <1>2, <1>3 DEF RowStep, IInv, Single

LEMMA InsertRows ==
    ASSUME IInv, NEW n \in NextNumber, NEW s \in {"firing", "resolved"},
           NEW silenced \in BOOLEAN, Insertable(s), Insert(n, s, silenced)
    PROVE  RowStep
<1>1. n \in Numbers /\ st[n] = "none"
  BY NumberFound
<1>2. RowType'
  BY <1>1, NumbersAreIds DEF Insert, IInv, Types, RowType
<1>3. Single'
  <2>1. Open' \subseteq Open \cup (IF s = "firing" THEN {n} ELSE {})
    BY <1>1 DEF Insert, Open, IInv, Types, RowType
  <2>2. QED
    BY <1>1, <2>1 DEF Insertable, IInv, Single
<1>4. QED
  BY <1>1, <1>2, <1>3 DEF Insert, RowStep, IInv, Types, RowType

LEMMA ResolveRows ==
    ASSUME IInv, NEW n \in Ids, NEW silenced \in BOOLEAN, Resolve(n, silenced)
    PROVE  RowStep
<1>1. CASE UNCHANGED rows
  BY <1>1, RowsUntouched
<1>2. CASE st[n] = "firing"
  <2>1. /\ st' = [st EXCEPT ![n] = "resolved"]
        /\ sil' = [sil EXCEPT ![n] = @ \/ silenced]
        /\ recent' = n
        /\ UNCHANGED <<ack, del, targets>>
    BY <1>2 DEF Resolve
  <2>3. sil' \in [Numbers -> BOOLEAN]
    BY <2>1 DEF IInv, Types, RowType
  <2>4. RowType'
    BY <2>1, <2>3 DEF IInv, Types, RowType
  <2>5. Open' \subseteq Open
    BY <2>1 DEF Open, IInv, Types, RowType
  <2>6. QED
    BY <1>2, <2>1, <2>4, <2>5 DEF RowStep, IInv, Single, Types, RowType
<1>3. QED
  BY <1>1, <1>2 DEF Resolve

LEMMA ReopenRows ==
    ASSUME IInv, NEW n \in Ids, Reopenable(n), ReopenRow(n)
    PROVE  RowStep
<1>1. CASE UNCHANGED rows
  BY <1>1, RowsUntouched
<1>2. CASE ~UNCHANGED rows
  <2>1. /\ st' = [st EXCEPT ![n] = "firing"]
        /\ ack' = [ack EXCEPT ![n] = FALSE]
        /\ sil' = [sil EXCEPT ![n] = FALSE]
        /\ recent' = n
        /\ st[n] # "purged"
        /\ UNCHANGED <<del, targets>>
    BY <1>2 DEF ReopenRow
  <2>2. RowType'
    BY <2>1 DEF IInv, Types, RowType
  <2>3. Single'
    <3>1. Open' \subseteq Open \cup {n}
      BY <2>1 DEF Open, IInv, Types, RowType
    <3>2. del[n] => Open' \subseteq Open
      BY <2>1 DEF Open, IInv, Types, RowType
    <3>3. n \notin Numbers => Open' \subseteq Open
      BY <2>1 DEF Open, IInv, Types, RowType
    <3>4. QED
      BY <3>1, <3>2, <3>3 DEF Reopenable, IInv, Single
  <2>4. QED
    BY <2>1, <2>2, <2>3 DEF RowStep, IInv, Types, RowType
<1>3. QED
  BY <1>1, <1>2

\* A step that opens nothing and uses no number.
LEMMA RowsChanged ==
    ASSUME IInv, RowType',
           \A n \in Numbers : st'[n] = st[n] \/ st'[n] = "purged",
           \A n \in Numbers : del'[n] = del[n] \/ (del'[n] /\ st[n] # "none")
    PROVE  RowStep
<1>1. Open' \subseteq Open
  BY DEF Open
<1>2. Single'
  BY <1>1 DEF IInv, Single
<1>3. QED
  BY <1>2 DEF RowStep

LEMMA ThreadIds ==
    ASSUME Types, NEW w \in Threads
    PROVE  th[w].n \in Ids /\ th[w].t \in Ids
  BY DEF Types, ThreadType, Handlers

LEMMA InsideRows ==
    ASSUME IInv, NEW w \in Threads,
           Start(w) \/ Abort(w) \/ Skip(w) \/ Intake(w) \/ Change(w) \/ Removal(w)
    PROVE  RowStep
<1>1. Types /\ RowType
  BY DEF IInv, Types
<1>2. CASE Start(w) \/ Abort(w) \/ Skip(w)
  BY <1>2, RowsUntouched DEF Start, Abort, Skip
<1>3. CASE CreateFiring(w)
  <2>1. CASE UNCHANGED rows
    BY <2>1, RowsUntouched
  <2>2. CASE ~UNCHANGED rows
    <3>1. Insertable("firing")
      BY <1>3, <2>2 DEF CreateFiring
    <3>2. PICK n \in NextNumber, silenced \in BOOLEAN : Insert(n, "firing", silenced)
      BY <1>3, <3>1 DEF CreateFiring
    <3>3. QED
      BY <3>1, <3>2, InsertRows
  <2>3. QED
    BY <2>1, <2>2
<1>4. CASE CreateResolved(w)
  <2>1. CASE UNCHANGED rows
    BY <2>1, RowsUntouched
  <2>2. CASE ~UNCHANGED rows
    <3>1. Insertable("resolved")
      BY <1>4, <2>2 DEF CreateResolved
    <3>2. PICK n \in NextNumber, silenced \in BOOLEAN : Insert(n, "resolved", silenced)
      BY <1>4, <3>1 DEF CreateResolved
    <3>3. QED
      BY <3>1, <3>2, InsertRows
  <2>3. QED
    BY <2>1, <2>2
<1>5. CASE UpdateDeliveryTargets(w)
  <2>1. CASE UNCHANGED rows
    BY <2>1, RowsUntouched
  <2>2. CASE ~UNCHANGED rows
    <3>1. PICK n \in Open : /\ targets' = [targets EXCEPT ![n] = th[w].n]
                            /\ recent' = n
                            /\ UNCHANGED <<st, ack, sil, del>>
      BY <1>5, <2>2 DEF UpdateDeliveryTargets
    <3>2. RowType'
      BY <1>1, <3>1, ThreadIds, NumberFound, NumbersAreIds DEF RowType
    <3>3. QED
      BY <3>1, <3>2, RowsChanged DEF IInv
  <2>3. QED
    BY <2>1, <2>2
<1>6. CASE Intake(w) /\ UNCHANGED rows
  BY <1>6, RowsUntouched
<1>7. CASE WriteResolved(w)
  BY <1>1, <1>7, ThreadIds, ResolveRows DEF WriteResolved
<1>8. CASE WriteAcknowledged(w)
  <2>1. /\ ack' = [ack EXCEPT ![th[w].t] = @ \/ st[th[w].t] # "purged"]
        /\ recent' = IF ack[th[w].t] THEN recent ELSE th[w].t
        /\ UNCHANGED <<st, sil, del, targets>>
    BY <1>8 DEF WriteAcknowledged
  <2>2. ack' \in [Numbers -> BOOLEAN]
    BY <1>1, <2>1 DEF RowType
  <2>3. recent' \in Ids
    BY <1>1, <2>1, ThreadIds DEF RowType
  <2>4. RowType'
    BY <1>1, <2>1, <2>2, <2>3 DEF RowType
  <2>5. QED
    BY <2>1, <2>4, RowsChanged DEF IInv
<1>9. CASE WriteReopened(w)
  <2>1. CASE UNCHANGED rows
    BY <2>1, RowsUntouched
  <2>2. CASE ~UNCHANGED rows
    BY <1>1, <1>9, <2>2, ThreadIds, ReopenRows DEF WriteReopened
  <2>3. QED
    BY <2>1, <2>2
<1>10. CASE ReopenLinked(w)
  <2>1. CASE UNCHANGED rows
    BY <2>1, RowsUntouched
  <2>2. CASE ~UNCHANGED rows
    <3>1. /\ ack' = [ack EXCEPT ![th[w].n] = @ \/ th[w].n \in Open]
          /\ UNCHANGED <<st, sil, del, targets, recent>>
      BY <1>10, <2>2 DEF ReopenLinked, rows
    <3>2. ack' \in [Numbers -> BOOLEAN]
      BY <1>1, <3>1 DEF RowType
    <3>3. RowType'
      BY <1>1, <3>1, <3>2 DEF RowType
    <3>4. QED
      BY <3>1, <3>3, RowsChanged DEF IInv
  <2>3. QED
    BY <2>1, <2>2
<1>11. CASE DeleteAlert(w)
  <2>1. CASE UNCHANGED rows
    BY <2>1, RowsUntouched
  <2>2. CASE ~UNCHANGED rows
    <3>1. /\ del' = [del EXCEPT ![th[w].n] = TRUE]
          /\ recent' = th[w].n
          /\ targets' = [targets EXCEPT ![th[w].n] = 0]
          /\ UNCHANGED <<st, ack, sil>>
      BY <1>11, <2>2 DEF DeleteAlert
    <3>2. RowType'
      BY <1>1, <3>1, ThreadIds, NumbersAreIds DEF RowType
    <3>3. th[w].op = "delete"
      BY <1>11 DEF DeleteAlert, At
    <3>4. st[th[w].n] # "none" /\ th[w].n \in Numbers
      BY <3>3 DEF IInv, Witnessed
    <3>5. QED
      BY <1>1, <3>1, <3>2, <3>4, RowsChanged DEF IInv, RowType
  <2>3. QED
    BY <2>1, <2>2
<1>12. CASE PurgeRow(w)
  <2>1. /\ st' = [st EXCEPT ![th[w].n] = "purged"]
        /\ recent' = IF recent = th[w].n THEN 0 ELSE recent
        /\ targets' = [targets EXCEPT ![th[w].n] = 0]
        /\ UNCHANGED <<ack, sil, del>>
    BY <1>12 DEF PurgeRow
  <2>2. RowType'
    BY <1>1, <2>1, NumbersAreIds DEF RowType
  <2>3. QED
    BY <1>1, <2>1, <2>2, RowsChanged DEF IInv, RowType
<1>13. CASE (Change(w) \/ Removal(w)) /\ UNCHANGED rows
  BY <1>13, RowsUntouched
<1>14. CASE Intake(w)
  BY <1>3, <1>4, <1>5, <1>6, <1>14 DEF Intake, IsDuplicate, VerifyDuplicate, LookupOpen,
     MarkTracked, TriggerCorrelator, ResolvedUnknown
<1>15. CASE Change(w)
  BY <1>7, <1>8, <1>9, <1>10, <1>13, <1>15 DEF Change, SelectAlert, InsertEvent,
     RemoveTracking, UpdateChatPosts, CompleteRead, CompleteWrite
<1>16. CASE Removal(w)
  BY <1>11, <1>12, <1>13, <1>16 DEF Removal, FindAlert, AddCancel, PurgeList, CheckCancelled,
     CreateInvestigation
<1>17. QED
  BY <1>2, <1>14, <1>15, <1>16

LEMMA StepsRows ==
    ASSUME IInv, Steps
    PROVE  RowStep
<1>1. CASE DedupExpires \/ CancelExpires
  BY <1>1, RowsUntouched DEF DedupExpires, CancelExpires
<1>2. QED
  BY <1>1, InsideRows DEF Steps

-----------------------------------------------------------------------------
(* The keys, the investigations and the logs. *)

LEMMA CountStep ==
    ASSUME Types, Fine \/ Fault
    PROVE  faults' \in Nat
  BY DEF Types, RestType, Fine, Fault

\* A step that leaves the timeline alone.
LEMMA RestChanged ==
    ASSUME Types, Fine \/ Fault, UNCHANGED log, tracked' \in BOOLEAN,
           cancel' \subseteq Numbers,
           \/ UNCHANGED inv
           \/ \E n \in Ids, v \in {"queued", "open", "complete", "gone"} :
                 inv' = [inv EXCEPT ![n] = v]
    PROVE  RestType'
  BY CountStep DEF Types, RestType, log

LEMMA InsideRest ==
    ASSUME IInv, NEW w \in Threads,
           Start(w) \/ Abort(w) \/ Skip(w) \/ Intake(w) \/ Change(w) \/ Removal(w)
    PROVE  RestType'
<1>1. Types /\ tracked \in BOOLEAN /\ cancel \subseteq Numbers
  BY DEF IInv, Types, RestType
<1>2. th[w].n \in Ids
  BY <1>1, ThreadIds
<1>3. ASSUME NEW from \in {"none", "queued", "open", "complete", "gone"},
             NEW v \in {"queued", "open", "complete", "gone"},
             inv' = [inv EXCEPT ![th[w].n] = IF @ = from THEN v ELSE @]
      PROVE  \/ UNCHANGED inv
             \/ \E n \in Ids, u \in {"queued", "open", "complete", "gone"} :
                   inv' = [inv EXCEPT ![n] = u]
  <2>1. CASE inv[th[w].n] = from
    BY <1>2, <1>3, <2>1
  <2>2. CASE inv[th[w].n] # from
    BY <1>1, <1>3, <2>2 DEF Types, RestType
  <2>3. QED
    BY <2>1, <2>2
<1>4. ASSUME inv' = [inv EXCEPT ![th[w].n] = IF @ \in {"open", "complete"} THEN "gone" ELSE @]
      PROVE  \/ UNCHANGED inv
             \/ \E n \in Ids, u \in {"queued", "open", "complete", "gone"} :
                   inv' = [inv EXCEPT ![n] = u]
  <2>1. CASE inv[th[w].n] \in {"open", "complete"}
    BY <1>2, <1>4, <2>1
  <2>2. CASE inv[th[w].n] \notin {"open", "complete"}
    BY <1>1, <1>4, <2>2 DEF Types, RestType
  <2>3. QED
    BY <2>1, <2>2
<1>5. CASE Start(w) \/ Abort(w) \/ Skip(w)
  BY <1>1, <1>5, RestChanged DEF Start, Abort, Skip, valkey
<1>6. CASE Intake(w)
  <2>1. CASE TriggerCorrelator(w)
    BY <1>1, <1>2, <2>1, RestChanged DEF TriggerCorrelator, valkey
  <2>2. CASE MarkTracked(w)
    BY <1>1, <2>2, RestChanged DEF MarkTracked
  <2>3. CASE Intake(w) /\ UNCHANGED <<valkey, inv, log>> /\ Fine
    BY <1>1, <2>3, RestChanged DEF valkey
  <2>4. QED
    BY <1>6, <2>1, <2>2, <2>3 DEF Intake, IsDuplicate, VerifyDuplicate, LookupOpen,
       CreateFiring, UpdateDeliveryTargets, ResolvedUnknown, CreateResolved
<1>7. CASE Change(w)
  <2>1. CASE WriteResolved(w)
    <3>1. PICK silenced \in BOOLEAN : Resolve(th[w].t, silenced)
      BY <2>1 DEF WriteResolved
    <3>2. events' \in [Numbers -> Nat] /\ closings' \in [Numbers -> Nat]
      BY <1>1, <3>1 DEF Resolve, Types, RestType, log
    <3>3. QED
      BY <1>1, <2>1, <3>2, CountStep DEF WriteResolved, Types, RestType, valkey
  <2>7. CASE InsertEvent(w)
    <3>1. events' \in [Numbers -> Nat] /\ UNCHANGED closings
      <4>1. \/ UNCHANGED events
            \/ events' = [events EXCEPT ![th[w].t] = @ + 1]
        <5>1. events \in [Numbers -> Nat]
          BY <1>1 DEF Types, RestType
        <5>2. CASE st[th[w].t] = "purged"
          BY <2>7, <5>1, <5>2 DEF InsertEvent
        <5>3. CASE st[th[w].t] # "purged"
          BY <2>7, <5>3 DEF InsertEvent
        <5>4. QED
          BY <5>2, <5>3
      <4>2. UNCHANGED closings
        BY <2>7 DEF InsertEvent
      <4>3. QED
        BY <1>1, <4>1, <4>2 DEF Types, RestType
    <3>2. QED
      BY <1>1, <2>7, <3>1, CountStep DEF InsertEvent, Types, RestType, valkey
  <2>2. CASE ReopenLinked(w)
    BY <1>1, <1>2, <2>2, RestChanged DEF ReopenLinked, valkey
  <2>3. CASE CompleteWrite(w)
    BY <1>1, <1>3, <2>3, RestChanged DEF CompleteWrite, valkey
  <2>4. CASE RemoveTracking(w)
    BY <1>1, <2>4, RestChanged DEF RemoveTracking
  <2>5. CASE Change(w) /\ UNCHANGED <<valkey, inv, log>> /\ Fine
    BY <1>1, <2>5, RestChanged DEF valkey
  <2>8. QED
    BY <1>7, <2>1, <2>2, <2>3, <2>4, <2>5, <2>7 DEF Change, SelectAlert, WriteAcknowledged,
       WriteReopened, UpdateChatPosts, CompleteRead
<1>8. CASE Removal(w)
  <2>1. CASE DeleteAlert(w)
    BY <1>1, <1>4, <2>1, RestChanged DEF DeleteAlert, valkey
  <2>2. CASE AddCancel(w)
    <3>1. th[w].n \in Numbers
      BY <2>2 DEF AddCancel, At, IInv, Witnessed
    <3>2. cancel' \subseteq Numbers
      BY <1>1, <2>2, <3>1 DEF AddCancel
    <3>3. QED
      BY <1>1, <2>2, <3>2, RestChanged DEF AddCancel
  <2>3. CASE PurgeRow(w)
    BY <1>1, <1>4, <2>3, RestChanged DEF PurgeRow, valkey
  <2>4. CASE CheckCancelled(w)
    BY <1>1, <1>3, <2>4, RestChanged DEF CheckCancelled, valkey
  <2>5. CASE CreateInvestigation(w)
    BY <1>1, <1>3, <2>5, RestChanged DEF CreateInvestigation, valkey
  <2>6. CASE PurgeList(w)
    BY <1>1, <2>6, RestChanged DEF PurgeList, valkey
  <2>8. CASE FindAlert(w)
    BY <1>1, <2>8, RestChanged DEF FindAlert, valkey
  <2>9. QED
    BY <1>8, <2>1, <2>2, <2>3, <2>4, <2>5, <2>6, <2>8 DEF Removal
<1>9. QED
  BY <1>5, <1>6, <1>7, <1>8

LEMMA StepsRest ==
    ASSUME IInv, Steps
    PROVE  RestType'
<1>1. Types /\ tracked \in BOOLEAN /\ cancel \subseteq Numbers
  BY DEF IInv, Types, RestType
<1>2. CASE DedupExpires \/ CancelExpires
  BY <1>1, <1>2, RestChanged DEF DedupExpires, CancelExpires
<1>3. QED
  BY <1>2, InsideRest DEF Steps

-----------------------------------------------------------------------------
(* The timeline. *)

\* Apart from WriteResolved and InsertEvent nobody takes up a timeline entry, and
\* only a failure drops one.
EntriesStand ==
    \A v \in Threads :
       /\ th'[v].pc = "entry" => th[v].pc = "entry" /\ th'[v].t = th[v].t
       /\ th[v].pc = "entry" => th'[v] = th[v] \/ faults' # faults

\* A handler that is elsewhere stays elsewhere.
LEMMA ElsewhereStands ==
    ASSUME Types, NEW w \in Threads, th[w].pc # "entry",
           \/ End(w)
           \/ \E pc \in PcNames \ {"entry"} : Goto(w, pc)
           \/ \E pc \in PcNames \ {"entry"}, n \in Ids : With(w, pc, n)
           \/ \E n \in Ids : th' = [th EXCEPT ![w].pc = "write", ![w].t = n]
           \/ \E r \in Handlers : r.pc # "entry" /\ th' = [th EXCEPT ![w] = r]
    PROVE  EntriesStand
<1>1. th \in [Threads -> Handlers]
  BY DEF Types, ThreadType
<1>2. th'[w].pc # "entry"
  BY <1>1, IdleHandler DEF End, Goto, With, Handlers
<1>3. \A v \in Threads \ {w} : th'[v] = th[v]
  BY <1>1 DEF End, Goto, With
<1>4. QED
  BY <1>2, <1>3 DEF EntriesStand

LEMMA InsideEntries ==
    ASSUME IInv, NEW w \in Threads,
           \/ Start(w) \/ Abort(w) \/ Skip(w) \/ Intake(w) \/ Removal(w)
           \/ Change(w) /\ ~WriteResolved(w) /\ ~InsertEvent(w)
    PROVE  EntriesStand
<1> USE DEF IInv
<1>1. /\ th \in [Threads -> Handlers] /\ faults \in Nat
      /\ th[w].n \in Ids /\ th[w].t \in Ids
  BY ThreadIds DEF Types, ThreadType, RestType
<1>2. CASE Abort(w) \/ (Skip(w) /\ th[w].pc = "entry")
  <2>1. faults' # faults /\ th'[w].pc # "entry"
    <3>1. faults' # faults
      BY <1>1, <1>2 DEF Abort, Skip, Fault
    <3>2. End(w) \/ Goto(w, "untrack")
      BY <1>2 DEF Abort, Skip
    <3>3. th'[w] = Idle \/ th'[w] = [th[w] EXCEPT !.pc = "untrack"]
      BY <1>1, <3>2 DEF End, Goto
    <3>4. th'[w].pc # "entry"
      BY <1>1, <3>3, IdleHandler DEF Handlers
    <3>5. QED
      BY <3>1, <3>4
  <2>2. \A v \in Threads \ {w} : th'[v] = th[v]
    BY <1>1, <1>2 DEF Abort, Skip, End, Goto
  <2>3. QED
    BY <2>1, <2>2 DEF EntriesStand
<1>3. CASE Skip(w) /\ th[w].pc # "entry"
  BY <1>3, ElsewhereStands, NumbersAreIds DEF Skip, AfterTrack, PcNames
<1>4. CASE Start(w)
  <2>1. PICK op \in Ops, n \in Numbers :
           /\ th[w] = Idle
           /\ th' = [th EXCEPT ![w] = [op |-> op, pc |-> First(op), n |-> n, t |-> 0]]
    BY <1>4 DEF Start
  <2>2. op \in AllOps
    BY AlertsOps
  <2>3. First(op) \in PcNames \ {"entry"}
    BY <2>2 DEF First, AllOps, PcNames
  <2>4. /\ [op |-> op, pc |-> First(op), n |-> n, t |-> 0] \in Handlers
        /\ [op |-> op, pc |-> First(op), n |-> n, t |-> 0].pc # "entry"
    BY <2>2, <2>3, NumbersAreIds DEF Handlers, OpNames
  <2>5. QED
    BY <2>1, <2>4, IdleHandler, ElsewhereStands
<1>5. CASE Intake(w)
  <2>1. th[w].pc # "entry"
    BY <1>5 DEF Intake, At, IsDuplicate, VerifyDuplicate, LookupOpen, CreateFiring,
       MarkTracked, UpdateDeliveryTargets, TriggerCorrelator, ResolvedUnknown, CreateResolved
  <2>2. CASE IsDuplicate(w) \/ VerifyDuplicate(w) \/ LookupOpen(w)
    BY <2>1, <2>2, ElsewhereStands, NumberFound, NumbersAreIds
       DEF IsDuplicate, VerifyDuplicate, LookupOpen, PcNames
  <2>3. CASE CreateFiring(w) \/ CreateResolved(w)
    BY <2>1, <2>3, ElsewhereStands, NumberFound, NumbersAreIds
       DEF CreateFiring, CreateResolved, PcNames
  <2>4. CASE MarkTracked(w) \/ UpdateDeliveryTargets(w)
    BY <2>1, <2>4, ElsewhereStands DEF MarkTracked, AfterTrack, UpdateDeliveryTargets, PcNames
  <2>5. CASE TriggerCorrelator(w) \/ ResolvedUnknown(w)
    BY <2>1, <2>5, ElsewhereStands DEF TriggerCorrelator, ResolvedUnknown, PcNames
  <2>6. QED
    BY <1>5, <2>2, <2>3, <2>4, <2>5 DEF Intake
<1>6. CASE Change(w) /\ ~WriteResolved(w) /\ ~InsertEvent(w)
  <2>1. th[w].pc # "entry"
    BY <1>6 DEF Change, At, SelectAlert, WriteAcknowledged, WriteReopened, ReopenLinked,
       RemoveTracking, UpdateChatPosts, CompleteRead, CompleteWrite
  <2>2. CASE SelectAlert(w)
    <3>1. Open \subseteq Ids
      BY NumberFound, NumbersAreIds
    <3>2. End(w) \/ \E n \in Ids : th' = [th EXCEPT ![w].pc = "write", ![w].t = n]
      BY <1>1, <2>2, <3>1 DEF SelectAlert
    <3>3. QED
      BY <2>1, <3>2, ElsewhereStands
  <2>3. CASE WriteAcknowledged(w) \/ WriteReopened(w) \/ ReopenLinked(w)
    BY <2>1, <2>3, ElsewhereStands DEF WriteAcknowledged, WriteReopened, ReopenLinked, PcNames
  <2>4. CASE RemoveTracking(w) \/ UpdateChatPosts(w) \/ CompleteRead(w) \/ CompleteWrite(w)
    BY <2>1, <2>4, ElsewhereStands DEF RemoveTracking, UpdateChatPosts, CompleteRead,
       CompleteWrite, PcNames
  <2>5. QED
    BY <1>6, <2>2, <2>3, <2>4 DEF Change
<1>7. CASE Removal(w)
  <2>1. th[w].pc # "entry"
    BY <1>7 DEF Removal, At, FindAlert, DeleteAlert, AddCancel, PurgeList, PurgeRow,
       CheckCancelled, CreateInvestigation
  <2>2. CASE FindAlert(w) \/ DeleteAlert(w) \/ AddCancel(w)
    BY <2>1, <2>2, ElsewhereStands DEF FindAlert, DeleteAlert, AddCancel, PcNames
  <2>3. CASE PurgeList(w) \/ PurgeRow(w) \/ CheckCancelled(w) \/ CreateInvestigation(w)
    BY <2>1, <2>3, ElsewhereStands DEF PurgeList, PurgeRow, CheckCancelled,
       CreateInvestigation, PcNames
  <2>4. QED
    BY <1>7, <2>2, <2>3 DEF Removal
<1>8. QED
  BY <1>2, <1>3, <1>4, <1>5, <1>6, <1>7

LEMMA WritersFinite ==
    \A n : IsFiniteSet(Writers(n)) /\ Cardinality(Writers(n)) \in Nat
<1> SUFFICES ASSUME NEW n PROVE IsFiniteSet(Writers(n)) /\ Cardinality(Writers(n)) \in Nat
  OBVIOUS
<1>1. Writers(n) \subseteq Threads
  BY DEF Writers
<1>2. IsFiniteSet(Writers(n))
  BY <1>1, AlertsThreads, FS_Subset
<1>3. QED
  BY <1>2, FS_CardinalityType

\* A handler takes up an entry when it resolves the row.
LEMMA ResolvedCounted ==
    ASSUME IInv, NEW w \in Threads, WriteResolved(w)
    PROVE  ResolvedOnce'
<1> USE DEF IInv
<1>1. th \in [Threads -> Handlers] /\ th[w].pc = "write" /\ UNCHANGED faults
  BY DEF Types, ThreadType, WriteResolved, At, Fine
<1>2. CASE st[th[w].t] # "firing"
  <2>1. UNCHANGED <<st, events, closings>> /\ Goto(w, "untrack")
    BY <1>2 DEF WriteResolved, Resolve, rows, log
  <2>2. \A n \in Numbers : Writers(n)' = Writers(n)
    BY <1>1, <2>1 DEF Writers, Goto, Handlers
  <2>3. QED
    BY <1>1, <2>1, <2>2 DEF ResolvedOnce
<1>3. CASE st[th[w].t] = "firing"
  <2>1. /\ st' = [st EXCEPT ![th[w].t] = "resolved"]
        /\ closings' = [closings EXCEPT ![th[w].t] = @ + 1]
        /\ UNCHANGED events /\ Goto(w, "entry")
    BY <1>3 DEF WriteResolved, Resolve
  <2>2. SUFFICES ASSUME NEW n \in Numbers
                 PROVE  LET recorded == events[n] + Cardinality(Writers(n)')
                        IN  /\ recorded <= closings'[n]
                            /\ faults = 0 /\ st'[n] # "purged" => recorded = closings'[n]
    BY <1>1, <2>1 DEF ResolvedOnce
  <2>3. CASE n = th[w].t
    <3>1. Writers(n)' = Writers(n) \cup {w} /\ w \notin Writers(n)
      BY <1>1, <2>1, <2>3 DEF Writers, Goto, Handlers
    <3>2. Cardinality(Writers(n)') = Cardinality(Writers(n)) + 1
      BY <3>1, WritersFinite, FS_AddElement
    <3>3. closings'[n] = closings[n] + 1 /\ st[n] # "purged"
      BY <1>3, <2>1, <2>3 DEF Types, RestType
    <3>4. /\ events[n] \in Nat /\ closings[n] \in Nat /\ Cardinality(Writers(n)) \in Nat
          /\ events[n] + Cardinality(Writers(n)) <= closings[n]
          /\ faults = 0 => events[n] + Cardinality(Writers(n)) = closings[n]
      BY <3>3, WritersFinite DEF ResolvedOnce, Types, RestType
    <3>5. QED
      BY <3>2, <3>3, <3>4
  <2>4. CASE n # th[w].t
    <3>1. Writers(n)' = Writers(n)
      BY <1>1, <2>1, <2>4 DEF Writers, Goto, Handlers
    <3>2. closings'[n] = closings[n] /\ st'[n] = st[n]
      BY <2>1, <2>4 DEF Types, RowType, RestType
    <3>3. QED
      BY <3>1, <3>2 DEF ResolvedOnce
  <2>5. QED
    BY <2>3, <2>4
<1>4. QED
  BY <1>2, <1>3

\* ... and is done with it when it is written.
LEMMA InsertedCounted ==
    ASSUME IInv, NEW w \in Threads, InsertEvent(w)
    PROVE  ResolvedOnce'
<1> USE DEF IInv
<1> DEFINE k == th[w].t
<1>1. th \in [Threads -> Handlers] /\ th[w].pc = "entry"
  BY DEF Types, ThreadType, InsertEvent
<1>2. /\ events' = [events EXCEPT ![k] = IF st[k] = "purged" THEN @ ELSE @ + 1]
      /\ UNCHANGED <<st, closings, faults>> /\ Goto(w, "untrack")
  BY DEF InsertEvent, Fine, rows
<1>3. SUFFICES ASSUME NEW n \in Numbers
               PROVE  LET recorded == events'[n] + Cardinality(Writers(n)')
                      IN  /\ recorded <= closings[n]
                          /\ faults = 0 /\ st[n] # "purged" => recorded = closings[n]
  BY <1>2 DEF ResolvedOnce
<1>4. CASE n = k
  <2>1. Writers(n)' = Writers(n) \ {w} /\ w \in Writers(n)
    BY <1>1, <1>2, <1>4 DEF Writers, Goto, Handlers
  <2>2. Cardinality(Writers(n)') = Cardinality(Writers(n)) - 1
    BY <2>1, WritersFinite, FS_RemoveElement
  <2>3. events'[n] = IF st[n] = "purged" THEN events[n] ELSE events[n] + 1
    BY <1>2, <1>4 DEF Types, RestType
  <2>4. /\ events[n] \in Nat /\ closings[n] \in Nat /\ Cardinality(Writers(n)) \in Nat
        /\ events[n] + Cardinality(Writers(n)) <= closings[n]
        /\ faults = 0 /\ st[n] # "purged" =>
              events[n] + Cardinality(Writers(n)) = closings[n]
    BY WritersFinite DEF ResolvedOnce, Types, RestType
  <2>5. QED
    BY <2>2, <2>3, <2>4
<1>5. CASE n # k
  <2>1. Writers(n)' = Writers(n)
    BY <1>1, <1>2, <1>5 DEF Writers, Goto, Handlers
  <2>2. events'[n] = events[n]
    BY <1>2, <1>5 DEF Types, RestType
  <2>3. QED
    BY <2>1, <2>2 DEF ResolvedOnce
<1>6. QED
  BY <1>4, <1>5

LEMMA StepCounted ==
    ASSUME IInv, Steps
    PROVE  ResolvedOnce'
<1> USE DEF IInv
<1>1. CASE \E w \in Threads : WriteResolved(w) \/ InsertEvent(w)
  BY <1>1, ResolvedCounted, InsertedCounted
<1>2. CASE ~\E w \in Threads : WriteResolved(w) \/ InsertEvent(w)
  <2>1. EntriesStand
    <3>1. CASE DedupExpires \/ CancelExpires
      BY <3>1 DEF DedupExpires, CancelExpires, EntriesStand
    <3>2. QED
      BY <1>2, <3>1, InsideEntries DEF Steps
  <2>2. UNCHANGED <<events, closings>>
    BY <1>2 DEF Steps, Start, Abort, Skip, Intake, IsDuplicate, VerifyDuplicate, LookupOpen,
       CreateFiring, MarkTracked, UpdateDeliveryTargets, TriggerCorrelator, ResolvedUnknown,
       CreateResolved, Change, SelectAlert, WriteAcknowledged, WriteReopened, ReopenLinked,
       RemoveTracking, UpdateChatPosts, CompleteRead, CompleteWrite, Removal, FindAlert,
       DeleteAlert, AddCancel, PurgeList, PurgeRow, CheckCancelled, CreateInvestigation,
       DedupExpires, CancelExpires, log
  <2>3. \A n \in Numbers : st[n] = "purged" => st'[n] = "purged"
    BY StepsRows DEF RowStep
  <2>4. faults \in Nat /\ (faults' = faults \/ faults' = faults + 1)
    <3>1. Fine \/ Fault
      BY DEF Steps, Start, Abort, Skip, Intake, IsDuplicate, VerifyDuplicate, LookupOpen,
         CreateFiring, MarkTracked, UpdateDeliveryTargets, TriggerCorrelator,
         ResolvedUnknown, CreateResolved, Change, SelectAlert, WriteResolved, InsertEvent,
         WriteAcknowledged, WriteReopened, ReopenLinked, RemoveTracking, UpdateChatPosts,
         CompleteRead, CompleteWrite, Removal, FindAlert, DeleteAlert, AddCancel, PurgeList,
         PurgeRow, CheckCancelled, CreateInvestigation, DedupExpires, CancelExpires
    <3>2. QED
      BY <3>1 DEF Fine, Fault, Types, RestType
  <2>5. SUFFICES ASSUME NEW n \in Numbers
                 PROVE  LET recorded == events[n] + Cardinality(Writers(n)')
                        IN  /\ recorded <= closings[n]
                            /\ faults' = 0 /\ st'[n] # "purged" => recorded = closings[n]
    BY <2>2 DEF ResolvedOnce
  <2>6. Writers(n)' \subseteq Writers(n) /\ (faults' = 0 => Writers(n)' = Writers(n))
    <3>1. faults' = 0 => faults' = faults
      BY <2>4
    <3>2. QED
      BY <2>1, <3>1 DEF EntriesStand, Writers
  <2>7. /\ Cardinality(Writers(n)') <= Cardinality(Writers(n))
        /\ Cardinality(Writers(n)') \in Nat
    BY <2>6, WritersFinite, FS_Subset, FS_CardinalityType
  <2>8. QED
    BY <2>3, <2>4, <2>6, <2>7, WritersFinite DEF ResolvedOnce, Types, RestType
<1>3. QED
  BY <1>1, <1>2

-----------------------------------------------------------------------------
(* The invariant. *)

LEMMA Remembered ==
    ASSUME Remember, NEW w \in Threads, th'[w] # Idle
    PROVE  /\ th[w] # Idle /\ seen[w] => seen'[w]
           /\ Open' # {} => seen'[w]
  BY DEF Remember

LEMMA StepThreads ==
    ASSUME IInv, Next
    PROVE  ThreadType'
<1>1. seen' \in [Threads -> BOOLEAN]
  BY DEF Next, Remember
<1>2. th \in [Threads -> Handlers] /\ \A w \in Threads : th[w].pc = "idle" => th[w] = Idle
  BY DEF IInv, Types, ThreadType
<1>3. CASE UNCHANGED th
  BY <1>1, <1>2, <1>3 DEF ThreadType
<1>4. ASSUME NEW w \in Threads, NEW r \in Handlers, Move(w, r)
      PROVE  ThreadType'
  <2>1. th' = [th EXCEPT ![w] = r] /\ (r.pc = "idle" => r = Idle)
    BY <1>4 DEF Move
  <2>2. QED
    BY <1>1, <1>2, <2>1 DEF ThreadType
<1>5. QED
  BY <1>3, <1>4, HandlerMoves DEF Next, IInv

LEMMA StepWitnessed ==
    ASSUME IInv, Next
    PROVE  Witnessed'
<1>1. RowStep
  BY StepsRows DEF Next
<1>2. \A n \in Numbers : st'[n] = "none" => ~del'[n]
  BY <1>1 DEF RowStep, IInv, Witnessed
<1>3. ASSUME NEW v \in Threads, th'[v] = th[v]
      PROVE  /\ th'[v].op = "firing" /\ th'[v].pc \notin Early => seen'[v] \/ th'[v].n = 0
             /\ th'[v].op = "delete" => st'[th'[v].n] # "none" /\ th'[v].n \in Numbers
  <2>1. ASSUME th'[v].op = "firing", th'[v].pc \notin Early
        PROVE  seen'[v] \/ th'[v].n = 0
    <3>1. th[v] # Idle
      BY <1>3, <2>1, IdleHandler
    <3>2. seen[v] \/ th[v].n = 0
      BY <1>3, <2>1 DEF IInv, Witnessed
    <3>3. QED
      BY <1>3, <3>1, <3>2, Remembered DEF Next
  <2>2. ASSUME th'[v].op = "delete"
        PROVE  st'[th'[v].n] # "none" /\ th'[v].n \in Numbers
    <3>1. st[th[v].n] # "none" /\ th[v].n \in Numbers
      BY <1>3, <2>2 DEF IInv, Witnessed
    <3>2. QED
      BY <1>1, <1>3, <3>1 DEF RowStep
  <2>3. QED
    BY <2>1, <2>2
<1>4. CASE UNCHANGED th
  BY <1>2, <1>3, <1>4 DEF Witnessed
<1>5. ASSUME NEW w \in Threads, NEW r \in Handlers, Move(w, r)
      PROVE  Witnessed'
  <2>1. /\ th'[w] = r
        /\ \A v \in Threads \ {w} : th'[v] = th[v]
    BY <1>5 DEF Move, IInv, Types, ThreadType
  <2>2. ASSUME r.op = "firing", r.pc \notin Early
        PROVE  seen'[w] \/ r.n = 0
    <3>1. r # Idle
      BY <2>2, IdleHandler
    <3>2. th[w] # Idle /\ th[w].op = "firing"
      BY <1>5, <2>2, <3>1 DEF Move
    <3>3. CASE th[w].pc \in Early
      <4>1. Open' # {} \/ r.n = 0
        BY <1>5, <2>2, <3>1, <3>2, <3>3 DEF Move
      <4>2. QED
        BY <2>1, <3>1, <4>1, Remembered DEF Next
    <3>4. CASE th[w].pc \notin Early
      <4>1. r.n = th[w].n
        BY <1>5, <3>1, <3>2, <3>4 DEF Move
      <4>2. seen[w] \/ th[w].n = 0
        BY <3>2, <3>4 DEF IInv, Witnessed
      <4>3. QED
        BY <2>1, <3>1, <3>2, <4>1, <4>2, Remembered DEF Next
    <3>5. QED
      BY <3>3, <3>4
  <2>3. ASSUME r.op = "delete"
        PROVE  st'[r.n] # "none" /\ r.n \in Numbers
    <3>1. r # Idle
      BY <2>3, IdleHandler
    <3>2. CASE th[w] = Idle
      <4>1. st[r.n] # "none" /\ r.n \in Numbers
        BY <1>5, <2>3, <3>2 DEF Move
      <4>2. QED
        BY <1>1, <4>1 DEF RowStep
    <3>3. CASE th[w] # Idle
      <4>1. th[w].op = "delete" /\ r.n = th[w].n
        BY <1>5, <2>3, <3>1, <3>3 DEF Move
      <4>2. st[r.n] # "none" /\ r.n \in Numbers
        BY <4>1 DEF IInv, Witnessed
      <4>3. QED
        BY <1>1, <4>2 DEF RowStep
    <3>4. QED
      BY <3>2, <3>3
  <2>4. QED
    BY <1>2, <1>3, <2>1, <2>2, <2>3 DEF Witnessed
<1>6. QED
  BY <1>4, <1>5, HandlerMoves DEF Next, IInv

LEMMA InitIInv == Init => IInv
<1> SUFFICES ASSUME Init PROVE IInv
  OBVIOUS
<1>1. RowType
  BY NumbersAreIds DEF Init, RowType
<1>2. ThreadType
  BY IdleHandler DEF Init, ThreadType
<1>3. RestType
  BY DEF Init, RestType
<1>4. Witnessed
  BY IdleHandler DEF Init, Witnessed
<1>5. Single
  <2>1. Open = {} /\ 1 \in Numbers
    BY AlertsBounds DEF Init, Open, Numbers
  <2>2. QED
    BY <2>1 DEF Single
<1>6. ResolvedOnce
  <2>1. \A n : Writers(n) = {}
    BY IdleHandler DEF Init, Writers
  <2>2. QED
    BY <2>1, FS_EmptySet DEF Init, ResolvedOnce
<1>7. QED
  BY <1>1, <1>2, <1>3, <1>4, <1>5, <1>6 DEF IInv, Types

LEMMA NextIInv == IInv /\ [Next]_vars => IInv'
<1>1. ASSUME IInv, Next PROVE IInv'
  <2>1. RowStep /\ RestType' /\ ResolvedOnce'
    BY <1>1, StepsRows, StepsRest, StepCounted DEF Next
  <2>2. QED
    BY <1>1, <2>1, StepThreads, StepWitnessed DEF IInv, Types, RowStep
<1>2. ASSUME IInv, UNCHANGED vars PROVE IInv'
  <2>1. UNCHANGED <<st, ack, sil, del, targets, recent, tracked, cancel, inv, th, seen,
                    events, closings, faults>>
    BY <1>2 DEF vars, rows, valkey, log, count
  <2>2. RowType' /\ ThreadType' /\ RestType'
    BY <1>2, <2>1 DEF IInv, Types, RowType, ThreadType, RestType
  <2>3. Witnessed'
    BY <1>2, <2>1 DEF IInv, Witnessed
  <2>4. Single'
    BY <1>2, <2>1 DEF IInv, Single, Open
  <2>5. ResolvedOnce'
    BY <1>2, <2>1 DEF IInv, ResolvedOnce, Writers
  <2>6. QED
    BY <2>2, <2>3, <2>4, <2>5 DEF IInv, Types
<1>3. QED
  BY <1>1, <1>2

LEMMA AlwaysIInv == Spec => []IInv
  BY InitIInv, NextIInv, PTL DEF Spec

\* The rows, the keys and the handlers keep their types.
THEOREM AlertTypes == Spec => []TypeOK
<1>1. IInv => TypeOK
  BY TypesImply DEF IInv
<1>2. QED
  BY <1>1, AlwaysIInv, PTL

\* One alert of the fingerprint is open at most, whatever handlers race.
THEOREM OneOpenAlert == Spec => []OneOpen
<1>1. ASSUME IInv PROVE OneOpen
  <2>1. PICK n \in Numbers : Open \subseteq {n}
    BY <1>1 DEF IInv, Single
  <2>2. Open = {} \/ Open = {n}
    BY <2>1
  <2>3. Cardinality({}) = 0 /\ Cardinality({n}) = 1
    BY FS_EmptySet, FS_Singleton
  <2>4. QED
    BY <2>2, <2>3 DEF OneOpen
<1>2. QED
  BY <1>1, AlwaysIInv, PTL

\* The timeline of an alert never has more "resolved" entries than the alert had
\* resolutions, whatever handlers race, and as long as no command failed and the
\* alert is not purged none is missing but those a handler is about to write.
THEOREM ResolutionsCountedOnce == Spec => []ResolvedOnce
<1>1. IInv => ResolvedOnce
  BY DEF IInv, ResolvedOnce
<1>2. QED
  BY <1>1, AlwaysIInv, PTL

\* A firing notification is answered only if an alert was open meanwhile.
THEOREM FiringNeverSwallowed == Spec => FiringIsRecorded
<1> DEFINE Recorded ==
        \A w \in Threads :
            (th[w].op = "firing" /\ th'[w] = Idle /\ UNCHANGED faults)
                => (seen[w] \/ Open # {} \/ th[w].n = 0)
<1>1. ASSUME IInv, Next PROVE Recorded
  <2> SUFFICES ASSUME NEW w \in Threads,
                      th[w].op = "firing", th'[w] = Idle, UNCHANGED faults
               PROVE  seen[w] \/ Open # {} \/ th[w].n = 0
    OBVIOUS
  <2>1. CASE th[w].pc \notin Early
    BY <1>1, <2>1 DEF IInv, Witnessed
  <2>2. CASE th[w].pc \in Early
    <3>1. ~UNCHANGED th
      BY IdleHandler
    <3>2. PICK v \in Threads : \E r \in Handlers : Move(v, r)
      BY <1>1, <3>1, HandlerMoves DEF Next, IInv
    <3>3. PICK r \in Handlers : Move(v, r)
      BY <3>2
    <3>4. v = w /\ r = Idle
      BY <1>1, <3>3, IdleHandler DEF Move, IInv, Types, ThreadType
    <3>5. QED
      BY <2>2, <3>3, <3>4 DEF Move
  <2>3. QED
    BY <2>1, <2>2
<1>2. IInv /\ [Next]_vars => [Recorded]_vars
  BY <1>1
<1>3. QED
  BY <1>2, AlwaysIInv, PTL DEF Spec, FiringIsRecorded
=============================================================================
