-------------------------- MODULE LeaderLeaseProofs --------------------------
(***************************************************************************)
(* Proofs about LeaderLease, for every set of replicas and loops and every *)
(* TTL.                                                                    *)
(***************************************************************************)
EXTENDS LeaderLease, TLAPS

USE HomeAssumption, FlagLoopsAssumption, TTLAssumption, OwnersAssumption

\* Every step keeps the types of the lease and of the loops.
LEMMA TypeStep == TypeOK /\ [Next]_vars => TypeOK'
<1> SUFFICES ASSUME TypeOK, [Next]_vars PROVE TypeOK'
    OBVIOUS
<1> USE DEF TypeOK, Steps, Replies
<1>1. ASSUME NEW l \in Loops, LoopStep(l) PROVE TypeOK'
  <2>1. CASE CheckFlag(l) BY <2>1 DEF CheckFlag
  <2>2. CASE StartOnFlag(l) BY <2>2 DEF StartOnFlag
  <2>3. CASE RenewExec(l) BY <2>3 DEF RenewExec
  <2>4. CASE RenewError(l) BY <2>4 DEF RenewError
  <2>5. CASE RenewReturn(l) BY <2>5 DEF RenewReturn
  <2>6. CASE AcquireExec(l) BY <2>6 DEF AcquireExec
  <2>7. CASE AcquireError(l) BY <2>7 DEF AcquireError
  <2>8. CASE AcquireReturn(l) BY <2>8 DEF AcquireReturn
  <2>9. CASE FinishPass(l) BY <2>9 DEF FinishPass
  <2> QED BY <1>1, <2>1, <2>2, <2>3, <2>4, <2>5, <2>6, <2>7, <2>8, <2>9
          DEF LoopStep
<1>2. ASSUME NEW r \in Replicas, Stop(r) PROVE TypeOK'
    BY <1>2 DEF Stop
<1>3. ASSUME NEW r \in Replicas, Crash(r) PROVE TypeOK'
    BY <1>3 DEF Crash
<1>4. CASE Tick
    BY <1>4 DEF Tick
<1>5. CASE UNCHANGED vars
    BY <1>5 DEF vars
<1> QED BY <1>1, <1>2, <1>3, <1>4, <1>5 DEF Next

\* The lease keeps its types for any replicas, loops and TTL.
THEOREM TypeCorrect == Spec => []TypeOK
<1>1. Init => TypeOK
    BY DEF Init, TypeOK, Steps, Replies
<1> QED BY <1>1, TypeStep, PTL DEF Spec

\* A live grant stays backed by the key: only its own replica can be granted
\* while the key is there, and time wears both down together.
LEMMA BackedStep ==
    TypeOK /\ GrantBacked /\ [Next]_vars => GrantBacked'
<1> SUFFICES ASSUME TypeOK, GrantBacked, [Next]_vars PROVE GrantBacked'
    OBVIOUS
<1> USE DEF TypeOK, GrantBacked
<1>1. ASSUME NEW l \in Loops, LoopStep(l) PROVE GrantBacked'
  <2>1. CASE CheckFlag(l) BY <2>1 DEF CheckFlag
  <2>2. CASE StartOnFlag(l) BY <2>2 DEF StartOnFlag
  <2>3. CASE RenewExec(l) BY <2>3 DEF RenewExec
  <2>4. CASE RenewError(l) BY <2>4 DEF RenewError
  <2>5. CASE RenewReturn(l) BY <2>5 DEF RenewReturn
  <2>6. CASE AcquireExec(l) BY <2>6 DEF AcquireExec
  <2>7. CASE AcquireError(l) BY <2>7 DEF AcquireError
  <2>8. CASE AcquireReturn(l) BY <2>8 DEF AcquireReturn
  <2>9. CASE FinishPass(l) BY <2>9 DEF FinishPass
  <2> QED BY <1>1, <2>1, <2>2, <2>3, <2>4, <2>5, <2>6, <2>7, <2>8, <2>9
          DEF LoopStep
<1>2. ASSUME NEW r \in Replicas, Stop(r) PROVE GrantBacked'
    BY <1>2 DEF Stop, LoopsOf
<1>3. ASSUME NEW r \in Replicas, Crash(r) PROVE GrantBacked'
    BY <1>3 DEF Crash
<1>4. CASE Tick
    BY <1>4 DEF Tick
<1>5. CASE UNCHANGED vars
    BY <1>5 DEF vars
<1> QED BY <1>1, <1>2, <1>3, <1>4, <1>5 DEF Next

\* While the lease that admitted a pass has life left, the key is its replica's
\* and lives at least as long, and the pass is running or about to.
THEOREM GrantsAlwaysBacked == Spec => []GrantBacked
<1>1. Init => TypeOK /\ GrantBacked
    BY DEF Init, TypeOK, Steps, Replies, GrantBacked
<1> QED BY <1>1, TypeStep, BackedStep, PTL DEF Spec

\* The lease's promise: while the lease that admitted a pass has life left, no
\* pass of another replica was admitted, whatever answers are lost, however
\* late they are handled, and whichever process dies.
THEOREM LeaseExclusion == Spec => []GrantsExclusive
<1>1. Init => TypeOK /\ GrantBacked
    BY DEF Init, TypeOK, Steps, Replies, GrantBacked
<1>2. TypeOK /\ GrantBacked => GrantsExclusive
    BY DEF TypeOK, GrantBacked, GrantsExclusive
<1> QED BY <1>1, <1>2, TypeStep, BackedStep, PTL DEF Spec

\* No replica ends another's lease: the key leaves its owner by expiry or with
\* the owner's own process, because renewal and release compare identities and
\* SET NX never overwrites.
THEOREM LeaseNotStolen == Spec => NoTheft
<1> DEFINE Kept(r) ==
        owner = r /\ owner' # r =>
            \/ ttl = 1 /\ ttl' = 0
            \/ ~held'[r] /\ \A l \in LoopsOf(r) : pc'[l] = "idle"
<1>1. TypeOK /\ [Next]_vars => [\A r \in Replicas : Kept(r)]_vars
  <2> SUFFICES ASSUME TypeOK, Next, NEW r \in Replicas PROVE Kept(r)
      OBVIOUS
  <2> USE DEF TypeOK
  <2>1. ASSUME NEW l \in Loops, LoopStep(l) PROVE Kept(r)
      BY <2>1 DEF LoopStep, CheckFlag, StartOnFlag, RenewExec, RenewError,
                  RenewReturn, AcquireExec, AcquireError, AcquireReturn,
                  FinishPass
  <2>2. ASSUME NEW q \in Replicas, Stop(q) PROVE Kept(r)
      BY <2>2 DEF Stop
  <2>3. ASSUME NEW q \in Replicas, Crash(q) PROVE Kept(r)
      BY <2>3 DEF Crash, LoopsOf
  <2>4. CASE Tick
      BY <2>4 DEF Tick
  <2> QED BY <2>1, <2>2, <2>3, <2>4 DEF Next
<1> QED BY <1>1, TypeCorrect, PTL DEF Spec, NoTheft
=============================================================================
