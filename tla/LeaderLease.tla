----------------------------- MODULE LeaderLease -----------------------------
(***************************************************************************)
(* The scheduler's leader lease: one Valkey key with a TTL, taken with     *)
(* SET NX EX and renewed or released by scripts that compare the key with  *)
(* the caller's identity (valkey/leader.go), and the goroutines of every   *)
(* replica that ask for it before a pass (worker/scheduler.go).            *)
(*                                                                         *)
(* A replica runs several loops over ONE LeaderLease value, so the `held'  *)
(* flag is shared, while every command is a network round trip: it runs in *)
(* Valkey at one moment and its answer is recorded in `held' at a later    *)
(* one.  Time is the remaining life of the key, which Tick wears down.     *)
(***************************************************************************)
EXTENDS Naturals

CONSTANTS Replicas,   \* backend processes
          Loops,      \* their scheduler goroutines
          Home,       \* the replica a loop belongs to
          FlagLoops,  \* loops that only look at `held': handoff and summary
          TTL,        \* SCHEDULER_LEADER_TTL, in ticks
          NoOne,      \* the key does not exist
          Ghost       \* the key holds the identity of a process that is gone

ASSUME HomeAssumption == Home \in [Loops -> Replicas]
ASSUME FlagLoopsAssumption == FlagLoops \subseteq Loops
ASSUME TTLAssumption == TTL \in Nat \ {0}
ASSUME OwnersAssumption == /\ NoOne \notin Replicas
                           /\ Ghost \notin Replicas
                           /\ NoOne # Ghost

VARIABLES
    owner,  \* value of the key
    ttl,    \* its remaining life; 0 when the key does not exist
    held,   \* held[r]: the flag of r's LeaderLease
    pc,     \* pc[l]: where loop l stands
    reply,  \* reply[l]: answer of l's last command
    grant   \* grant[l]: life left in the lease that let l into its pass (a
            \* history variable; no code reads it)

vars == <<owner, ttl, held, pc, reply, grant>>

Steps == {"idle", "renew", "renewed", "acquire", "acquired", "work"}
Replies == {"none", "ok", "no", "err"}

TypeOK ==
    /\ owner \in Replicas \cup {NoOne, Ghost}
    /\ ttl \in 0..TTL
    /\ held \in [Replicas -> BOOLEAN]
    /\ pc \in [Loops -> Steps]
    /\ reply \in [Loops -> Replies]
    /\ grant \in [Loops -> 0..TTL]

Init ==
    /\ owner = NoOne
    /\ ttl = 0
    /\ held = [r \in Replicas |-> FALSE]
    /\ pc = [l \in Loops |-> "idle"]
    /\ reply = [l \in Loops |-> "none"]
    /\ grant = [l \in Loops |-> 0]

Checked == Loops \ FlagLoops

(***************************************************************************)
(* acquireLeadership: try renewal when the flag says this replica leads,   *)
(* else (or when renewal fails) a fresh acquire.                           *)
(***************************************************************************)
CheckFlag(l) ==
    /\ l \in Checked
    /\ pc[l] = "idle"
    /\ pc' = [pc EXCEPT ![l] = IF held[Home[l]] THEN "renew" ELSE "acquire"]
    /\ UNCHANGED <<owner, ttl, held, reply, grant>>

\* handoffTick and summarySweepTick start their pass on the flag alone.
StartOnFlag(l) ==
    /\ l \in FlagLoops
    /\ pc[l] = "idle"
    /\ held[Home[l]]
    /\ pc' = [pc EXCEPT ![l] = "work"]
    /\ UNCHANGED <<owner, ttl, held, reply, grant>>

\* Mutant of RenewExec: EXPIRE without comparing the identity.
RenewUnfenced(l) ==
    /\ pc[l] = "renew"
    /\ ttl' = IF owner = NoOne THEN ttl ELSE TTL
    /\ reply' = [reply EXCEPT ![l] = IF owner = NoOne THEN "no" ELSE "ok"]
    /\ grant' = [grant EXCEPT ![l] = IF owner = NoOne THEN 0 ELSE TTL]
    /\ pc' = [pc EXCEPT ![l] = "renewed"]
    /\ UNCHANGED <<owner, held>>

\* Mutant of RenewExec: the TTL is added to what is left.
RenewAccumulates(l) ==
    /\ pc[l] = "renew"
    /\ LET mine == owner = Home[l]
       IN  /\ ttl' = IF mine THEN ttl + TTL ELSE ttl
           /\ reply' = [reply EXCEPT ![l] = IF mine THEN "ok" ELSE "no"]
           /\ grant' = [grant EXCEPT ![l] = IF mine THEN TTL ELSE 0]
    /\ pc' = [pc EXCEPT ![l] = "renewed"]
    /\ UNCHANGED <<owner, held>>

\* The renew script in Valkey: EXPIRE iff the key still holds our identity.
RenewExec(l) ==
    /\ pc[l] = "renew"
    /\ LET mine == owner = Home[l]
       IN  /\ ttl' = IF mine THEN TTL ELSE ttl
           /\ reply' = [reply EXCEPT ![l] = IF mine THEN "ok" ELSE "no"]
           /\ grant' = [grant EXCEPT ![l] = IF mine THEN TTL ELSE 0]
    /\ pc' = [pc EXCEPT ![l] = "renewed"]
    /\ UNCHANGED <<owner, held>>

\* The script fails, or its answer is lost after it ran.
RenewError(l) ==
    /\ pc[l] = "renew"
    /\ ttl' \in IF owner = Home[l] THEN {ttl, TTL} ELSE {ttl}
    /\ reply' = [reply EXCEPT ![l] = "err"]
    /\ pc' = [pc EXCEPT ![l] = "renewed"]
    /\ UNCHANGED <<owner, held, grant>>

\* Renew returns: `held' is set from the answer, and left alone on an error.
RenewReturn(l) ==
    /\ pc[l] = "renewed"
    /\ held' = IF reply[l] = "err" THEN held
               ELSE [held EXCEPT ![Home[l]] = reply[l] = "ok"]
    /\ pc' = [pc EXCEPT ![l] = IF reply[l] = "ok" THEN "work" ELSE "acquire"]
    /\ UNCHANGED <<owner, ttl, reply, grant>>

\* Mutant of AcquireExec: SET EX without NX.
AcquireOverwrites(l) ==
    /\ pc[l] = "acquire"
    /\ owner' = Home[l]
    /\ ttl' = TTL
    /\ reply' = [reply EXCEPT ![l] = "ok"]
    /\ grant' = [grant EXCEPT ![l] = TTL]
    /\ pc' = [pc EXCEPT ![l] = "acquired"]
    /\ UNCHANGED held

\* Mutant of AcquireExec: SET NX without EX, a key that never expires.
AcquireWithoutExpiry(l) ==
    /\ pc[l] = "acquire"
    /\ owner' = IF owner = NoOne THEN Home[l] ELSE owner
    /\ reply' = [reply EXCEPT ![l] = IF owner = NoOne THEN "ok" ELSE "no"]
    /\ pc' = [pc EXCEPT ![l] = "acquired"]
    /\ UNCHANGED <<ttl, held, grant>>

\* SET NX EX in Valkey.
AcquireExec(l) ==
    /\ pc[l] = "acquire"
    /\ LET free == owner = NoOne
       IN  /\ owner' = IF free THEN Home[l] ELSE owner
           /\ ttl' = IF free THEN TTL ELSE ttl
           /\ reply' = [reply EXCEPT ![l] = IF free THEN "ok" ELSE "no"]
           /\ grant' = [grant EXCEPT ![l] = IF free THEN TTL ELSE 0]
    /\ pc' = [pc EXCEPT ![l] = "acquired"]
    /\ UNCHANGED held

AcquireError(l) ==
    /\ pc[l] = "acquire"
    /\ \/ UNCHANGED <<owner, ttl>>
       \/ owner = NoOne /\ owner' = Home[l] /\ ttl' = TTL
    /\ reply' = [reply EXCEPT ![l] = "err"]
    /\ pc' = [pc EXCEPT ![l] = "acquired"]
    /\ UNCHANGED <<held, grant>>

\* Acquire returns: a nil answer clears the flag, an error leaves it alone.
AcquireReturn(l) ==
    /\ pc[l] = "acquired"
    /\ held' = IF reply[l] = "err" THEN held
               ELSE [held EXCEPT ![Home[l]] = reply[l] = "ok"]
    /\ pc' = [pc EXCEPT ![l] = IF reply[l] = "ok" THEN "work" ELSE "idle"]
    /\ UNCHANGED <<owner, ttl, reply, grant>>

\* The pass ends: a tick, a sweep or a prune, bounded only by its own timeouts.
FinishPass(l) ==
    /\ pc[l] = "work"
    /\ pc' = [pc EXCEPT ![l] = "idle"]
    /\ grant' = [grant EXCEPT ![l] = 0]
    /\ UNCHANGED <<owner, ttl, held, reply>>

(***************************************************************************)
(* The process.                                                            *)
(***************************************************************************)
LoopsOf(r) == {l \in Loops : Home[l] = r}

\* Mutant of Stop: DEL without comparing the identity.
StopUnfenced(r) ==
    /\ \A l \in LoopsOf(r) : pc[l] = "idle"
    /\ owner' = NoOne
    /\ ttl' = 0
    /\ held' = [held EXCEPT ![r] = FALSE]
    /\ UNCHANGED <<pc, reply, grant>>

\* Stop waits for every loop, releases the lease with a fenced DEL whose error
\* is ignored, and exits; the process that replaces it has a new identity.
Stop(r) ==
    /\ \A l \in LoopsOf(r) : pc[l] = "idle"
    /\ \/ owner = r /\ owner' = NoOne /\ ttl' = 0
       \/ owner = r /\ owner' = Ghost /\ UNCHANGED ttl
       \/ owner # r /\ UNCHANGED <<owner, ttl>>
    /\ held' = [held EXCEPT ![r] = FALSE]
    /\ UNCHANGED <<pc, reply, grant>>

\* The process dies between any two steps and is started again.
Crash(r) ==
    /\ owner' = IF owner = r THEN Ghost ELSE owner
    /\ held' = [held EXCEPT ![r] = FALSE]
    /\ pc' = [l \in Loops |-> IF Home[l] = r THEN "idle" ELSE pc[l]]
    /\ reply' = [l \in Loops |-> IF Home[l] = r THEN "none" ELSE reply[l]]
    /\ grant' = [l \in Loops |-> IF Home[l] = r THEN 0 ELSE grant[l]]
    /\ UNCHANGED ttl

\* One tick of time: Valkey drops the key when its life is over.
Tick ==
    /\ ttl > 0
    /\ ttl' = ttl - 1
    /\ owner' = IF ttl = 1 THEN NoOne ELSE owner
    /\ grant' = [l \in Loops |-> IF grant[l] = 0 THEN 0 ELSE grant[l] - 1]
    /\ UNCHANGED <<held, pc, reply>>

LoopStep(l) ==
    \/ CheckFlag(l) \/ StartOnFlag(l)
    \/ RenewExec(l) \/ RenewError(l) \/ RenewReturn(l)
    \/ AcquireExec(l) \/ AcquireError(l) \/ AcquireReturn(l)
    \/ FinishPass(l)

Next ==
    \/ \E l \in Loops : LoopStep(l)
    \/ \E r \in Replicas : Stop(r) \/ Crash(r)
    \/ Tick

Spec == Init /\ [][Next]_vars

(***************************************************************************)
(* Fairness: tickers fire, a command that stays pending is run, a return   *)
(* is handled, passes end (each has a timeout) and time passes.  Nothing   *)
(* obliges a process to crash or to stop.                                  *)
(***************************************************************************)
Fairness ==
    /\ WF_vars(Tick)
    /\ \A l \in Loops :
          /\ WF_vars(CheckFlag(l))
          /\ WF_vars(RenewReturn(l))
          /\ WF_vars(AcquireReturn(l))
          /\ WF_vars(FinishPass(l))
          /\ WF_vars(RenewExec(l))
          /\ WF_vars(AcquireExec(l))

FairSpec == Spec /\ Fairness

-----------------------------------------------------------------------------
(***************************************************************************)
(* Properties.                                                             *)
(***************************************************************************)

\* As long as the lease that let a pass in has not run out, no pass of another
\* replica was let in: what the TTL and the fenced scripts buy.
GrantsExclusive ==
    \A l, m \in Loops :
        grant[l] > 0 /\ grant[m] > 0 => Home[l] = Home[m]

\* A live grant is backed by the key, which lives at least as long, and only a
\* loop in its pass, or about to enter it, has one.
GrantBacked ==
    \A l \in Loops :
        grant[l] > 0 =>
            /\ owner = Home[l]
            /\ grant[l] <= ttl
            /\ \/ pc[l] = "work"
               \/ pc[l] \in {"renewed", "acquired"} /\ reply[l] = "ok"

\* No replica ends another's lease: a key leaves its owner when it expires or
\* when the owner's process stops or dies.
NoTheft ==
    [][\A r \in Replicas :
          owner = r /\ owner' # r =>
              \/ ttl = 1 /\ ttl' = 0
              \/ ~held'[r] /\ \A l \in LoopsOf(r) : pc'[l] = "idle"]_vars

\* From here on no process stops or dies and every command is answered.
Quiet ==
    [][/\ \A r \in Replicas : ~Stop(r) /\ ~Crash(r)
       /\ \A l \in Loops : ~RenewError(l) /\ ~AcquireError(l)]_vars

\* Leadership never dies with its holder: whatever crashes, lost answers and
\* loops of one replica clearing each other's flag came before, once the
\* failures stop passes are admitted again and again.
PassesKeepComing ==
    <>Quiet => []<>(\E l \in Checked : pc[l] = "work")
=============================================================================
