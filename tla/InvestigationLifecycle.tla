----------------------- MODULE InvestigationLifecycle -----------------------
(***************************************************************************)
(* What the status column of an alert investigation promises, whoever      *)
(* writes it: the edges of its life cycle and nothing else.  The statuses  *)
(* and the two classes of them are those of store/investigation_shared.go; *)
(* AlertInvestigation, with all its writers, is shown to implement this.   *)
(***************************************************************************)
CONSTANT Invs   \* investigations

VARIABLE status \* status[i]; "none" before the row exists

Working == {"assigned", "investigating"}
Open == Working \cup {"pending", "paused"}

\* InvestigationTerminalStatuses.
Terminal == {"complete", "failed", "cancelled", "timed_out", "promoted"}

Statuses == {"none"} \cup Open \cup Terminal

LInit == status = [i \in Invs |-> "none"]

\* A row is inserted pending.
Insert(i) ==
    /\ status[i] = "none"
    /\ status' = [status EXCEPT ![i] = "pending"]

\* Only a pending row is claimed.
Take(i) ==
    /\ status[i] = "pending"
    /\ status' = [status EXCEPT ![i] = "assigned"]

\* An agent starts what was assigned, and pauses what it works on.
Start(i) ==
    /\ status[i] = "assigned"
    /\ status' = [status EXCEPT ![i] = "investigating"]

Suspend(i) ==
    /\ status[i] = "investigating"
    /\ status' = [status EXCEPT ![i] = "paused"]

\* One sweep takes work back from any number of agents; a paused row is never
\* taken back, nor is one that is over.
TakeBack ==
    \E S \in SUBSET {i \in Invs : status[i] \in Working} :
        status' = [i \in Invs |-> IF i \in S THEN "pending" ELSE status[i]]

\* Completion ends any open row, cancellation only work in progress.
Finish(i) ==
    \/ status[i] \in Open /\ status' = [status EXCEPT ![i] = "complete"]
    \/ status[i] \in Working /\ status' = [status EXCEPT ![i] = "cancelled"]

\* The two writes without a guard: promotion and the end of all attempts.
Close(i) ==
    /\ status[i] # "none"
    /\ \E s \in {"promoted", "timed_out"} : status' = [status EXCEPT ![i] = s]

\* Only a row that is over, or paused, is brought back.
Reopen(i) ==
    /\ status[i] \in Terminal \cup {"paused"}
    /\ \E s \in {"investigating", "pending"} :
          status' = [status EXCEPT ![i] = s]

LNext ==
    \/ TakeBack
    \/ \E i \in Invs :
          \/ Insert(i) \/ Take(i) \/ Start(i) \/ Suspend(i)
          \/ Finish(i) \/ Close(i) \/ Reopen(i)

Lifecycle == LInit /\ [][LNext]_status
=============================================================================
