---------------------------- MODULE AtLeastOnce ----------------------------
(***************************************************************************)
(* What the asynchronous intake of alerts promises: a notification whose   *)
(* sender was told that it is queued is owed until it is processed (then   *)
(* for good, perhaps more than once) or parked where an operator sees it.  *)
(* It never becomes unknown again.  It may be lost, but only after more    *)
(* than Limit attempts to process it have failed.                          *)
(***************************************************************************)
EXTENDS Naturals

CONSTANTS Events, Limit

VARIABLES state,  \* "unknown", "owed", "processed", "parked" or "lost", by event
          told,   \* told[e]: the sender has its 202
          tries   \* failed attempts to process e, counted up to Limit + 1

promise == <<state, told, tries>>

Init ==
    /\ state = [e \in Events |-> "unknown"]
    /\ told = [e \in Events |-> FALSE]
    /\ tries = [e \in Events |-> 0]

\* The event is stored or sent on; a parked or lost one may turn up again.
Take(e) ==
    /\ state[e] \in {"unknown", "parked", "lost"}
    /\ state' = [state EXCEPT ![e] = "owed"]
    /\ UNCHANGED <<told, tries>>

Process(e) ==
    /\ state[e] # "processed"
    /\ state' = [state EXCEPT ![e] = "processed"]
    /\ UNCHANGED <<told, tries>>

Park(e) ==
    /\ state[e] \notin {"processed", "parked"}
    /\ state' = [state EXCEPT ![e] = "parked"]
    /\ UNCHANGED <<told, tries>>

Fail(e) ==
    /\ state[e] \notin {"unknown", "lost"}
    /\ tries[e] <= Limit
    /\ tries' = [tries EXCEPT ![e] = @ + 1]
    /\ UNCHANGED <<state, told>>

Lose(e) ==
    /\ state[e] \in {"owed", "parked"}
    /\ tries[e] > Limit
    /\ state' = [state EXCEPT ![e] = "lost"]
    /\ UNCHANGED <<told, tries>>

Tell(e) ==
    /\ state[e] # "unknown"
    /\ told' = [told EXCEPT ![e] = TRUE]
    /\ UNCHANGED <<state, tries>>

Next ==
    \E e \in Events :
        Take(e) \/ Process(e) \/ Park(e) \/ Fail(e) \/ Lose(e) \/ Tell(e)

Spec == Init /\ [][Next]_promise
=============================================================================
