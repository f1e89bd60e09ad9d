-------------------------- MODULE IncidentLifecycle --------------------------
(***************************************************************************)
(* The statuses of an incident and the two tables that rule them: the      *)
(* transitions the lifecycle declares valid, and the sources and target    *)
(* each action hands to TransitionIncidentStatus.                          *)
(***************************************************************************)

Statuses == {"detected", "triaging", "active", "mitigated", "resolved", "closed",
             "cancelled"}

validTransitions ==
    [s \in Statuses |->
        CASE s = "detected"  -> {"triaging", "active", "cancelled"}
          [] s = "triaging"  -> {"active", "cancelled"}
          [] s = "active"    -> {"mitigated", "resolved", "cancelled"}
          [] s = "mitigated" -> {"resolved", "active"}
          [] s = "resolved"  -> {"closed", "active"}
          [] s = "closed"    -> {"active"}
          [] s = "cancelled" -> {}]

ActionSources(action) ==
    CASE action \in {"acknowledge", "begin-triage"} -> {"detected"}
      [] action = "promote"  -> {"triaging"}
      [] action = "mitigate" -> {"active"}
      [] action = "resolve"  -> {"active", "mitigated"}
      [] action = "close"    -> {"resolved"}
      [] action = "reopen"   -> {"mitigated", "resolved", "closed"}
      [] action = "cancel"   -> {"detected", "triaging", "active"}

ActionTarget(action) ==
    CASE action \in {"acknowledge", "promote", "reopen"} -> "active"
      [] action = "begin-triage" -> "triaging"
      [] action = "mitigate" -> "mitigated"
      [] action = "resolve"  -> "resolved"
      [] action = "close"    -> "closed"
      [] action = "cancel"   -> "cancelled"

Transitions == {"acknowledge", "begin-triage", "promote", "mitigate", "resolve",
                "close", "reopen", "cancel"}

\* No escalation level pages anybody for an incident in one of these.
IsTerminalIncidentStatus(s) == s \in {"resolved", "closed", "cancelled"}

\* The statuses ListSLAEligibleIncidents selects.
SLAEligible == {"detected", "triaging", "active", "mitigated"}
=============================================================================
