----------------------- MODULE MCIncidentInvestigation -----------------------
(* Instances of IncidentInvestigation for model checking. *)
EXTENDS IncidentInvestigation

CONSTANTS v1, v2, a1, r1, r2
=============================================================================
