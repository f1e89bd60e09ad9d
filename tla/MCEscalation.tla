---------------------------- MODULE MCEscalation ----------------------------
(* Instances of Escalation for model checking. *)
EXTENDS Escalation

CONSTANTS c1, c2, s1, s2, w1, w2
=============================================================================
