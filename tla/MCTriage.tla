------------------------------ MODULE MCTriage ------------------------------
(* Instances of Correlator with Triage for model checking. *)
EXTENDS Triage, TLC
MCModes == [windowed : BOOLEAN, triage : BOOLEAN]
MCSymmetry == Permutations(Flushers) \cup Permutations(Alerts)
=============================================================================
