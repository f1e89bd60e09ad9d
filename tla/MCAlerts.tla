------------------------------ MODULE MCAlerts ------------------------------
\* Instances of Alerts for model checking.
EXTENDS Alerts, TLC
MCSymmetry == Permutations(Threads)
=============================================================================
