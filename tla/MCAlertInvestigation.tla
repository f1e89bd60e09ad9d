------------------------ MODULE MCAlertInvestigation ------------------------
(***************************************************************************)
(* AlertInvestigation for TLC: every agent fits every investigation.       *)
(***************************************************************************)
EXTENDS AlertInvestigation, TLC

EveryAgent == [i \in Invs |-> Agents]

Symmetry == Permutations(Invs) \cup Permutations(Agents) \cup Permutations(Replicas)
=============================================================================
