------------------------- MODULE MCInvestigateQueue -------------------------
(***************************************************************************)
(* InvestigateQueue for TLC.  A liveness property is checked, so there is  *)
(* no symmetry.                                                            *)
(***************************************************************************)
EXTENDS InvestigateQueue
=============================================================================
