--------------------------- MODULE MCAlertOutbox ---------------------------
(***************************************************************************)
(* AlertOutbox for TLC: the constants are in the configuration.            *)
(***************************************************************************)
EXTENDS AlertOutbox
=============================================================================
