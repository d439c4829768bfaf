---------------------------- MODULE TurnStatusMC ----------------------------
(* TLC instance of TurnStatus: it has no parameters. *)
EXTENDS TurnStatus
=============================================================================
