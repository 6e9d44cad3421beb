---------------------------- MODULE MCTankControl ----------------------------
(***************************************************************************)
(* A tank of a few units, with air between the probes and above them.      *)
(***************************************************************************)
EXTENDS TankControl
=============================================================================
