------------------------------- MODULE MCGprs -------------------------------
(***************************************************************************)
(* Two turns stand for the code's many: enough for a call to fail, to be   *)
(* answered late, and to be given up.                                      *)
(***************************************************************************)
EXTENDS Gprs
=============================================================================
