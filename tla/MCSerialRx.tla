----------------------------- MODULE MCSerialRx -----------------------------
(***************************************************************************)
(* A buffer of a few cells and reads shorter, equal and longer than it.    *)
(***************************************************************************)
EXTENDS SerialRx
=============================================================================
