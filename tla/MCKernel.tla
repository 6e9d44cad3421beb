------------------------------ MODULE MCKernel ------------------------------
(***************************************************************************)
(* main, the two threads of the dispensing core, the GPRS thread and idle, *)
(* with the priorities of the code (10, 29, 30, and 31 for the last two,   *)
(* which share the processor by slices).                                   *)
(***************************************************************************)
EXTENDS Kernel

CONSTANTS main, waterout, android, gprs, idle

Threads      == {main, waterout, android, gprs, idle}
Priorities   == {10, 29, 30, 31}
Urgencies    == [t \in Threads |-> IF t = main THEN 10 ELSE IF t = waterout THEN 29
                                   ELSE IF t = android THEN 30 ELSE 31]
Slices       == [t \in Threads |-> IF t = idle THEN 2 ELSE 1]
Starts       == <<android, waterout, gprs>>
=============================================================================
