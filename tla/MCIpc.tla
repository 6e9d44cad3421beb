-------------------------------- MODULE MCIpc --------------------------------
(***************************************************************************)
(* main, the shell (20), AndroidCmdHandle (30), the GPRS thread and idle   *)
(* (31, sharing the processor by slices).                                   *)
(***************************************************************************)
EXTENDS Ipc

CONSTANTS main, shell, android, gprs, idle

Threads      == {main, shell, android, gprs, idle}
Priorities   == {10, 20, 30, 31}
Urgencies    == [t \in Threads |-> IF t = main THEN 10 ELSE IF t = shell THEN 20
                                   ELSE IF t = android THEN 30 ELSE 31]
Slices       == [t \in Threads |-> 1]
Starts       == <<shell, android, gprs>>
UsersOf      == [o \in {Heap, Lock} |-> IF o = Heap THEN {main, gprs}
                                        ELSE {shell, android, gprs}]
=============================================================================
