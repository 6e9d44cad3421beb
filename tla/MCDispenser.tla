----------------------------- MODULE MCDispenser -----------------------------
(***************************************************************************)
(* Frames for the dispenser: every command and calibration step of         *)
(* protocol.txt, hot and cold, one payload that is not a request, and one  *)
(* command the firmware does not know.                                     *)
(***************************************************************************)
EXTENDS Dispenser

DispenseHot  == <<DISPENSE, REQUEST, 1, 0, 16>>
DispenseCold == <<DISPENSE, REQUEST, 2, 0, 16>>
DispenseEcho == <<DISPENSE, STARTED, 1, 0, 16>>
Calibration(step, water, hi, lo) == <<CALIBRATE, REQUEST, step, water, hi, lo>>
StopRequest  == <<STOP, REQUEST>>
SetTemp      == <<5, REQUEST, 90>>

Calibrations == {Calibration(1, 2, 0, 0), Calibration(2, 2, 1, 4),
                 Calibration(3, 1, 0, 0), Calibration(4, 1, 2, 7)}

AllFrames == {DispenseHot, DispenseCold, DispenseEcho, StopRequest, SetTemp}
               \cup Calibrations
ControlFrames == {DispenseHot, DispenseEcho, StopRequest, Calibration(2, 2, 1, 4)}
=============================================================================
