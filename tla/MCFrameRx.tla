------------------------------ MODULE MCFrameRx ------------------------------
(***************************************************************************)
(* Frames of three lengths, one of them with a payload byte 0x7e; the      *)
(* longest fills the buffer, which is smaller than the code's 40 bytes so  *)
(* that it overflows within a few frames.                                  *)
(***************************************************************************)
EXTENDS FrameRx

StopPayload  == <<3, 0>>
Dispense126  == <<1, 0, 1, 0, 126>>
Calibrate    == <<2, 0, 1, 1, 0, 0>>
ThreeFrames  == {StopPayload, Dispense126, Calibrate}
TwoFrames    == {StopPayload, Dispense126}
=============================================================================
