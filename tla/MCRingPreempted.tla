--------------------------- MODULE MCRingPreempted ---------------------------
(***************************************************************************)
(* Both rings in small: four bytes, puts of every length up to five, and   *)
(* enough bytes for the indices to go round more than twice.  A get asks   *)
(* for one byte, as AndroidCmdHandle does, or for more than the ring       *)
(* holds, as WaterOut does with ten bytes for a ring of eight.             *)
(***************************************************************************)
EXTENDS RingPreempted

MCByte         == 0 .. MaxBytes
MCBlocks       == {}
MCLengths      == {1, BufferSize + 1}
MCBlockLengths == 1 .. BufferSize + 1
=============================================================================
