--------------------------- MODULE MCRtRingBuffer ---------------------------
(***************************************************************************)
(* A ring of a few bytes over two byte values.  Blocks go up to one byte   *)
(* more than the ring holds, so that truncation, exact fit and wrapping at *)
(* every position occur; lengths asked for go one beyond, too.             *)
(***************************************************************************)
EXTENDS RtRingBuffer

MCBlocks  == UNION {[1 .. n -> Byte] : n \in 0 .. BufferSize + 1}
MCLengths == 0 .. BufferSize + 1
=============================================================================
