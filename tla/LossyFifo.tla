------------------------------ MODULE LossyFifo ------------------------------
(***************************************************************************)
(* What the serial driver promises the thread that polls it: the bytes     *)
(* come in the order of arrival, and when the thread falls behind by more  *)
(* than Capacity bytes it is the oldest that are lost.                     *)
(***************************************************************************)
EXTENDS Integers, Sequences

CONSTANTS Byte,      \* the values of a byte
          Capacity   \* how many bytes are kept for the reader

VARIABLES queue,     \* the bytes kept, oldest first
          data       \* what the current or last read has returned so far

vars == <<queue, data>>

Init == queue = <<>> /\ data = <<>>

Arrive(ch) == /\ queue' = IF Len(queue) = Capacity THEN Append(Tail(queue), ch)
                                                   ELSE Append(queue, ch)
              /\ UNCHANGED data

\* A read starts anew, takes the oldest bytes one by one, and ends by itself.
Start == data' = <<>> /\ UNCHANGED queue

Take == /\ queue # <<>>
        /\ data' = Append(data, Head(queue))
        /\ queue' = Tail(queue)

Next == (\E ch \in Byte : Arrive(ch)) \/ Start \/ Take

Spec == Init /\ [][Next]_vars
=============================================================================
