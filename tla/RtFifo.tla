------------------------------- MODULE RtFifo -------------------------------
(***************************************************************************)
(* What rt_ringbuffer promises its callers: a bounded first-in first-out   *)
(* queue of bytes.  A put keeps as much of a block as fits and says how    *)
(* much that was, a get hands over the oldest bytes and forgets them, a    *)
(* forced put of one character makes room by dropping the oldest byte.     *)
(* There are no indices and no mirrors here: RtRingBuffer implements this. *)
(***************************************************************************)
EXTENDS Integers, Sequences

CONSTANTS Byte,      \* the values a byte of the queue may take
          Blocks,    \* the blocks callers put, sequences of bytes
          Lengths,   \* the lengths callers ask for
          Capacity   \* how many bytes the queue holds

VARIABLES queue,     \* the bytes put and not yet got, oldest first
          result     \* what the last call returned to its caller

vars == <<queue, result>>

Returned(n, bytes) == [ret |-> n, data |-> bytes]

AtMost(m, n) == IF m <= n THEN m ELSE n

Init == /\ queue = <<>>
        /\ result = Returned(0, <<>>)

\* A block is accepted up to the room that is left.
Enqueue(block) ==
  LET n == AtMost(Len(block), Capacity - Len(queue))
  IN /\ queue' = queue \o SubSeq(block, 1, n)
     /\ result' = Returned(n, <<>>)

\* One byte is always accepted, at the price of the oldest one when full.
EnqueueForce(ch) ==
  /\ queue' = IF Len(queue) = Capacity THEN Append(Tail(queue), ch)
                                       ELSE Append(queue, ch)
  /\ result' = Returned(1, <<>>)

\* The forced put of a whole block.  When it does not fit, the newest bytes of the
\* queue and the block remain, or nothing at all: which of the two depends on where
\* in the buffer the bytes lie, and callers cannot tell.
EnqueueBlockForce(block) ==
  LET all == queue \o block
  IN /\ queue' \in IF Len(all) <= Capacity THEN {all}
                   ELSE {SubSeq(all, Len(all) - Capacity + 1, Len(all)), <<>>}
     /\ result' = Returned(AtMost(Len(block), Capacity), <<>>)

\* Up to n of the oldest bytes leave the queue, in order.
Dequeue(n) ==
  LET k == AtMost(n, Len(queue))
  IN /\ queue' = SubSeq(queue, k + 1, Len(queue))
     /\ result' = Returned(k, SubSeq(queue, 1, k))

Reset == /\ queue' = <<>>
         /\ UNCHANGED result

Next == \/ \E block \in Blocks : Enqueue(block) \/ EnqueueBlockForce(block)
        \/ \E n \in Lengths : Dequeue(n)
        \/ \E ch \in Byte : Enqueue(<<ch>>) \/ EnqueueForce(ch)
        \/ Dequeue(1)
        \/ Reset

Spec == Init /\ [][Next]_vars

=============================================================================
