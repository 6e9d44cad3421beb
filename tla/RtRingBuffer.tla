---------------------------- MODULE RtRingBuffer ----------------------------
(***************************************************************************)
(* The byte ring of components/drivers/src/ringbuffer.c.  The command ring *)
(* (AndroidCmdHandle to WaterOut) and the answer ring (back) are two of    *)
(* these.                                                                  *)
(*                                                                         *)
(* Each index has a one-bit mirror beside it: equal indices in the same    *)
(* mirror mean empty, in different mirrors full.  The variables are the    *)
(* fields of struct rt_ringbuffer; `result' is what the last call gave its *)
(* caller.  One action is one whole call.                                  *)
(***************************************************************************)
EXTENDS Integers, Sequences

CONSTANTS Byte,         \* the values of a byte
          Blocks,       \* the blocks callers put
          Lengths,      \* the lengths callers ask for
          BufferSize    \* buffer_size, after RT_ALIGN_DOWN

\* buffer_size is an rt_int16_t that rt_ringbuffer_init asserts positive.
ASSUME BufferSizeAssumption == BufferSize \in 1 .. 32767
ASSUME BlocksAssumption == Blocks \subseteq Seq(Byte)
ASSUME LengthsAssumption == Lengths \subseteq Nat

VARIABLES read_mirror, read_index, write_mirror, write_index,
          buffer,       \* the bytes buffer_ptr points at
          result

reader == <<read_mirror, read_index>>      \* the get side's fields
writer == <<write_mirror, write_index>>    \* the put side's fields
ring   == <<read_mirror, read_index, write_mirror, write_index, buffer>>
vars   == <<read_mirror, read_index, write_mirror, write_index, buffer, result>>

Index == 0 .. BufferSize - 1

Returned(n, bytes) == [ret |-> n, data |-> bytes]

TypeOK == /\ read_mirror \in {0, 1}
          /\ write_mirror \in {0, 1}
          /\ read_index \in Index
          /\ write_index \in Index
          /\ buffer \in [Index -> Byte]
          /\ result \in [ret : Nat, data : Seq(Byte)]

-----------------------------------------------------------------------------
rt_ringbuffer_status ==
  IF read_index = write_index
  THEN IF read_mirror = write_mirror THEN "EMPTY" ELSE "FULL"
  ELSE "HALFFULL"

rt_ringbuffer_data_len ==
  CASE rt_ringbuffer_status = "EMPTY" -> 0
    [] rt_ringbuffer_status = "FULL"  -> BufferSize
    [] OTHER -> IF write_index > read_index
                THEN write_index - read_index
                ELSE BufferSize - (read_index - write_index)

rt_ringbuffer_space_len == BufferSize - rt_ringbuffer_data_len

AtMost(m, n) == IF m <= n THEN m ELSE n

\* The last n bytes of a block.
Newest(block, n) == SubSeq(block, Len(block) - n + 1, Len(block))

Flip(mirror) == 1 - mirror      \* ~ on a one-bit field

\* The position k places after index i, going round at the end.
Wrap(i, k) == IF i + k < BufferSize THEN i + k ELSE i + k - BufferSize

\* How far position i is ahead of the write index: the place in a block of
\* the byte that a put leaves at i.
AheadOfWrite(i) == IF i >= write_index THEN i - write_index
                   ELSE i + BufferSize - write_index

\* What the memcpy calls of a put leave in the buffer: n bytes of the block
\* from write_index on, the second copy continuing at position 0.
Filled(block, n) ==
  [i \in Index |-> IF AheadOfWrite(i) < n THEN block[AheadOfWrite(i) + 1]
                                          ELSE buffer[i]]

\* What the memcpy calls of a get hand to the caller.
Taken(n) == [i \in 1 .. n |-> buffer[Wrap(read_index, i - 1)]]

\* A slip the runs must notice: the exact fit at the end of the buffer taken
\* for one that stays short of it.
MirrorAfterOffByOne(mirror, index, n) ==
  IF BufferSize - index >= n THEN mirror ELSE Flip(mirror)

\* A block call moves its index on by Wrap(index, n); the mirror flips when
\* that reaches the end of the buffer.
MirrorAfter(mirror, index, n) ==
  IF BufferSize - index > n THEN mirror ELSE Flip(mirror)

\* A slip: the test for the last position is made against the size.
StepIndexOffByOne(index) == IF index = BufferSize THEN 0 ELSE index + 1

\* putchar and getchar test for the last position instead.
StepIndex(index) == IF index = BufferSize - 1 THEN 0 ELSE index + 1
StepMirror(mirror, index) == IF index = BufferSize - 1 THEN Flip(mirror) ELSE mirror

-----------------------------------------------------------------------------
\* rt_malloc leaves whatever was there: the initial bytes are arbitrary.
Init == /\ read_mirror = 0 /\ read_index = 0
        /\ write_mirror = 0 /\ write_index = 0
        /\ buffer \in [Index -> Byte]
        /\ result = Returned(0, <<>>)

rt_ringbuffer_put(block) ==
  LET length == AtMost(Len(block), rt_ringbuffer_space_len)
  IN \/ /\ rt_ringbuffer_space_len = 0
        /\ result' = Returned(0, <<>>)
        /\ UNCHANGED ring
     \/ /\ rt_ringbuffer_space_len # 0
        /\ buffer' = Filled(block, length)
        /\ write_mirror' = MirrorAfter(write_mirror, write_index, length)
        /\ write_index' = Wrap(write_index, length)
        /\ result' = Returned(length, <<>>)
        /\ UNCHANGED reader

rt_ringbuffer_get(n) ==
  LET length == AtMost(n, rt_ringbuffer_data_len)
  IN \/ /\ rt_ringbuffer_data_len = 0
        /\ result' = Returned(0, <<>>)
        /\ UNCHANGED ring
     \/ /\ rt_ringbuffer_data_len # 0
        /\ read_mirror' = MirrorAfter(read_mirror, read_index, length)
        /\ read_index' = Wrap(read_index, length)
        /\ result' = Returned(length, Taken(length))
        /\ UNCHANGED <<write_mirror, write_index, buffer>>

rt_ringbuffer_putchar(ch) ==
  \/ /\ rt_ringbuffer_space_len = 0
     /\ result' = Returned(0, <<>>)
     /\ UNCHANGED ring
  \/ /\ rt_ringbuffer_space_len # 0
     /\ buffer' = [buffer EXCEPT ![write_index] = ch]
     /\ write_mirror' = StepMirror(write_mirror, write_index)
     /\ write_index' = StepIndex(write_index)
     /\ result' = Returned(1, <<>>)
     /\ UNCHANGED reader

rt_ringbuffer_getchar ==
  \/ /\ rt_ringbuffer_data_len = 0
     /\ result' = Returned(0, <<>>)
     /\ UNCHANGED ring
  \/ /\ rt_ringbuffer_data_len # 0
     /\ read_mirror' = StepMirror(read_mirror, read_index)
     /\ read_index' = StepIndex(read_index)
     /\ result' = Returned(1, <<buffer[read_index]>>)
     /\ UNCHANGED <<write_mirror, write_index, buffer>>

\* A slip: the read index follows only when the write index goes round.
rt_ringbuffer_putchar_force_lazy(ch) ==
  /\ buffer' = [buffer EXCEPT ![write_index] = ch]
  /\ write_mirror' = StepMirror(write_mirror, write_index)
  /\ write_index' = StepIndex(write_index)
  /\ IF rt_ringbuffer_status = "FULL" /\ write_index = BufferSize - 1
     THEN read_index' = write_index' /\ read_mirror' = Flip(read_mirror)
     ELSE UNCHANGED reader
  /\ result' = Returned(1, <<>>)

\* When the ring was full, the read index follows the write index: the byte
\* just overwritten was the oldest one.
rt_ringbuffer_putchar_force(ch) ==
  /\ buffer' = [buffer EXCEPT ![write_index] = ch]
  /\ write_mirror' = StepMirror(write_mirror, write_index)
  /\ write_index' = StepIndex(write_index)
  /\ read_index' = IF rt_ringbuffer_status = "FULL" THEN write_index' ELSE read_index
  /\ read_mirror' = IF /\ rt_ringbuffer_status = "FULL"
                       /\ write_index = BufferSize - 1
                    THEN Flip(read_mirror) ELSE read_mirror
  /\ result' = Returned(1, <<>>)

\* The forced put of a block.  None of the dispenser's threads calls it; the
\* audio pipe and the AT client of the same tree do.  The read mirror is flipped
\* when the write index goes round, whether or not it was behind.
rt_ringbuffer_put_force(block) ==
  LET length   == AtMost(Len(block), BufferSize)
      overruns == length > rt_ringbuffer_space_len
      wraps    == BufferSize - write_index <= length
  IN /\ buffer' = Filled(Newest(block, length), length)
     /\ write_mirror' = MirrorAfter(write_mirror, write_index, length)
     /\ write_index' = Wrap(write_index, length)
     /\ read_index' = IF overruns THEN write_index' ELSE read_index
     /\ read_mirror' = IF overruns /\ wraps THEN Flip(read_mirror) ELSE read_mirror
     /\ result' = Returned(length, <<>>)

rt_ringbuffer_reset ==
  /\ read_mirror' = 0 /\ read_index' = 0
  /\ write_mirror' = 0 /\ write_index' = 0
  /\ UNCHANGED <<buffer, result>>

Next == \/ \E block \in Blocks : \/ rt_ringbuffer_put(block)
                               \/ rt_ringbuffer_put_force(block)
        \/ \E n \in Lengths : rt_ringbuffer_get(n)
        \/ \E ch \in Byte : \/ rt_ringbuffer_putchar(ch)
                            \/ rt_ringbuffer_putchar_force(ch)
        \/ rt_ringbuffer_getchar
        \/ rt_ringbuffer_reset

Spec == Init /\ [][Next]_vars

-----------------------------------------------------------------------------
\* The mirrors agree exactly when the writer is at or ahead of the reader in
\* the same pass over the buffer.  Every call relies on it: data_len compares
\* the indices alone and consults the mirrors only when they are equal.  A
\* call that flips one mirror too many or too few breaks it, and the ring then
\* reports bytes that were never put or forgets bytes that were.
MirrorsOrderIndices ==
  /\ read_mirror = write_mirror => read_index <= write_index
  /\ read_mirror # write_mirror => write_index <= read_index

\* The bytes the ring holds, oldest first.
Contents == Taken(rt_ringbuffer_data_len)

\* The ring implements the bounded queue: for every sequence of calls, each
\* result and the bytes held are those the queue would give.
Fifo == INSTANCE RtFifo WITH queue <- Contents, Capacity <- BufferSize

ImplementsFifo == Fifo!Spec
=============================================================================
