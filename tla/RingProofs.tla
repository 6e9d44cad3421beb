----------------------------- MODULE RingProofs -----------------------------
(***************************************************************************)
(* Proofs about the byte ring: first RtRingBuffer, whose calls are whole,  *)
(* for every buffer size and every set of bytes, blocks and lengths; then  *)
(* RingPreempted, whose calls are taken apart, for every set of block      *)
(* lengths as well and every instruction at which WaterOut wakes.  The     *)
(* first part uses none of RingPreempted's assumptions.                    *)
(***************************************************************************)
EXTENDS RingPreempted, SequenceTheorems, TLAPS

\* The inductive invariant: the fields have their types and the mirrors order
\* the indices.  Neither half is inductive alone: without the order a put may
\* overrun, without the types the arithmetic of data_len means nothing.
IInv == TypeOK /\ MirrorsOrderIndices

\* What data_len computes, without the detour over the status: how far the
\* writer is ahead, in this pass over the buffer or in the next.
DataLen == IF read_mirror = write_mirror
           THEN write_index - read_index
           ELSE BufferSize + write_index - read_index

\* rt_ringbuffer_data_len in terms of the places and the mirrors.
LEMMA DataLenValue == IInv => rt_ringbuffer_data_len = DataLen
<1> SUFFICES ASSUME IInv PROVE rt_ringbuffer_data_len = DataLen
  OBVIOUS
<1> USE BufferSizeAssumption DEF IInv, TypeOK, MirrorsOrderIndices, Index, DataLen
<1>1. CASE rt_ringbuffer_status = "EMPTY"
  <2>1. rt_ringbuffer_data_len = 0
    BY <1>1 DEF rt_ringbuffer_data_len
  <2>2. read_index = write_index /\ read_mirror = write_mirror
    BY <1>1 DEF rt_ringbuffer_status
  <2> QED BY <2>1, <2>2
<1>2. CASE rt_ringbuffer_status = "FULL"
  <2>1. rt_ringbuffer_data_len = BufferSize
    BY <1>2 DEF rt_ringbuffer_data_len
  <2>2. read_index = write_index /\ read_mirror # write_mirror
    BY <1>2 DEF rt_ringbuffer_status
  <2> QED BY <2>1, <2>2
<1>3. CASE rt_ringbuffer_status = "HALFFULL"
  <2>1. rt_ringbuffer_data_len = IF write_index > read_index
                                 THEN write_index - read_index
                                 ELSE BufferSize - (read_index - write_index)
    BY <1>3 DEF rt_ringbuffer_data_len
  <2>2. read_index # write_index
    BY <1>3 DEF rt_ringbuffer_status
  <2> QED BY <2>1, <2>2
<1> QED BY <1>1, <1>2, <1>3 DEF rt_ringbuffer_status

\* The number of bytes held never exceeds the buffer, so that the subtraction
\* in rt_ringbuffer_space_len does not go below zero.
LEMMA DataLenBounded ==
  ASSUME IInv
  PROVE  /\ rt_ringbuffer_data_len \in 0 .. BufferSize
         /\ rt_ringbuffer_space_len \in 0 .. BufferSize
  BY DataLenValue, BufferSizeAssumption
  DEF IInv, TypeOK, MirrorsOrderIndices, Index, rt_ringbuffer_space_len, DataLen

\* AtMost is the smaller of the two.
LEMMA AtMostBounds ==
  ASSUME NEW m \in Nat, NEW n \in Nat
  PROVE  AtMost(m, n) \in Nat /\ AtMost(m, n) <= m /\ AtMost(m, n) <= n
  BY DEF AtMost

\* What a get hands over is a sequence of bytes of the length asked for.
LEMMA TakenType ==
  ASSUME TypeOK, NEW n \in 0 .. BufferSize
  PROVE  Taken(n) \in Seq(Byte) /\ Len(Taken(n)) = n
<1>1. \A i \in 1 .. n : Wrap(read_index, i - 1) \in Index
  BY BufferSizeAssumption DEF TypeOK, Index, Wrap
<1>2. \A i \in 1 .. n : buffer[Wrap(read_index, i - 1)] \in Byte
  BY <1>1 DEF TypeOK
<1>3. Taken(n) \in [1 .. n -> Byte]
  BY <1>2 DEF Taken
<1>4. Taken(n) \in Seq(Byte)
  BY <1>3, SeqDef
<1>5. DOMAIN Taken(n) = 1 .. n
  BY DEF Taken
<1>6. DOMAIN Taken(n) = 1 .. Len(Taken(n)) /\ Len(Taken(n)) \in Nat
  BY <1>4, LenProperties
<1>7. Len(Taken(n)) = n
  <2>1. n \in 1 .. n \/ n = 0
    OBVIOUS
  <2>2. Len(Taken(n)) \in 1 .. n \/ Len(Taken(n)) = 0
    BY <1>5, <1>6
  <2> QED BY <2>1, <2>2, <1>5, <1>6
<1> QED BY <1>4, <1>7

\* A put overwrites positions of the buffer with bytes of the block only.
LEMMA FilledType ==
  ASSUME TypeOK, NEW block \in Seq(Byte), NEW n \in 0 .. Len(block)
  PROVE  Filled(block, n) \in [Index -> Byte]
<1> SUFFICES ASSUME NEW i \in Index
             PROVE  (IF AheadOfWrite(i) < n THEN block[AheadOfWrite(i) + 1]
                                            ELSE buffer[i]) \in Byte
  BY DEF Filled
<1>1. AheadOfWrite(i) \in Nat
  BY BufferSizeAssumption DEF TypeOK, Index, AheadOfWrite
<1>2. CASE AheadOfWrite(i) < n
  <2>1. AheadOfWrite(i) + 1 \in 1 .. Len(block)
    BY <1>1, <1>2
  <2>2. block[AheadOfWrite(i) + 1] \in Byte
    BY <2>1, ElementOfSeq
  <2> QED BY <1>2, <2>2
<1>3. CASE ~(AheadOfWrite(i) < n)
  BY <1>3 DEF TypeOK
<1> QED BY <1>2, <1>3

-----------------------------------------------------------------------------
(***************************************************************************)
(* The indices and mirrors after a step, without the bytes.                *)
(***************************************************************************)

\* Moving the write side by no more than the free space, or the read side by
\* no more than the data, keeps the indices in range and in the mirrors' order.
LEMMA WriterAdvances ==
  ASSUME IInv, NEW n \in Nat, n <= rt_ringbuffer_space_len,
         rt_ringbuffer_space_len # 0,
         write_mirror' = MirrorAfter(write_mirror, write_index, n),
         write_index' = Wrap(write_index, n),
         UNCHANGED reader
  PROVE  /\ write_mirror' \in {0, 1} /\ write_index' \in Index
         /\ MirrorsOrderIndices'
  BY DataLenValue, DataLenBounded, BufferSizeAssumption
  DEF IInv, TypeOK, MirrorsOrderIndices, Index, reader, DataLen,
      rt_ringbuffer_space_len, MirrorAfter, Wrap, Flip

\* The reader's index and mirror after n more bytes.
LEMMA ReaderAdvances ==
  ASSUME IInv, NEW n \in Nat, n <= rt_ringbuffer_data_len,
         rt_ringbuffer_data_len # 0,
         read_mirror' = MirrorAfter(read_mirror, read_index, n),
         read_index' = Wrap(read_index, n),
         UNCHANGED writer
  PROVE  /\ read_mirror' \in {0, 1} /\ read_index' \in Index
         /\ MirrorsOrderIndices'
  BY DataLenValue, DataLenBounded, BufferSizeAssumption
  DEF IInv, TypeOK, MirrorsOrderIndices, Index, writer, DataLen, MirrorAfter, Wrap, Flip

\* Stepping by one character is advancing by one.
LEMMA StepIsAdvance ==
  ASSUME NEW index \in Index, NEW mirror
  PROVE  /\ StepIndex(index) = Wrap(index, 1)
         /\ StepMirror(mirror, index) = MirrorAfter(mirror, index, 1)
  BY BufferSizeAssumption DEF Index, StepIndex, StepMirror, Wrap, MirrorAfter
-----------------------------------------------------------------------------
(***************************************************************************)
(* The inductive invariant.                                                *)
(***************************************************************************)
LEMMA ReturnedType ==
  ASSUME NEW n \in Nat, NEW b \in Seq(Byte)
  PROVE  Returned(n, b) \in [ret : Nat, data : Seq(Byte)]
  BY DEF Returned

\* The invariant at rt_ringbuffer_init, ...
LEMMA InitInv == Init => IInv
<1> SUFFICES ASSUME Init PROVE IInv
  OBVIOUS
<1>1. result \in [ret : Nat, data : Seq(Byte)]
  BY ReturnedType, EmptySeq DEF Init
<1> QED BY <1>1, BufferSizeAssumption
        DEF Init, IInv, TypeOK, MirrorsOrderIndices, Index

\* ... and after rt_ringbuffer_put, ...
LEMMA PutInv ==
  ASSUME IInv, NEW block \in Seq(Byte), rt_ringbuffer_put(block)
  PROVE  IInv'
<1> DEFINE len == AtMost(Len(block), rt_ringbuffer_space_len)
<1>1. /\ len \in 0 .. Len(block)
      /\ len \in Nat /\ len <= rt_ringbuffer_space_len
  BY LenProperties, DataLenBounded DEF AtMost
<1>2. result' = Returned(0, <<>>) \/ result' = Returned(len, <<>>)
  BY DEF rt_ringbuffer_put
<1>3. result' \in [ret : Nat, data : Seq(Byte)]
  BY <1>1, <1>2, ReturnedType, EmptySeq
<1>4. CASE rt_ringbuffer_space_len = 0
  BY <1>3, <1>4 DEF rt_ringbuffer_put, IInv, TypeOK, MirrorsOrderIndices, ring
<1>5. CASE rt_ringbuffer_space_len # 0
  <2>1. /\ buffer' = Filled(block, len)
        /\ write_mirror' = MirrorAfter(write_mirror, write_index, len)
        /\ write_index' = Wrap(write_index, len)
        /\ UNCHANGED reader
    BY <1>5 DEF rt_ringbuffer_put
  <2>2. buffer' \in [Index -> Byte]
    BY <1>1, <2>1, FilledType DEF IInv
  <2>3. write_mirror' \in {0, 1} /\ write_index' \in Index /\ MirrorsOrderIndices'
    BY <1>1, <1>5, <2>1, WriterAdvances
  <2> QED BY <1>3, <2>1, <2>2, <2>3 DEF IInv, TypeOK, reader
<1> QED BY <1>4, <1>5

\* ... rt_ringbuffer_get, ...
LEMMA GetInv ==
  ASSUME IInv, NEW n \in Nat, rt_ringbuffer_get(n)
  PROVE  IInv'
<1> DEFINE len == AtMost(n, rt_ringbuffer_data_len)
<1>1. /\ len \in 0 .. BufferSize
      /\ len \in Nat /\ len <= rt_ringbuffer_data_len
  BY DataLenBounded, BufferSizeAssumption DEF AtMost
<1>2. result' = Returned(0, <<>>) \/ result' = Returned(len, Taken(len))
  BY DEF rt_ringbuffer_get
<1>3. result' \in [ret : Nat, data : Seq(Byte)]
  <2>1. Taken(len) \in Seq(Byte) /\ <<>> \in Seq(Byte)
    BY <1>1, TakenType, EmptySeq DEF IInv
  <2> HIDE DEF len
  <2> QED BY <1>1, <1>2, <2>1, ReturnedType
<1>4. CASE rt_ringbuffer_data_len = 0
  BY <1>3, <1>4 DEF rt_ringbuffer_get, IInv, TypeOK, MirrorsOrderIndices, ring
<1>5. CASE rt_ringbuffer_data_len # 0
  <2>1. /\ read_mirror' = MirrorAfter(read_mirror, read_index, len)
        /\ read_index' = Wrap(read_index, len)
        /\ UNCHANGED <<write_mirror, write_index, buffer>>
    BY <1>5 DEF rt_ringbuffer_get
  <2>2. read_mirror' \in {0, 1} /\ read_index' \in Index /\ MirrorsOrderIndices'
    BY <1>1, <1>5, <2>1, ReaderAdvances DEF writer
  <2> QED BY <1>3, <2>1, <2>2 DEF IInv, TypeOK
<1> QED BY <1>4, <1>5

\* A character put is the put of a block of one, and a character got is a get
\* of length one: the two code paths agree on every index.
LEMMA PutcharIsPut ==
  ASSUME IInv, NEW ch \in Byte, rt_ringbuffer_putchar(ch)
  PROVE  <<ch>> \in Seq(Byte) /\ rt_ringbuffer_put(<<ch>>)
<1>1. <<ch>> \in Seq(Byte) /\ Len(<<ch>>) = 1 /\ <<ch>>[1] = ch
  OBVIOUS
<1>2. CASE rt_ringbuffer_space_len = 0
  BY <1>1, <1>2 DEF rt_ringbuffer_putchar, rt_ringbuffer_put
<1>3. CASE rt_ringbuffer_space_len # 0
  <2>1. AtMost(Len(<<ch>>), rt_ringbuffer_space_len) = 1
    BY <1>1, <1>3, DataLenBounded DEF AtMost
  <2>2. \A i \in Index : AheadOfWrite(i) < 1 <=> i = write_index
    BY BufferSizeAssumption DEF IInv, TypeOK, Index, AheadOfWrite
  <2>3. AheadOfWrite(write_index) = 0
    BY DEF IInv, TypeOK, Index, AheadOfWrite
  <2>4. Filled(<<ch>>, 1) = [buffer EXCEPT ![write_index] = ch]
    <3>1. \A i \in Index : Filled(<<ch>>, 1)[i] = IF i = write_index THEN ch ELSE buffer[i]
      BY <1>1, <2>2, <2>3 DEF Filled
    <3>2. \A i \in Index : [buffer EXCEPT ![write_index] = ch][i]
                             = IF i = write_index THEN ch ELSE buffer[i]
      BY DEF IInv, TypeOK
    <3>3. /\ DOMAIN Filled(<<ch>>, 1) = Index
          /\ DOMAIN [buffer EXCEPT ![write_index] = ch] = Index
      BY DEF Filled, IInv, TypeOK
    <3>4. /\ Filled(<<ch>>, 1) = [i \in Index |-> Filled(<<ch>>, 1)[i]]
          /\ [buffer EXCEPT ![write_index] = ch]
               = [i \in Index |-> [buffer EXCEPT ![write_index] = ch][i]]
      BY <3>3 DEF Filled, IInv, TypeOK
    <3> QED BY <3>1, <3>2, <3>4
  <2>5. /\ StepIndex(write_index) = Wrap(write_index, 1)
        /\ StepMirror(write_mirror, write_index)
             = MirrorAfter(write_mirror, write_index, 1)
    BY StepIsAdvance DEF IInv, TypeOK
  <2> QED BY <1>1, <1>3, <2>1, <2>4, <2>5
          DEF rt_ringbuffer_putchar, rt_ringbuffer_put
<1> QED BY <1>2, <1>3

\* rt_ringbuffer_getchar is rt_ringbuffer_get of one byte.
LEMMA GetcharIsGet ==
  ASSUME IInv, rt_ringbuffer_getchar
  PROVE  rt_ringbuffer_get(1)
<1>1. CASE rt_ringbuffer_data_len = 0
  BY <1>1 DEF rt_ringbuffer_getchar, rt_ringbuffer_get
<1>2. CASE rt_ringbuffer_data_len # 0
  <2>1. AtMost(1, rt_ringbuffer_data_len) = 1
    BY <1>2, DataLenBounded DEF AtMost
  <2>2. Wrap(read_index, 0) = read_index
    BY BufferSizeAssumption DEF IInv, TypeOK, Index, Wrap
  <2>3. Taken(1) = <<buffer[read_index]>>
    BY <2>2 DEF Taken
  <2>4. /\ StepIndex(read_index) = Wrap(read_index, 1)
        /\ StepMirror(read_mirror, read_index)
             = MirrorAfter(read_mirror, read_index, 1)
    BY StepIsAdvance DEF IInv, TypeOK
  <2> QED BY <1>2, <2>1, <2>3, <2>4 DEF rt_ringbuffer_getchar, rt_ringbuffer_get
<1> QED BY <1>1, <1>2

\* The invariant after rt_ringbuffer_putchar_force, ...
LEMMA PutcharForceInv ==
  ASSUME IInv, NEW ch \in Byte, rt_ringbuffer_putchar_force(ch)
  PROVE  IInv'
<1>1. result' \in [ret : Nat, data : Seq(Byte)]
  BY ReturnedType, EmptySeq DEF rt_ringbuffer_putchar_force
<1>2. buffer' \in [Index -> Byte]
  BY DEF rt_ringbuffer_putchar_force, IInv, TypeOK
<1>3. /\ read_mirror' \in {0, 1} /\ write_mirror' \in {0, 1}
      /\ read_index' \in Index /\ write_index' \in Index
      /\ MirrorsOrderIndices'
  <2> USE BufferSizeAssumption
      DEF rt_ringbuffer_putchar_force, IInv, TypeOK, MirrorsOrderIndices, Index,
          StepIndex, StepMirror, Flip
  <2>1. CASE rt_ringbuffer_status = "FULL"
    <3>1. read_index = write_index /\ read_mirror # write_mirror
      BY <2>1 DEF rt_ringbuffer_status
    <3> QED BY <2>1, <3>1
  <2>2. CASE rt_ringbuffer_status # "FULL"
    <3>1. read_index = write_index => read_mirror = write_mirror
      BY <2>2 DEF rt_ringbuffer_status
    <3> QED BY <2>2, <3>1
  <2> QED BY <2>1, <2>2
<1> QED BY <1>1, <1>2, <1>3 DEF IInv, TypeOK

\* The last n bytes of a block are a block.
LEMMA NewestProperties ==
  ASSUME NEW block \in Seq(Byte), NEW n \in 0 .. Len(block)
  PROVE  /\ Newest(block, n) \in Seq(Byte) /\ Len(Newest(block, n)) = n
         /\ \A i \in 1 .. n : Newest(block, n)[i] = block[Len(block) - n + i]
<1> DEFINE L == Len(block)
<1>1. L \in Nat /\ n \in Nat /\ n <= L
  BY LenProperties
<1>2. \A i \in 1 .. L : block[i] \in Byte
  BY ElementOfSeq
<1> HIDE DEF L
<1>3. \A i \in L - n + 1 .. L : block[i] \in Byte
  BY <1>1, <1>2
<1>4. /\ SubSeq(block, L - n + 1, L) \in Seq(Byte)
      /\ Len(SubSeq(block, L - n + 1, L)) = n
      /\ \A i \in 1 .. n : SubSeq(block, L - n + 1, L)[i] = block[L - n + i]
  BY <1>1, <1>3, SubSeqProperties
<1> QED BY <1>4 DEF Newest, L

\* ... rt_ringbuffer_put_force ...
LEMMA PutForceInv ==
  ASSUME IInv, NEW block \in Seq(Byte), rt_ringbuffer_put_force(block)
  PROVE  IInv'
<1> DEFINE len == AtMost(Len(block), BufferSize)
           newest == Newest(block, len)
<1>1. len \in Nat /\ len \in 0 .. Len(block) /\ len <= BufferSize
  BY LenProperties, BufferSizeAssumption DEF AtMost
<1>2. newest \in Seq(Byte) /\ Len(newest) = len
  BY <1>1, NewestProperties
<1>3. /\ buffer' = Filled(newest, len)
      /\ write_mirror' = MirrorAfter(write_mirror, write_index, len)
      /\ write_index' = Wrap(write_index, len)
      /\ result' = Returned(len, <<>>)
      /\ IF len > rt_ringbuffer_space_len
         THEN /\ read_index' = write_index'
              /\ read_mirror' \in {read_mirror, Flip(read_mirror)}
         ELSE UNCHANGED reader
  BY DEF rt_ringbuffer_put_force, reader
<1> HIDE DEF len, newest
<1>4. buffer' \in [Index -> Byte]
  <2>1. len \in 0 .. Len(newest)
    BY <1>1, <1>2
  <2> QED BY <1>2, <1>3, <2>1, FilledType DEF IInv
<1>5. result' \in [ret : Nat, data : Seq(Byte)]
  BY <1>1, <1>3, ReturnedType, EmptySeq
<1>6. /\ read_mirror' \in {0, 1} /\ write_mirror' \in {0, 1}
      /\ read_index' \in Index /\ write_index' \in Index
      /\ MirrorsOrderIndices'
  <2> USE DEF IInv, TypeOK, Index, reader
  <2>1. CASE len > rt_ringbuffer_space_len
    BY <1>1, <1>3, <2>1, BufferSizeAssumption
    DEF MirrorAfter, Flip, Wrap, MirrorsOrderIndices
  <2>2. CASE ~(len > rt_ringbuffer_space_len) /\ rt_ringbuffer_space_len # 0
    <3>1. len <= rt_ringbuffer_space_len
      BY <1>1, <2>2, DataLenBounded
    <3> QED BY <1>1, <1>3, <2>2, <3>1, WriterAdvances
  <2>3. CASE ~(len > rt_ringbuffer_space_len) /\ rt_ringbuffer_space_len = 0
    BY <1>1, <1>3, <2>3, BufferSizeAssumption
    DEF MirrorAfter, Flip, Wrap, MirrorsOrderIndices
  <2> QED BY <2>1, <2>2, <2>3
<1> QED BY <1>4, <1>5, <1>6 DEF IInv, TypeOK

\* ... and rt_ringbuffer_reset.
LEMMA ResetInv ==
  ASSUME IInv, rt_ringbuffer_reset
  PROVE  IInv'
<1>1. 0 \in Index
  BY BufferSizeAssumption DEF Index
<1>2. buffer' = buffer /\ result' = result /\ Index' = Index
  BY DEF rt_ringbuffer_reset, Index
<1> QED BY <1>1, <1>2 DEF rt_ringbuffer_reset, IInv, TypeOK, MirrorsOrderIndices

\* The invariant after any step.
LEMMA NextInv == IInv /\ [Next]_vars => IInv'
<1> SUFFICES ASSUME IInv, [Next]_vars PROVE IInv'
  OBVIOUS
<1>1. ASSUME NEW block \in Blocks, rt_ringbuffer_put(block) PROVE IInv'
  BY <1>1, PutInv, BlocksAssumption
<1>2. ASSUME NEW n \in Lengths, rt_ringbuffer_get(n) PROVE IInv'
  BY <1>2, GetInv, LengthsAssumption
<1>3. ASSUME NEW ch \in Byte, rt_ringbuffer_putchar(ch) PROVE IInv'
  BY <1>3, PutcharIsPut, PutInv
<1>4. ASSUME NEW ch \in Byte, rt_ringbuffer_putchar_force(ch) PROVE IInv'
  BY <1>4, PutcharForceInv
<1>5. CASE rt_ringbuffer_getchar
  BY <1>5, GetcharIsGet, GetInv
<1>6. CASE rt_ringbuffer_reset
  BY <1>6, ResetInv
<1>7. CASE UNCHANGED vars
  BY <1>7 DEF IInv, TypeOK, MirrorsOrderIndices, vars
<1>8. ASSUME NEW block \in Blocks, rt_ringbuffer_put_force(block) PROVE IInv'
  BY <1>8, PutForceInv, BlocksAssumption
<1> QED BY <1>1, <1>2, <1>3, <1>4, <1>5, <1>6, <1>7, <1>8 DEF Next

\* The invariant always holds.
THEOREM Invariance == Spec => []IInv
  BY InitInv, NextInv, PTL DEF Spec

\* Every field keeps its type whatever calls are made: the indices stay inside
\* the buffer that put and get copy to and from.
THEOREM TypeCorrect == Spec => []TypeOK
<1>1. IInv => TypeOK
  BY DEF IInv
<1> QED BY <1>1, Invariance, PTL

\* The mirrors always say which index is ahead, for every buffer size.
THEOREM MirrorsCorrect == Spec => []MirrorsOrderIndices
<1>1. IInv => MirrorsOrderIndices
  BY DEF IInv
<1> QED BY <1>1, Invariance, PTL

-----------------------------------------------------------------------------
(***************************************************************************)
(* The bytes.  Positions are counted from the read index; the first        *)
(* data_len of them hold the contents, the rest is free.                   *)
(***************************************************************************)

ContentsProperty ==
  /\ Contents \in Seq(Byte)
  /\ Len(Contents) = rt_ringbuffer_data_len
  /\ \A i \in 1 .. rt_ringbuffer_data_len :
       Contents[i] = buffer[Wrap(read_index, i - 1)]

\* The contents are the bytes from read_index on, data_len of them.
LEMMA ContentsType == IInv => ContentsProperty
<1> SUFFICES ASSUME IInv PROVE ContentsProperty
  OBVIOUS
<1>1. Contents \in Seq(Byte) /\ Len(Contents) = rt_ringbuffer_data_len
  BY TakenType, DataLenBounded DEF Contents, IInv
<1> QED BY <1>1 DEF ContentsProperty, Contents, Taken

\* The ring never holds more than its size.
LEMMA DataLenRange == IInv => rt_ringbuffer_data_len \in 0 .. BufferSize
  BY DataLenBounded

\* A position that holds contents is as far ahead of the writer as there is
\* free space, or farther; a free position is ahead of the writer by what
\* separates it from the contents.
LEMMA AheadOfWriteAt ==
  ASSUME IInv, NEW i \in 1 .. BufferSize
  PROVE  /\ Wrap(read_index, i - 1) \in Index
         /\ AheadOfWrite(Wrap(read_index, i - 1))
              = IF i <= rt_ringbuffer_data_len
                THEN rt_ringbuffer_space_len + i - 1
                ELSE i - 1 - rt_ringbuffer_data_len
<1> USE BufferSizeAssumption
    DEF IInv, TypeOK, MirrorsOrderIndices, Index, AheadOfWrite, Wrap,
        rt_ringbuffer_space_len
<1>1. CASE read_mirror = write_mirror
  <2>1. rt_ringbuffer_data_len = write_index - read_index
    BY <1>1, DataLenValue DEF DataLen
  <2> QED BY <1>1, <2>1
<1>2. CASE read_mirror # write_mirror
  <2>1. rt_ringbuffer_data_len = BufferSize + write_index - read_index
    BY <1>2, DataLenValue DEF DataLen
  <2> QED BY <1>2, <2>1
<1> QED BY <1>1, <1>2

\* A put of n bytes that fit appends them to the contents.
LEMMA PutAppends ==
  ASSUME IInv, IInv', NEW block \in Seq(Byte), NEW n \in 0 .. Len(block),
         n <= rt_ringbuffer_space_len, rt_ringbuffer_space_len # 0,
         buffer' = Filled(block, n),
         write_mirror' = MirrorAfter(write_mirror, write_index, n),
         write_index' = Wrap(write_index, n),
         UNCHANGED reader
  PROVE  Contents' = Contents \o SubSeq(block, 1, n)
<1> DEFINE d == rt_ringbuffer_data_len
           added == SubSeq(block, 1, n)
<1>1. /\ Len(block) \in Nat /\ n \in Nat
      /\ d \in Nat /\ d \in 0 .. BufferSize /\ d + n <= BufferSize
      /\ BufferSize \in Nat
  BY LenProperties, DataLenRange, BufferSizeAssumption DEF rt_ringbuffer_space_len
<1>2. /\ added \in Seq(Byte) /\ Len(added) = n
      /\ \A i \in 1 .. n : added[i] = block[i]
  <2>1. \A i \in 1 .. n : block[i] \in Byte
    BY <1>1, ElementOfSeq
  <2> QED BY <1>1, <2>1, SubSeqProperties
<1>3. rt_ringbuffer_data_len' = d + n
  <2>1. (IInv => rt_ringbuffer_data_len = DataLen)'
    BY DataLenValue, PTL
  <2>2. d = DataLen
    BY DataLenValue
  <2>3. n <= BufferSize - DataLen /\ DataLen # BufferSize
    BY <2>2, <1>1 DEF rt_ringbuffer_space_len
  <2>4. DataLen' = DataLen + n
    BY <2>3, <1>1, BufferSizeAssumption
    DEF IInv, TypeOK, MirrorsOrderIndices, Index, DataLen, reader, MirrorAfter, Wrap, Flip
  <2> QED BY <2>1, <2>2, <2>4
<1>4. /\ Contents' \in Seq(Byte) /\ Len(Contents') = d + n
      /\ \A i \in 1 .. d + n : Contents'[i] = buffer'[Wrap(read_index, i - 1)]
  <2>1. (IInv => ContentsProperty)'
    BY ContentsType, PTL
  <2> QED BY <2>1, <1>3 DEF reader, ContentsProperty, Wrap
<1>5. /\ Contents \in Seq(Byte) /\ Len(Contents) = d
      /\ \A i \in 1 .. d : Contents[i] = buffer[Wrap(read_index, i - 1)]
  BY ContentsType DEF ContentsProperty
<1>6. /\ Contents \o added \in Seq(Byte) /\ Len(Contents \o added) = d + n
      /\ \A i \in 1 .. d + n : (Contents \o added)[i]
           = IF i <= d THEN Contents[i] ELSE added[i - d]
  <2> HIDE DEF d, added
  <2>1. /\ Contents \o added \in Seq(Byte)
        /\ Len(Contents \o added) = Len(Contents) + Len(added)
        /\ \A i \in 1 .. Len(Contents) + Len(added) : (Contents \o added)[i]
             = IF i <= Len(Contents) THEN Contents[i] ELSE added[i - Len(Contents)]
    BY <1>2, <1>5, ConcatProperties
  <2> QED BY <1>2, <1>5, <2>1
<1>7. ASSUME NEW i \in 1 .. d + n
      PROVE  Contents'[i] = (Contents \o added)[i]
  <2>1. i \in 1 .. BufferSize
    BY <1>1
  <2>2. Contents'[i] = IF AheadOfWrite(Wrap(read_index, i - 1)) < n
                       THEN block[AheadOfWrite(Wrap(read_index, i - 1)) + 1]
                       ELSE buffer[Wrap(read_index, i - 1)]
    BY <1>4, <2>1, AheadOfWriteAt DEF Filled
  <2>3. CASE i <= d
    <3>1. ~(AheadOfWrite(Wrap(read_index, i - 1)) < n)
      BY <1>1, <2>1, <2>3, AheadOfWriteAt DEF rt_ringbuffer_space_len
    <3>2. i \in 1 .. d
      BY <2>3, <1>1
    <3>3. Contents'[i] = buffer[Wrap(read_index, i - 1)]
      BY <3>1, <2>2
    <3>4. (Contents \o added)[i] = Contents[i]
      BY <1>6, <2>3
    <3> QED BY <3>2, <3>3, <3>4, <1>5
  <2>4. CASE i > d
    <3>1. AheadOfWrite(Wrap(read_index, i - 1)) = i - 1 - d
      BY <1>1, <2>1, <2>4, AheadOfWriteAt
    <3>2. i - d \in 1 .. n /\ i - 1 - d < n
      BY <1>1, <2>4
    <3>3. Contents'[i] = block[i - d]
      BY <1>1, <3>1, <3>2, <2>2
    <3>4. added[i - d] = block[i - d]
      BY <3>2, <1>2
    <3>5. (Contents \o added)[i] = added[i - d]
      <4>1. ~(i <= d)
        BY <2>4, <1>1
      <4> QED BY <4>1, <1>6
    <3> QED BY <3>3, <3>4, <3>5
  <2>5. i <= d \/ i > d
    <3> HIDE DEF d
    <3> QED BY <1>1
  <2> QED BY <2>3, <2>4, <2>5
<1> QED BY <1>4, <1>6, <1>7, SeqEqual

\* A get of n bytes that are there returns the oldest n and leaves the rest.
LEMMA GetDrops ==
  ASSUME IInv, IInv', NEW n \in Nat,
         n <= rt_ringbuffer_data_len, rt_ringbuffer_data_len # 0,
         read_mirror' = MirrorAfter(read_mirror, read_index, n),
         read_index' = Wrap(read_index, n),
         UNCHANGED <<write_mirror, write_index, buffer>>
  PROVE  /\ Taken(n) = SubSeq(Contents, 1, n)
         /\ Contents' = SubSeq(Contents, n + 1, Len(Contents))
<1> DEFINE d == rt_ringbuffer_data_len
           first == SubSeq(Contents, 1, n)
           rest == SubSeq(Contents, n + 1, d)
<1>1. d \in Nat /\ d \in 0 .. BufferSize /\ n \in 0 .. d /\ BufferSize \in Nat
  BY DataLenRange, BufferSizeAssumption
<1>2. /\ Contents \in Seq(Byte) /\ Len(Contents) = d
      /\ \A i \in 1 .. d : Contents[i] = buffer[Wrap(read_index, i - 1)]
  BY ContentsType DEF ContentsProperty
<1>3. \A i \in 1 .. d : Contents[i] \in Byte
  BY <1>2, ElementOfSeq
<1> HIDE DEF d
<1>4. /\ first \in Seq(Byte) /\ Len(first) = n
      /\ \A i \in 1 .. n : first[i] = Contents[i]
  BY <1>1, <1>3, SubSeqProperties
<1>5. /\ rest \in Seq(Byte) /\ Len(rest) = d - n
      /\ \A i \in 1 .. d - n : rest[i] = Contents[n + i]
  BY <1>1, <1>3, SubSeqProperties
<1>6. Taken(n) = first
  <2>1. Taken(n) \in Seq(Byte) /\ Len(Taken(n)) = n
    BY <1>1, TakenType DEF IInv
  <2>2. \A i \in 1 .. n : Taken(n)[i] = first[i]
    BY <1>1, <1>2, <1>4 DEF Taken
  <2> QED BY <2>1, <2>2, <1>4, SeqEqual
<1>7. rt_ringbuffer_data_len' = d - n
  <2>1. (IInv => rt_ringbuffer_data_len = DataLen)'
    BY DataLenValue, PTL
  <2>2. d = DataLen
    BY DataLenValue DEF d
  <2>3. n <= DataLen /\ DataLen # 0
    BY <1>1, <2>2 DEF d
  <2>4. DataLen' = DataLen - n
    BY <2>3, <1>1, BufferSizeAssumption
    DEF IInv, TypeOK, MirrorsOrderIndices, Index, DataLen, MirrorAfter, Wrap, Flip
  <2> QED BY <2>1, <2>2, <2>4
<1>8. /\ Contents' \in Seq(Byte) /\ Len(Contents') = d - n
      /\ \A i \in 1 .. d - n : Contents'[i] = buffer[Wrap(read_index', i - 1)]
  <2>1. (IInv => ContentsProperty)'
    BY ContentsType, PTL
  <2> QED BY <2>1, <1>7 DEF ContentsProperty, Wrap
<1>9. ASSUME NEW i \in 1 .. d - n
      PROVE  Contents'[i] = rest[i]
  <2>1. Wrap(Wrap(read_index, n), i - 1) = Wrap(read_index, (n + i) - 1)
    BY <1>1, BufferSizeAssumption DEF Wrap, IInv, TypeOK, Index
  <2>2. n + i \in 1 .. d
    BY <1>1
  <2>3. Contents[n + i] = buffer[Wrap(read_index, (n + i) - 1)]
    BY <2>2, <1>2
  <2>4. Contents'[i] = buffer[Wrap(Wrap(read_index, n), i - 1)]
    BY <1>8
  <2> QED BY <2>1, <2>3, <2>4, <1>5
<1>10. Contents' = rest
  BY <1>5, <1>8, <1>9, SeqEqual
<1> QED BY <1>2, <1>6, <1>10

\* A forced character on a full ring takes the place of the oldest one.
LEMMA PutcharForceReplaces ==
  ASSUME IInv, IInv', NEW ch \in Byte, rt_ringbuffer_putchar_force(ch),
         rt_ringbuffer_status = "FULL"
  PROVE  /\ Len(Contents) = BufferSize
         /\ Contents' = Append(Tail(Contents), ch)
<1> DEFINE n == BufferSize
           new == Append(Tail(Contents), ch)
<1>1. n \in Nat /\ n >= 1
  BY BufferSizeAssumption
<1>2. /\ rt_ringbuffer_data_len = n
      /\ read_index = write_index /\ read_mirror # write_mirror
  BY DEF rt_ringbuffer_data_len, rt_ringbuffer_status
<1>3. /\ Contents \in Seq(Byte) /\ Len(Contents) = n
      /\ \A i \in 1 .. n : Contents[i] = buffer[Wrap(read_index, i - 1)]
  BY <1>2, ContentsType DEF ContentsProperty
<1>4. /\ Tail(Contents) \in Seq(Byte) /\ Len(Tail(Contents)) = n - 1
      /\ \A i \in 1 .. n - 1 : Tail(Contents)[i] = Contents[i + 1]
  <2>1. Contents # <<>>
    BY <1>1, <1>3, EmptySeq
  <2> QED BY <1>3, <2>1, HeadTailProperties
<1>5. /\ new \in Seq(Byte) /\ Len(new) = n
      /\ \A i \in 1 .. n - 1 : new[i] = Contents[i + 1]
      /\ new[n] = ch
  BY <1>1, <1>4, AppendProperties
<1>6. /\ read_index' = Wrap(read_index, 1) /\ write_index' = read_index'
      /\ read_mirror' # write_mirror'
      /\ buffer' = [buffer EXCEPT ![read_index] = ch]
  BY <1>2, BufferSizeAssumption
  DEF rt_ringbuffer_putchar_force, StepIndex, StepMirror, Flip, Wrap, IInv, TypeOK, Index
<1>7. rt_ringbuffer_data_len' = n
  <2>1. (IInv => rt_ringbuffer_data_len = DataLen)'
    BY DataLenValue, PTL
  <2>2. DataLen' = n
    BY <1>1, <1>6 DEF DataLen, IInv, TypeOK, Index
  <2> QED BY <2>1, <2>2
<1>8. /\ Contents' \in Seq(Byte) /\ Len(Contents') = n
      /\ \A i \in 1 .. n : Contents'[i] = buffer'[Wrap(read_index', i - 1)]
  <2>1. (IInv => ContentsProperty)'
    BY ContentsType, PTL
  <2> QED BY <2>1, <1>7 DEF ContentsProperty, Wrap
<1>9. ASSUME NEW i \in 1 .. n
      PROVE  Contents'[i] = new[i]
  <2>1. CASE i = n
    <3>1. Wrap(Wrap(read_index, 1), i - 1) = read_index
      BY <2>1, BufferSizeAssumption DEF Wrap, IInv, TypeOK, Index
    <3>2. Contents'[i] = buffer'[read_index]
      BY <3>1, <1>6, <1>8
    <3> QED BY <3>2, <2>1, <1>5, <1>6 DEF IInv, TypeOK
  <2>2. CASE i # n
    <3>1. i \in 1 .. n - 1 /\ i + 1 \in 1 .. n
      BY <2>2, <1>1
    <3>2. /\ Wrap(Wrap(read_index, 1), i - 1) = Wrap(read_index, (i + 1) - 1)
          /\ Wrap(read_index, (i + 1) - 1) \in Index
          /\ Wrap(read_index, (i + 1) - 1) # read_index
      BY <3>1, BufferSizeAssumption DEF Wrap, IInv, TypeOK, Index
    <3>3. Contents'[i] = buffer[Wrap(read_index, (i + 1) - 1)]
      BY <3>2, <1>6, <1>8 DEF IInv, TypeOK
    <3>4. Contents[i + 1] = buffer[Wrap(read_index, (i + 1) - 1)]
      BY <3>1, <1>3
    <3> QED BY <3>1, <3>3, <3>4, <1>5
  <2> QED BY <2>1, <2>2
<1> QED BY <1>3, <1>5, <1>8, <1>9, SeqEqual

-----------------------------------------------------------------------------
(***************************************************************************)
(* The ring implements the bounded queue, operation by operation.          *)
(***************************************************************************)
LEMMA UnchangedContents ==
  ASSUME UNCHANGED ring
  PROVE  Contents' = Contents
  BY DEF ring, Contents, Taken, Wrap, rt_ringbuffer_data_len, rt_ringbuffer_status

\* The promise at rt_ringbuffer_init, ...
LEMMA InitRefines == Init => Fifo!Init
<1> SUFFICES ASSUME Init PROVE Contents = <<>> /\ result = Returned(0, <<>>)
  BY DEF Fifo!Init, Fifo!Returned, Returned
<1>1. rt_ringbuffer_data_len = 0
  BY DEF Init, rt_ringbuffer_data_len, rt_ringbuffer_status
<1>2. Contents \in Seq(Byte) /\ Len(Contents) = 0
  BY <1>1, InitInv, ContentsType DEF ContentsProperty
<1> QED BY <1>2, EmptySeq DEF Init

\* ... and of rt_ringbuffer_put, ...
LEMMA PutRefines ==
  ASSUME IInv, IInv', NEW block \in Seq(Byte), rt_ringbuffer_put(block)
  PROVE  Fifo!Enqueue(block)
<1> DEFINE len == AtMost(Len(block), rt_ringbuffer_space_len)
<1>1. /\ len \in 0 .. Len(block)
      /\ len \in Nat /\ len <= rt_ringbuffer_space_len
  BY LenProperties, DataLenBounded DEF AtMost
<1>2. /\ Contents \in Seq(Byte)
      /\ BufferSize - Len(Contents) = rt_ringbuffer_space_len
  BY ContentsType DEF ContentsProperty, rt_ringbuffer_space_len
<1>3. Fifo!AtMost(Len(block), BufferSize - Len(Contents)) = len
  BY <1>2 DEF AtMost, Fifo!AtMost
<1>4. CASE rt_ringbuffer_space_len = 0
  <2>1. len = 0
    BY <1>1, <1>4
  <2>2. Contents' = Contents /\ result' = Returned(0, <<>>)
    BY <1>4, UnchangedContents DEF rt_ringbuffer_put
  <2>3. SubSeq(block, 1, 0) = <<>>
    BY SubSeqEmpty
  <2>4. Contents \o <<>> = Contents
    BY <1>2, ConcatEmptySeq
  <2> HIDE DEF len
  <2> QED BY <1>3, <2>1, <2>2, <2>3, <2>4
          DEF Fifo!Enqueue, Fifo!Returned, Returned
<1>5. CASE rt_ringbuffer_space_len # 0
  <2>1. /\ buffer' = Filled(block, len)
        /\ write_mirror' = MirrorAfter(write_mirror, write_index, len)
        /\ write_index' = Wrap(write_index, len)
        /\ UNCHANGED reader
        /\ result' = Returned(len, <<>>)
    BY <1>5 DEF rt_ringbuffer_put
  <2>2. Contents' = Contents \o SubSeq(block, 1, len)
    BY <1>1, <1>5, <2>1, PutAppends
  <2> HIDE DEF len
  <2> QED BY <1>3, <2>1, <2>2 DEF Fifo!Enqueue, Fifo!Returned, Returned
<1> QED BY <1>4, <1>5

\* ... rt_ringbuffer_get, ...
LEMMA GetRefines ==
  ASSUME IInv, IInv', NEW n \in Nat, rt_ringbuffer_get(n)
  PROVE  Fifo!Dequeue(n)
<1> DEFINE len == AtMost(n, rt_ringbuffer_data_len)
<1>1. /\ len \in Nat /\ len <= rt_ringbuffer_data_len
      /\ rt_ringbuffer_data_len \in Nat
  BY DataLenRange, BufferSizeAssumption DEF AtMost
<1>2. Contents \in Seq(Byte) /\ Len(Contents) = rt_ringbuffer_data_len
  BY ContentsType DEF ContentsProperty
<1>3. Fifo!AtMost(n, Len(Contents)) = len
  BY <1>2 DEF AtMost, Fifo!AtMost
<1>4. CASE rt_ringbuffer_data_len = 0
  <2>1. len = 0
    BY <1>1, <1>4
  <2>2. Contents' = Contents /\ result' = Returned(0, <<>>)
    BY <1>4, UnchangedContents DEF rt_ringbuffer_get
  <2>3. Contents = <<>>
    BY <1>2, <1>4, EmptySeq
  <2>4. SubSeq(Contents, 1, 0) = <<>> /\ SubSeq(Contents, 0 + 1, Len(Contents)) = <<>>
    BY <1>2, <1>4, SubSeqEmpty
  <2> HIDE DEF len
  <2> QED BY <1>3, <2>1, <2>2, <2>3, <2>4
          DEF Fifo!Dequeue, Fifo!Returned, Returned
<1>5. CASE rt_ringbuffer_data_len # 0
  <2>1. /\ read_mirror' = MirrorAfter(read_mirror, read_index, len)
        /\ read_index' = Wrap(read_index, len)
        /\ result' = Returned(len, Taken(len))
        /\ UNCHANGED <<write_mirror, write_index, buffer>>
    BY <1>5 DEF rt_ringbuffer_get
  <2>2. /\ Taken(len) = SubSeq(Contents, 1, len)
        /\ Contents' = SubSeq(Contents, len + 1, Len(Contents))
    BY <1>1, <1>5, <2>1, GetDrops
  <2> HIDE DEF len
  <2> QED BY <1>3, <2>1, <2>2 DEF Fifo!Dequeue, Fifo!Returned, Returned
<1> QED BY <1>4, <1>5

\* ... rt_ringbuffer_putchar_force, ...
LEMMA PutcharForceRefines ==
  ASSUME IInv, IInv', NEW ch \in Byte, rt_ringbuffer_putchar_force(ch)
  PROVE  Fifo!EnqueueForce(ch)
<1>1. result' = Fifo!Returned(1, <<>>)
  BY DEF rt_ringbuffer_putchar_force, Returned, Fifo!Returned
<1>2. CASE rt_ringbuffer_status = "FULL"
  BY <1>1, <1>2, PutcharForceReplaces DEF Fifo!EnqueueForce
<1>3. CASE rt_ringbuffer_status # "FULL"
  <2>1. rt_ringbuffer_space_len # 0
    <3>1. read_index = write_index => read_mirror = write_mirror
      BY <1>3 DEF rt_ringbuffer_status
    <3> QED BY <3>1, DataLenValue, BufferSizeAssumption
            DEF IInv, TypeOK, MirrorsOrderIndices, Index, DataLen,
                rt_ringbuffer_space_len
  <2>2. rt_ringbuffer_putchar(ch)
    BY <1>3, <2>1 DEF rt_ringbuffer_putchar_force, rt_ringbuffer_putchar, reader
  <2>3. Fifo!Enqueue(<<ch>>)
    BY <2>2, PutcharIsPut, PutRefines
  <2>4. /\ Contents \in Seq(Byte)
        /\ BufferSize - Len(Contents) = rt_ringbuffer_space_len
        /\ rt_ringbuffer_space_len \in 0 .. BufferSize
        /\ Len(Contents) \in Nat
    BY ContentsType, DataLenBounded, LenProperties
    DEF ContentsProperty, rt_ringbuffer_space_len
  <2>5. /\ Fifo!AtMost(1, BufferSize - Len(Contents)) = 1
        /\ Len(Contents) # BufferSize
    BY <2>1, <2>4, BufferSizeAssumption DEF Fifo!AtMost
  <2>6. Len(<<ch>>) = 1 /\ SubSeq(<<ch>>, 1, 1) = <<ch>>
    BY PutcharIsPut, <2>2, SubSeqFull
  <2>7. Contents' = Append(Contents, ch)
    BY <2>3, <2>4, <2>5, <2>6, AppendIsConcat DEF Fifo!Enqueue
  <2> QED BY <1>1, <2>5, <2>7 DEF Fifo!EnqueueForce
<1> QED BY <1>2, <1>3

\* A forced put that fits is a put.
LEMMA PutForceFits ==
  ASSUME IInv, IInv', NEW block \in Seq(Byte), rt_ringbuffer_put_force(block),
         AtMost(Len(block), BufferSize) <= rt_ringbuffer_space_len
  PROVE  Contents' = Contents \o Newest(block, AtMost(Len(block), BufferSize))
<1> DEFINE len == AtMost(Len(block), BufferSize)
           newest == Newest(block, len)
<1>1. len \in Nat /\ len \in 0 .. Len(block) /\ len <= BufferSize
  BY LenProperties, BufferSizeAssumption DEF AtMost
<1>2. newest \in Seq(Byte) /\ Len(newest) = len
  BY <1>1, NewestProperties
<1>3. /\ buffer' = Filled(newest, len)
      /\ write_mirror' = MirrorAfter(write_mirror, write_index, len)
      /\ write_index' = Wrap(write_index, len)
      /\ UNCHANGED reader
  BY <1>1, DataLenBounded DEF rt_ringbuffer_put_force, reader
<1>4. len <= rt_ringbuffer_space_len /\ rt_ringbuffer_space_len \in Nat
  BY DataLenBounded
<1> HIDE DEF len, newest
<1>5. CASE rt_ringbuffer_space_len # 0
  <2>1. SubSeq(newest, 1, len) = newest
    BY <1>2, SubSeqFull
  <2>2. len \in 0 .. Len(newest)
    BY <1>1, <1>2
  <2>3. Contents' = Contents \o SubSeq(newest, 1, len)
    BY <1>2, <1>3, <1>4, <1>5, <2>2, PutAppends
  <2> QED BY <2>1, <2>3 DEF len, newest
<1>6. CASE rt_ringbuffer_space_len = 0
  <2>1. len = 0 /\ newest = <<>>
    <3>1. len = 0
      BY <1>1, <1>4, <1>6
    <3> QED BY <3>1, <1>2, EmptySeq
  <2>2. UNCHANGED ring
    <3>1. \A i \in Index : ~(AheadOfWrite(i) < 0)
      BY BufferSizeAssumption DEF IInv, TypeOK, Index, AheadOfWrite
    <3>2. Filled(newest, 0) = [i \in Index |-> buffer[i]]
      BY <3>1 DEF Filled
    <3>3. buffer = [i \in Index |-> buffer[i]]
      BY DEF IInv, TypeOK
    <3>4. buffer' = buffer
      BY <1>3, <2>1, <3>2, <3>3
    <3> QED BY <1>3, <2>1, <3>4, BufferSizeAssumption
            DEF IInv, TypeOK, Index, MirrorAfter, Wrap, ring, reader
  <2>3. Contents' = Contents /\ Contents \o <<>> = Contents
    BY <2>2, UnchangedContents, ContentsType, ConcatEmptySeq DEF ContentsProperty
  <2> QED BY <2>1, <2>3 DEF len, newest
<1> QED BY <1>5, <1>6

\* One that does not fit leaves the newest bytes of the contents and the block,
\* when the mirrors say that the ring is full, and nothing when they do not.
LEMMA PutForceOverruns ==
  ASSUME IInv, IInv', NEW block \in Seq(Byte), rt_ringbuffer_put_force(block),
         AtMost(Len(block), BufferSize) > rt_ringbuffer_space_len
  PROVE  LET all == Contents \o block
         IN /\ Len(all) > BufferSize
            /\ \/ Contents' = SubSeq(all, Len(all) - BufferSize + 1, Len(all))
               \/ Contents' = <<>>
<1> DEFINE n == BufferSize
           d == rt_ringbuffer_data_len
           L == Len(block)
           len == AtMost(L, n)
           newest == Newest(block, len)
           all == Contents \o block
<1>1. /\ n \in Nat /\ n >= 1 /\ L \in Nat /\ d \in Nat /\ d <= n
      /\ len \in Nat /\ len <= L /\ len <= n /\ len \in 0 .. L
      /\ len = n \/ len = L
      /\ len > n - d /\ rt_ringbuffer_space_len = n - d
  BY LenProperties, DataLenRange, BufferSizeAssumption
  DEF AtMost, rt_ringbuffer_space_len
<1>2. /\ newest \in Seq(Byte) /\ Len(newest) = len
      /\ \A i \in 1 .. len : newest[i] = block[L - len + i]
  BY <1>1, NewestProperties
<1>3. /\ buffer' = Filled(newest, len)
      /\ write_index' = Wrap(write_index, len) /\ read_index' = write_index'
  BY DEF rt_ringbuffer_put_force
<1>4. /\ Contents \in Seq(Byte) /\ Len(Contents) = d
      /\ \A i \in 1 .. d : Contents[i] = buffer[Wrap(read_index, i - 1)]
  BY ContentsType DEF ContentsProperty
<1> HIDE DEF d, len, newest
<1>5. /\ all \in Seq(Byte) /\ Len(all) = d + L
      /\ \A i \in 1 .. d + L : all[i] = IF i <= d THEN Contents[i] ELSE block[i - d]
  BY <1>4, ConcatProperties
<1>6. (ContentsProperty)'
  <2>1. (IInv => ContentsProperty)'
    BY ContentsType, PTL
  <2> QED BY <2>1
<1>7. CASE read_mirror' = write_mirror'
  <2>1. rt_ringbuffer_data_len' = 0
    BY <1>3, <1>7 DEF rt_ringbuffer_data_len, rt_ringbuffer_status
  <2>2. Contents' = <<>>
    BY <1>6, <2>1, EmptySeq DEF ContentsProperty
  <2> QED BY <1>1, <1>5, <2>2
<1>8. CASE read_mirror' # write_mirror'
  <2> DEFINE last == SubSeq(all, d + L - n + 1, d + L)
  <2>1. rt_ringbuffer_data_len' = n
    BY <1>3, <1>8 DEF rt_ringbuffer_data_len, rt_ringbuffer_status
  <2>2. /\ Contents' \in Seq(Byte) /\ Len(Contents') = n
        /\ \A i \in 1 .. n : Contents'[i] = buffer'[Wrap(write_index', i - 1)]
    BY <1>3, <1>6, <2>1 DEF ContentsProperty, Wrap
  <2>3. /\ last \in Seq(Byte) /\ Len(last) = n
        /\ \A i \in 1 .. n : last[i] = all[d + L - n + i]
    <3>1. \A i \in 1 .. d + L : all[i] \in Byte
      BY <1>5, ElementOfSeq
    <3> HIDE DEF all, L
    <3>2. \A i \in d + L - n + 1 .. d + L : all[i] \in Byte
      BY <1>1, <3>1
    <3> QED BY <1>1, <3>2, SubSeqProperties
  <2>4. ASSUME NEW i \in 1 .. n
        PROVE  Contents'[i] = last[i]
    <3> DEFINE pos == Wrap(Wrap(write_index, len), i - 1)
    <3>1. /\ pos \in Index
          /\ AheadOfWrite(pos) = IF i <= n - len THEN len + i - 1
                                                    ELSE len + i - 1 - n
      BY <1>1, BufferSizeAssumption DEF IInv, TypeOK, Index, Wrap, AheadOfWrite
    <3>2. Contents'[i] = IF AheadOfWrite(pos) < len
                         THEN newest[AheadOfWrite(pos) + 1] ELSE buffer[pos]
      BY <1>3, <2>2, <3>1 DEF Filled
    <3> HIDE DEF L, all
    <3>3. CASE i <= n - len
      <4> DEFINE j == i + len - (n - d)
      <4>1. j \in 1 .. d /\ d + L - n + i = j
        BY <1>1, <3>3
      <4>2. Wrap(read_index, j - 1) = pos
        <5>1. /\ Wrap(read_index, j - 1) \in Index
              /\ AheadOfWrite(Wrap(read_index, j - 1)) = (n - d) + j - 1
          BY <1>1, <4>1, AheadOfWriteAt DEF d
        <5>2. AheadOfWrite(Wrap(read_index, j - 1)) = AheadOfWrite(pos)
          BY <1>1, <3>1, <3>3, <5>1
        <5>3. \A p, q \in Index : AheadOfWrite(p) = AheadOfWrite(q) => p = q
          BY BufferSizeAssumption DEF IInv, TypeOK, Index, AheadOfWrite
        <5> HIDE DEF pos, j
        <5> QED BY <3>1, <5>1, <5>2, <5>3
      <4>3. Contents'[i] = buffer[pos]
        BY <1>1, <3>1, <3>2, <3>3
      <4>4. Contents[j] = buffer[pos]
        BY <1>4, <4>1, <4>2
      <4>5. last[i] = all[j] /\ all[j] = Contents[j]
        BY <1>1, <1>5, <2>3, <4>1
      <4> QED BY <4>3, <4>4, <4>5
    <3>4. CASE i > n - len
      <4>1. /\ len + i - n \in 1 .. len
            /\ d + L - n + i \in 1 .. d + L /\ d + L - n + i > d
            /\ L - len + (len + i - n) = L - n + i
        BY <1>1, <3>4
      <4>2. Contents'[i] = newest[len + i - n]
        BY <1>1, <3>1, <3>2, <3>4
      <4>3. newest[len + i - n] = block[L - n + i]
        BY <1>2, <4>1
      <4>4. all[d + L - n + i] = block[L - n + i]
        <5> DEFINE k == d + L - n + i
        <5>1. k \in 1 .. d + L /\ ~(k <= d) /\ k - d = L - n + i
          BY <1>1, <4>1
        <5>2. k \in 1 .. d + L => all[k] = IF k <= d THEN Contents[k] ELSE block[k - d]
          BY <1>5
        <5> HIDE DEF k
        <5>3. all[k] = block[k - d]
          BY <5>1, <5>2
        <5> QED BY <5>1, <5>3 DEF k
      <4> QED BY <2>3, <4>2, <4>3, <4>4
    <3> QED BY <1>1, <3>3, <3>4
  <2>5. Contents' = last
    BY <2>2, <2>3, <2>4, SeqEqual
  <2> QED BY <1>1, <1>5, <2>5
<1> QED BY <1>7, <1>8

\* ... rt_ringbuffer_put_force ...
LEMMA PutForceRefines ==
  ASSUME IInv, IInv', NEW block \in Seq(Byte), rt_ringbuffer_put_force(block)
  PROVE  Fifo!EnqueueBlockForce(block)
<1> DEFINE L == Len(block)
           len == AtMost(L, BufferSize)
           all == Contents \o block
<1>1. /\ L \in Nat /\ BufferSize \in Nat /\ len \in 0 .. L
      /\ rt_ringbuffer_space_len = BufferSize - Len(Contents)
      /\ Len(Contents) \in 0 .. BufferSize
      /\ Contents \in Seq(Byte)
  BY LenProperties, DataLenRange, ContentsType, BufferSizeAssumption
  DEF AtMost, ContentsProperty, rt_ringbuffer_space_len
<1>2. result' = Fifo!Returned(Fifo!AtMost(L, BufferSize), <<>>)
  BY DEF rt_ringbuffer_put_force, Returned, Fifo!Returned, AtMost, Fifo!AtMost
<1>3. all \in Seq(Byte) /\ Len(all) = Len(Contents) + L
  BY <1>1, ConcatProperties
<1>4. CASE len <= rt_ringbuffer_space_len
  <2>1. Contents' = Contents \o Newest(block, len)
    BY <1>4, PutForceFits
  <2>2. CASE L <= BufferSize
    <3>1. len = L /\ L - len + 1 = 1
      BY <1>1, <2>2 DEF AtMost
    <3>2. Newest(block, len) = block
      BY <3>1, SubSeqFull DEF Newest
    <3>3. Len(all) <= BufferSize
      BY <1>1, <1>3, <1>4, <3>1
    <3> QED BY <1>2, <2>1, <3>2, <3>3 DEF Fifo!EnqueueBlockForce
  <2>3. CASE L > BufferSize
    <3>1. len = BufferSize /\ Len(Contents) = 0
      BY <1>1, <1>4, <2>3 DEF AtMost
    <3>2. Contents = <<>>
      BY <1>1, <3>1, EmptySeq
    <3>3. all = block /\ <<>> \o Newest(block, len) = Newest(block, len)
      BY <1>1, <3>2, NewestProperties, ConcatEmptySeq
    <3>4. Contents' = SubSeq(all, Len(all) - BufferSize + 1, Len(all))
      BY <2>1, <3>1, <3>2, <3>3 DEF Newest
    <3>5. ~(Len(all) <= BufferSize)
      BY <1>1, <2>3, <3>3
    <3> QED BY <1>2, <3>4, <3>5 DEF Fifo!EnqueueBlockForce
  <2> QED BY <1>1, <2>2, <2>3
<1>5. CASE len > rt_ringbuffer_space_len
  <2>1. /\ Len(all) > BufferSize
        /\ \/ Contents' = SubSeq(all, Len(all) - BufferSize + 1, Len(all))
           \/ Contents' = <<>>
    BY <1>5, PutForceOverruns
  <2>2. ~(Len(all) <= BufferSize)
    BY <1>1, <1>3, <2>1
  <2> QED BY <1>2, <2>1, <2>2 DEF Fifo!EnqueueBlockForce
<1> QED BY <1>1, <1>4, <1>5

\* ... and rt_ringbuffer_reset.
LEMMA ResetRefines ==
  ASSUME IInv, IInv', rt_ringbuffer_reset
  PROVE  Fifo!Reset
<1>1. rt_ringbuffer_data_len' = 0
  BY DEF rt_ringbuffer_reset, rt_ringbuffer_data_len, rt_ringbuffer_status
<1>2. Contents' \in Seq(Byte) /\ Len(Contents') = 0
  <2>1. (IInv => ContentsProperty)'
    BY ContentsType, PTL
  <2> QED BY <2>1, <1>1 DEF ContentsProperty
<1>3. Contents' = <<>>
  BY <1>2, EmptySeq
<1> QED BY <1>3 DEF Fifo!Reset, rt_ringbuffer_reset

\* Every step is one of the promise, or changes nothing of it.
LEMMA NextRefines == IInv /\ IInv' /\ [Next]_vars => [Fifo!Next]_Fifo!vars
<1> SUFFICES ASSUME IInv, IInv', [Next]_vars PROVE [Fifo!Next]_Fifo!vars
  OBVIOUS
<1> USE DEF Fifo!Next
<1>1. ASSUME NEW block \in Blocks, rt_ringbuffer_put(block) PROVE Fifo!Next
  BY <1>1, PutRefines, BlocksAssumption
<1>2. ASSUME NEW n \in Lengths, rt_ringbuffer_get(n) PROVE Fifo!Next
  BY <1>2, GetRefines, LengthsAssumption
<1>3. ASSUME NEW ch \in Byte, rt_ringbuffer_putchar(ch) PROVE Fifo!Next
  BY <1>3, PutcharIsPut, PutRefines
<1>4. ASSUME NEW ch \in Byte, rt_ringbuffer_putchar_force(ch) PROVE Fifo!Next
  BY <1>4, PutcharForceRefines
<1>5. CASE rt_ringbuffer_getchar
  BY <1>5, GetcharIsGet, GetRefines
<1>6. CASE rt_ringbuffer_reset
  BY <1>6, ResetRefines
<1>7. CASE UNCHANGED vars
  BY <1>7, UnchangedContents DEF vars, ring, Fifo!vars
<1>8. ASSUME NEW block \in Blocks, rt_ringbuffer_put_force(block) PROVE Fifo!Next
  BY <1>8, PutForceRefines, BlocksAssumption
<1> QED BY <1>1, <1>2, <1>3, <1>4, <1>5, <1>6, <1>7, <1>8 DEF Next

\* For every buffer size and every sequence of calls, rt_ringbuffer behaves
\* as the bounded first-in first-out queue: no byte is lost, duplicated or
\* reordered, and every return value counts what was really moved.
THEOREM RingImplementsFifo == Spec => ImplementsFifo
<1>1. Init => Fifo!Init
  BY InitRefines
<1>2. IInv /\ IInv' /\ [Next]_vars => [Fifo!Next]_Fifo!vars
  BY NextRefines
<1>3. Spec => []IInv
  BY Invariance
<1> QED BY <1>1, <1>2, <1>3, PTL DEF Spec, ImplementsFifo, Fifo!Spec

-----------------------------------------------------------------------------
(***************************************************************************)
(* The ring under preemption.                                              *)
(*                                                                         *)
(* Between the two stores of a call the mirror runs ahead of its index.    *)
(* The invariant speaks of the true mirrors, those that match the indices, *)
(* and of Held, the bytes that lie between the indices by them: Held is    *)
(* what data_len computes wherever the state is not Ambiguous.             *)
(***************************************************************************)
TrueWriteMirror == IF use = "commands" /\ pc = "store" /\ Reaches(write_index)
                   THEN Flip(write_mirror) ELSE write_mirror
TrueReadMirror == IF use = "answers" /\ pc = "store" /\ Reaches(read_index)
                  THEN Flip(read_mirror) ELSE read_mirror

\* How far the writer is ahead of the reader.
Distance(rm, ri, wm, wi) == IF rm = wm THEN wi - ri ELSE BufferSize + wi - ri
Ordered(rm, ri, wm, wi) == /\ rm = wm => ri <= wi
                           /\ rm # wm => wi <= ri

Held == Distance(TrueReadMirror, read_index, TrueWriteMirror, write_index)

Types == /\ read_mirror \in {0, 1} /\ write_mirror \in {0, 1}
         /\ read_index \in Index /\ write_index \in Index
         /\ stored \in Nat
         /\ use \in {"commands", "answers"}
         /\ pc \in {"idle", "copy", "flip", "store"}

Ordering == Ordered(TrueReadMirror, read_index, TrueWriteMirror, write_index)

\* What was got, what is held, and that the two make up what was put.
Bytes == /\ Len(received) \in Nat /\ received = Ascending(1, Len(received))
         /\ Held = stored - Len(received)
         /\ \A j \in 0 .. Held - 1 :
              buffer[Wrap(read_index, j)] = Len(received) + 1 + j

\* AndroidCmdHandle's put: its bytes fit, and once copied they lie where the
\* write index will find them behind it.
Putting ==
  use = "commands" /\ pc # "idle" =>
    /\ length \in Nat /\ length <= BufferSize - Held
    /\ bytes = NextBytes(length)
    /\ pc \in {"flip", "store"} =>
         \A j \in 0 .. length - 1 : buffer[Wrap(write_index, j)] = stored + 1 + j
    /\ pc = "flip" => Reaches(write_index)

\* Its get: what it copies, or has copied, are the oldest bytes held.
Getting ==
  use = "answers" /\ pc # "idle" =>
    /\ length \in Nat /\ length <= Held
    /\ pc \in {"flip", "store"} => bytes = Ascending(Len(received) + 1, length)
    /\ pc = "flip" => Reaches(read_index)

PInv == ~torn => Types /\ Ordering /\ Bytes /\ Putting /\ Getting

-----------------------------------------------------------------------------
(***************************************************************************)
(* Arithmetic of the indices.                                              *)
(***************************************************************************)
\* Going round stays in the buffer ...
LEMMA WrapIndex ==
  ASSUME NEW i \in Index, NEW k \in 0 .. BufferSize
  PROVE  Wrap(i, k) \in Index
BY BufferSizeAssumption DEF Index, Wrap

\* ... and two steps are one.
LEMMA WrapWrap ==
  ASSUME NEW i \in Index, NEW k \in Nat, NEW j \in Nat, k + j <= BufferSize
  PROVE  Wrap(Wrap(i, k), j) = Wrap(i, k + j)
BY BufferSizeAssumption DEF Index, Wrap

\* The ring holds at most BufferSize bytes.
LEMMA HeldRange ==
  ASSUME Types, Ordering
  PROVE  Held \in 0 .. BufferSize
BY BufferSizeAssumption
DEF Types, Ordering, Ordered, Held, Distance, Index, TrueReadMirror, TrueWriteMirror, Flip

\* Behind the bytes held begins the room the writer writes to.
LEMMA RoomFollows ==
  ASSUME Types, Ordering, NEW j \in Nat, Held + j < BufferSize
  PROVE  Wrap(read_index, Held + j) = Wrap(write_index, j)
BY BufferSizeAssumption
DEF Types, Ordering, Ordered, Held, Distance, Index, Wrap, TrueReadMirror, TrueWriteMirror, Flip

\* The writer moves on by no more than the room.
LEMMA WriterMoves ==
  ASSUME NEW rm \in {0, 1}, NEW wm \in {0, 1}, NEW ri \in Index, NEW wi \in Index,
         Ordered(rm, ri, wm, wi),
         NEW n \in Nat, n <= BufferSize - Distance(rm, ri, wm, wi)
  PROVE  /\ MirrorAfter(wm, wi, n) \in {0, 1} /\ Wrap(wi, n) \in Index
         /\ Ordered(rm, ri, MirrorAfter(wm, wi, n), Wrap(wi, n))
         /\ Distance(rm, ri, MirrorAfter(wm, wi, n), Wrap(wi, n))
              = Distance(rm, ri, wm, wi) + n
BY BufferSizeAssumption DEF Ordered, Distance, MirrorAfter, Wrap, Flip, Index

\* The reader moves on by no more than what is held.
LEMMA ReaderMoves ==
  ASSUME NEW rm \in {0, 1}, NEW wm \in {0, 1}, NEW ri \in Index, NEW wi \in Index,
         Ordered(rm, ri, wm, wi),
         NEW n \in Nat, n <= Distance(rm, ri, wm, wi)
  PROVE  /\ MirrorAfter(rm, ri, n) \in {0, 1} /\ Wrap(ri, n) \in Index
         /\ Ordered(MirrorAfter(rm, ri, n), Wrap(ri, n), wm, wi)
         /\ Distance(MirrorAfter(rm, ri, n), Wrap(ri, n), wm, wi)
              = Distance(rm, ri, wm, wi) - n
BY BufferSizeAssumption DEF Ordered, Distance, MirrorAfter, Wrap, Flip, Index

\* data_len sees through the window between the stores unless the indices meet.
LEMMA HeldIsDataLen ==
  ASSUME Types, Ordering, ~Ambiguous
  PROVE  rt_ringbuffer_data_len = Held /\ rt_ringbuffer_space_len = BufferSize - Held
<1>1. CASE read_index # write_index
  <2>1. rt_ringbuffer_status = "HALFFULL" BY <1>1 DEF rt_ringbuffer_status
  <2>2. rt_ringbuffer_data_len = IF write_index > read_index
                                 THEN write_index - read_index
                                 ELSE BufferSize - (read_index - write_index)
    BY <2>1 DEF rt_ringbuffer_data_len
  <2>3. QED
    BY <1>1, <2>2, BufferSizeAssumption
    DEF Types, Ordering, Ordered, Held, Distance, Index, rt_ringbuffer_space_len
<1>2. CASE read_index = write_index
  <2>1. TrueReadMirror = read_mirror /\ TrueWriteMirror = write_mirror
    BY <1>2 DEF Types, Ambiguous, TrueReadMirror, TrueWriteMirror
  <2>2. CASE read_mirror = write_mirror
    <3>1. rt_ringbuffer_data_len = 0
      BY <1>2, <2>2 DEF rt_ringbuffer_data_len, rt_ringbuffer_status
    <3>2. Held = write_index - read_index BY <2>1, <2>2 DEF Held, Distance
    <3>3. QED BY <1>2, <3>1, <3>2, BufferSizeAssumption DEF Types, Index, rt_ringbuffer_space_len
  <2>3. CASE read_mirror # write_mirror
    <3>1. rt_ringbuffer_data_len = BufferSize
      BY <1>2, <2>3 DEF rt_ringbuffer_data_len, rt_ringbuffer_status
    <3>2. Held = BufferSize + write_index - read_index BY <2>1, <2>3 DEF Held, Distance
    <3>3. QED BY <1>2, <3>1, <3>2, BufferSizeAssumption DEF Types, Index, rt_ringbuffer_space_len
  <2>4. QED BY <2>2, <2>3
<1>3. QED BY <1>1, <1>2

-----------------------------------------------------------------------------
(***************************************************************************)
(* The bytes.                                                              *)
(***************************************************************************)
\* The numbered bytes as a sequence.
LEMMA AscendingProperties ==
  ASSUME NEW f \in Nat, NEW n \in Nat
  PROVE  /\ Ascending(f, n) \in Seq(Int) /\ Len(Ascending(f, n)) = n
         /\ \A i \in 1 .. n : Ascending(f, n)[i] = f - 1 + i
<1>1. Ascending(f, n) \in [1 .. n -> Int] BY DEF Ascending
<1>2. QED BY <1>1 DEF Ascending

\* The numbers go on where they stopped.
LEMMA AscendingConcat ==
  ASSUME NEW m \in Nat, NEW n \in Nat
  PROVE  Ascending(1, m) \o Ascending(m + 1, n) = Ascending(1, m + n)
<1> DEFINE s == Ascending(1, m)
           t == Ascending(m + 1, n)
           u == Ascending(1, m + n)
<1>1. s \in Seq(Int) /\ Len(s) = m /\ \A i \in 1 .. m : s[i] = 1 - 1 + i
  BY AscendingProperties
<1>2. t \in Seq(Int) /\ Len(t) = n /\ \A i \in 1 .. n : t[i] = m + 1 - 1 + i
  <2>1. m + 1 \in Nat OBVIOUS
  <2>2. QED BY <2>1, AscendingProperties
<1>3. u \in Seq(Int) /\ Len(u) = m + n /\ \A i \in 1 .. m + n : u[i] = 1 - 1 + i
  <2>1. m + n \in Nat OBVIOUS
  <2>2. QED BY <2>1, AscendingProperties
<1> HIDE DEF s, t, u
<1>4. /\ s \o t \in Seq(Int) /\ Len(s \o t) = Len(s) + Len(t)
      /\ \A i \in 1 .. Len(s) + Len(t) :
           (s \o t)[i] = IF i <= Len(s) THEN s[i] ELSE t[i - Len(s)]
  BY <1>1, <1>2, ConcatProperties
<1>5. ASSUME NEW i \in 1 .. m + n
      PROVE  (s \o t)[i] = u[i]
  <2>1. i \in Int /\ u[i] = i BY <1>3
  <2>2. (s \o t)[i] = IF i <= m THEN s[i] ELSE t[i - m] BY <1>1, <1>2, <1>4
  <2>3. i <= m => s[i] = i BY <1>1
  <2>4. ~(i <= m) => i - m \in 1 .. n /\ m + 1 - 1 + (i - m) = i OBVIOUS
  <2>5. ~(i <= m) => t[i - m] = i BY <1>2, <2>4
  <2>6. QED BY <2>1, <2>2, <2>3, <2>5
<1>6. Len(s \o t) = Len(u) BY <1>1, <1>2, <1>3, <1>4
<1>7. s \o t = u BY <1>1, <1>2, <1>3, <1>4, <1>5, <1>6, SeqEqual
<1>8. QED BY <1>7 DEF s, t, u

\* A get of no more than what is held returns the next bytes.
LEMMA TakenIsNext ==
  ASSUME Types, Ordering, Bytes, NEW n \in Nat, n <= Held
  PROVE  Taken(n) = Ascending(Len(received) + 1, n)
<1>1. ASSUME NEW i \in 1 .. n
      PROVE  buffer[Wrap(read_index, i - 1)] = Len(received) + i
  <2>1. i - 1 \in 0 .. Held - 1 BY HeldRange
  <2>2. buffer[Wrap(read_index, i - 1)] = Len(received) + 1 + (i - 1) BY <2>1 DEF Bytes
  <2>3. QED BY <2>2 DEF Bytes
<1>2. \A i \in 1 .. n : Len(received) + 1 - 1 + i = Len(received) + i BY DEF Bytes
<1>3. QED BY <1>1, <1>2 DEF Taken, Ascending

\* A block of the next bytes, copied behind the write index into the room,
\* disturbs nothing that is held.
LEMMA FilledBehind ==
  ASSUME Types, Ordering, Bytes, NEW n \in Nat, n <= BufferSize - Held,
         NEW k \in Nat, n <= k,
         buffer' = Filled(NextBytes(k), n)
  PROVE  /\ \A j \in 0 .. Held - 1 :
              buffer'[Wrap(read_index, j)] = Len(received) + 1 + j
         /\ \A j \in 0 .. n - 1 : buffer'[Wrap(write_index, j)] = stored + 1 + j
<1>1. ASSUME NEW j \in 0 .. Held - 1
      PROVE  buffer'[Wrap(read_index, j)] = Len(received) + 1 + j
  <2>1. Wrap(read_index, j) \in Index BY HeldRange, WrapIndex, BufferSizeAssumption DEF Types
  <2>2. AheadOfWrite(Wrap(read_index, j)) >= n
    BY HeldRange, BufferSizeAssumption
    DEF Types, Ordering, Ordered, Held, Distance, Index, Wrap, AheadOfWrite,
        TrueReadMirror, TrueWriteMirror, Flip
  <2>3. AheadOfWrite(Wrap(read_index, j)) \in Int
    BY <2>1, BufferSizeAssumption DEF Types, Index, AheadOfWrite
  <2>4. buffer'[Wrap(read_index, j)] = buffer[Wrap(read_index, j)]
    BY <2>1, <2>2, <2>3 DEF Filled
  <2>5. QED BY <2>4 DEF Bytes
<1>2. ASSUME NEW j \in 0 .. n - 1
      PROVE  buffer'[Wrap(write_index, j)] = stored + 1 + j
  <2>1. j \in 0 .. BufferSize - 1 BY HeldRange, BufferSizeAssumption
  <2>2. Wrap(write_index, j) \in Index BY <2>1, WrapIndex, BufferSizeAssumption DEF Types
  <2>3. AheadOfWrite(Wrap(write_index, j)) = j
    BY <2>1, BufferSizeAssumption DEF Types, Index, Wrap, AheadOfWrite
  <2>4. buffer'[Wrap(write_index, j)] = NextBytes(k)[j + 1] BY <2>2, <2>3 DEF Filled
  <2>5. j + 1 \in 1 .. k /\ stored + (j + 1) = stored + 1 + j BY DEF Types
  <2>6. QED BY <2>4, <2>5 DEF NextBytes
<1>3. QED BY <1>1, <1>2

-----------------------------------------------------------------------------
(***************************************************************************)
(* The inductive invariant.                                                *)
(***************************************************************************)
\* An empty ring.
LEMMA InitPInv == PreemptInit => PInv
<1> SUFFICES ASSUME PreemptInit PROVE PInv OBVIOUS
<1>1. Types BY BufferSizeAssumption DEF PreemptInit, Types, Index
<1>2. Held = 0 /\ Ordering
  BY DEF PreemptInit, Held, Distance, Ordering, Ordered, TrueReadMirror, TrueWriteMirror
<1>3. Len(received) = 0 /\ received = Ascending(1, 0)
  <2>1. Ascending(1, 0) \in Seq(Int) /\ Len(Ascending(1, 0)) = 0 BY AscendingProperties
  <2>2. QED BY <2>1, EmptySeq DEF PreemptInit
<1>4. Bytes
  <2>1. \A j \in 0 .. Held - 1 : buffer[Wrap(read_index, j)] = Len(received) + 1 + j BY <1>2
  <2>2. stored = 0 BY DEF PreemptInit
  <2>3. Held = stored - Len(received) BY <1>2, <1>3, <2>2
  <2>4. QED BY <1>3, <2>1, <2>3 DEF Bytes
<1>5. Putting /\ Getting BY DEF PreemptInit, Putting, Getting
<1>6. QED BY <1>1, <1>2, <1>4, <1>5 DEF PInv

\* The command ring: AndroidCmdHandle puts.
LEMMA PutBeginInv ==
  ASSUME PInv, NEW n \in Nat, PutBegin(n)
  PROVE  PInv'
<1> SUFFICES ASSUME ~torn' PROVE (Types /\ Ordering /\ Bytes /\ Putting /\ Getting)'
  BY DEF PInv
<1>1. Types /\ Ordering /\ Bytes BY DEF PInv, PutBegin
<1>2. Types' BY <1>1 DEF Types, PutBegin, vars, Index
<1>3. Held' = Held /\ Ordering'
  BY <1>1 DEF PutBegin, vars, Held, Ordering, TrueReadMirror, TrueWriteMirror
<1>4. Bytes' BY <1>1, <1>3 DEF PutBegin, vars, Bytes, Wrap
<1>5. ~Ambiguous BY DEF PutBegin, Ambiguous
<1>6. rt_ringbuffer_space_len = BufferSize - Held /\ Held \in 0 .. BufferSize
  BY <1>1, <1>5, HeldIsDataLen, HeldRange
<1>7. length' \in Nat /\ length' <= BufferSize - Held
  BY <1>6, BufferSizeAssumption DEF PutBegin, AtMost
<1>8. Putting' BY <1>3, <1>7 DEF PutBegin, Putting, NextBytes
<1>9. Getting' BY DEF PutBegin, Getting
<1>10. QED BY <1>2, <1>3, <1>4, <1>8, <1>9

\* The copy goes into room that WaterOut does not touch.
LEMMA PutCopyInv ==
  ASSUME PInv, PutCopy
  PROVE  PInv'
<1> SUFFICES ASSUME ~torn' PROVE (Types /\ Ordering /\ Bytes /\ Putting /\ Getting)'
  BY DEF PInv
<1>1. Types /\ Ordering /\ Bytes /\ Putting BY DEF PInv, PutCopy
<1>2. Types' BY <1>1 DEF Types, PutCopy, reader, writer, Index
<1>3. length \in Nat /\ length <= BufferSize - Held /\ bytes = NextBytes(length)
  BY <1>1 DEF Putting, PutCopy
<1>4. Held' = Held /\ Ordering'
  BY <1>1 DEF PutCopy, reader, writer, Held, Ordering, TrueReadMirror, TrueWriteMirror, Reaches
<1>5. /\ \A j \in 0 .. Held - 1 : buffer'[Wrap(read_index, j)] = Len(received) + 1 + j
      /\ \A j \in 0 .. length - 1 : buffer'[Wrap(write_index, j)] = stored + 1 + j
  BY <1>1, <1>3, FilledBehind DEF PutCopy
<1>6. Bytes' BY <1>1, <1>4, <1>5 DEF PutCopy, reader, Bytes, Wrap
<1>7. Putting' BY <1>3, <1>4, <1>5 DEF PutCopy, writer, Putting, NextBytes, Wrap, Reaches
<1>8. Getting' BY DEF PutCopy, Getting
<1>9. QED BY <1>2, <1>4, <1>6, <1>7, <1>8

\* The first store: the mirror runs ahead, the true mirror stays.
LEMMA PutFlipInv ==
  ASSUME PInv, PutFlip
  PROVE  PInv'
<1> SUFFICES ASSUME ~torn' PROVE (Types /\ Ordering /\ Bytes /\ Putting /\ Getting)'
  BY DEF PInv
<1>1. Types /\ Ordering /\ Bytes /\ Putting BY DEF PInv, PutFlip
<1>2. Types' BY <1>1 DEF Types, PutFlip, reader, Flip, Index
<1>3. Reaches(write_index) BY <1>1 DEF Putting, PutFlip
<1>4. TrueWriteMirror' = TrueWriteMirror /\ TrueReadMirror' = TrueReadMirror
  BY <1>1, <1>3 DEF PutFlip, reader, Types, TrueWriteMirror, TrueReadMirror, Reaches, Flip
<1>5. Held' = Held /\ Ordering' BY <1>1, <1>4 DEF PutFlip, reader, Held, Ordering
<1>6. Bytes' BY <1>1, <1>5 DEF PutFlip, reader, Bytes, Wrap
<1>7. Putting' BY <1>1, <1>5 DEF PutFlip, Putting, NextBytes, Wrap
<1>8. Getting' BY DEF PutFlip, Getting
<1>9. QED BY <1>2, <1>5, <1>6, <1>7, <1>8

\* The second: the index follows and the bytes are held.
LEMMA PutStoreInv ==
  ASSUME PInv, PutStore
  PROVE  PInv'
<1> SUFFICES ASSUME ~torn' PROVE (Types /\ Ordering /\ Bytes /\ Putting /\ Getting)'
  BY DEF PInv
<1>1. Types /\ Ordering /\ Bytes /\ Putting BY DEF PInv, PutStore
<1>2. /\ length \in Nat /\ length <= BufferSize - Held
      /\ \A j \in 0 .. length - 1 : buffer[Wrap(write_index, j)] = stored + 1 + j
  BY <1>1 DEF Putting, PutStore
<1>3. /\ TrueReadMirror \in {0, 1} /\ TrueWriteMirror \in {0, 1}
      /\ read_index \in Index /\ write_index \in Index
  BY <1>1 DEF Types, TrueReadMirror, TrueWriteMirror, Flip
<1>4. write_mirror = MirrorAfter(TrueWriteMirror, write_index, length)
  BY <1>1, <1>2, BufferSizeAssumption
  DEF PutStore, Types, TrueWriteMirror, MirrorAfter, Reaches, Flip, Index
<1>5. TrueWriteMirror' = write_mirror /\ TrueReadMirror' = TrueReadMirror
  BY DEF PutStore, reader, TrueWriteMirror, TrueReadMirror
<1>6. /\ Wrap(write_index, length) \in Index
      /\ Ordered(TrueReadMirror, read_index, write_mirror, Wrap(write_index, length))
      /\ Distance(TrueReadMirror, read_index, write_mirror, Wrap(write_index, length))
           = Held + length
  BY <1>1, <1>2, <1>3, <1>4, WriterMoves DEF Ordering, Held
<1>7. Types' BY <1>1, <1>2, <1>6 DEF Types, PutStore, reader, Index
<1>8. Held' = Held + length /\ Ordering' BY <1>5, <1>6 DEF PutStore, reader, Held, Ordering
<1>9. Bytes'
  <2>1. ASSUME NEW j \in 0 .. Held + length - 1
        PROVE  buffer[Wrap(read_index, j)] = Len(received) + 1 + j
    <3>1. CASE j < Held BY <1>1, <3>1, HeldRange DEF Bytes
    <3>2. CASE j >= Held
      <4>1. j - Held \in 0 .. length - 1 /\ j = Held + (j - Held) BY <1>1, <1>2, <3>2, HeldRange
      <4>2. Held + (j - Held) < BufferSize BY <1>1, <1>2, <4>1, HeldRange, BufferSizeAssumption
      <4>3. Wrap(read_index, j) = Wrap(write_index, j - Held)
        BY <1>1, <4>1, <4>2, RoomFollows
      <4>4. buffer[Wrap(write_index, j - Held)] = stored + 1 + (j - Held) BY <1>2, <4>1
      <4>5. QED BY <1>1, <4>3, <4>4, HeldRange DEF Bytes, Types
    <3>3. QED BY <1>1, <3>1, <3>2, HeldRange
  <2>2. Held + length = stored + length - Len(received)
    BY <1>1, <1>2 DEF Bytes, Types
  <2>3. /\ received' = received /\ stored' = stored + length
        /\ buffer' = buffer /\ read_index' = read_index
    BY DEF PutStore, reader
  <2>4. stored \in Nat /\ length \in Nat /\ Held \in Int /\ Len(received) \in Nat
    BY <1>1, <1>2, HeldRange DEF Types, Bytes
  <2>5. Held' = Held + length BY <1>8
  <2>6. Held' = stored' - Len(received') BY <2>2, <2>3, <2>4, <2>5
  <2>7. \A j \in 0 .. Held' - 1 : buffer'[Wrap(read_index', j)] = Len(received') + 1 + j
    BY <2>1, <2>3, <2>4, <2>5
  <2>8. QED BY <1>1, <2>3, <2>6, <2>7 DEF Bytes, Wrap, Ascending
<1>10. Putting' /\ Getting' BY DEF PutStore, Putting, Getting
<1>11. QED BY <1>7, <1>8, <1>9, <1>10

\* The reader, true mirror and index, moves on by n: the bytes that remain.
LEMMA BytesDropped ==
  ASSUME Types, Ordering, Bytes, NEW n \in Nat, n <= Held,
         NEW m \in Int, m = Len(received) + n,
         NEW j \in 0 .. Held - n - 1
  PROVE  buffer[Wrap(Wrap(read_index, n), j)] = m + 1 + j
<1>1. Wrap(Wrap(read_index, n), j) = Wrap(read_index, n + j)
  <2>1. j \in Nat /\ n + j <= BufferSize BY HeldRange, BufferSizeAssumption
  <2>2. QED BY <2>1, WrapWrap DEF Types
<1>2. n + j \in 0 .. Held - 1 BY HeldRange
<1>3. buffer[Wrap(read_index, n + j)] = Len(received) + 1 + (n + j) BY <1>2 DEF Bytes
<1>4. Len(received) + 1 + (n + j) = m + 1 + j BY DEF Bytes
<1>5. QED BY <1>1, <1>3, <1>4

\* What a completed get of the next n bytes leaves of Bytes.
LEMMA BytesGot ==
  ASSUME Types, Ordering, Bytes, NEW n \in Nat, n <= Held,
         received' = received \o Ascending(Len(received) + 1, n),
         read_index' = Wrap(read_index, n),
         Held' = Held - n,
         UNCHANGED <<buffer, stored>>
  PROVE  Bytes' /\ Len(received') = Len(received) + n
<1>1. Len(received) \in Nat /\ received = Ascending(1, Len(received)) BY DEF Bytes
<1>2. received' = Ascending(1, Len(received) + n) BY <1>1, AscendingConcat
<1>3. Len(received') = Len(received) + n
  <2>1. Len(received) + n \in Nat BY <1>1
  <2>2. Len(Ascending(1, Len(received) + n)) = Len(received) + n BY <2>1, AscendingProperties
  <2>3. QED BY <1>2, <2>2
<1>4. Held \in Int /\ stored \in Nat BY HeldRange DEF Types
<1>5. Held - n = stored - (Len(received) + n) BY <1>1, <1>4 DEF Bytes
<1>6. \A j \in 0 .. Held - n - 1 :
        buffer[Wrap(Wrap(read_index, n), j)] = (Len(received) + n) + 1 + j
  <2> DEFINE m == Len(received) + n
  <2>1. m \in Int /\ m = Len(received) + n BY <1>1
  <2> HIDE DEF m
  <2>2. \A j \in 0 .. Held - n - 1 : buffer[Wrap(Wrap(read_index, n), j)] = m + 1 + j
    BY <2>1, BytesDropped
  <2>3. QED BY <2>1, <2>2
<1>7. Bytes'
  <2>1. Len(received') \in Nat /\ received' = Ascending(1, Len(received')) BY <1>1, <1>2, <1>3
  <2>2. Held' = stored' - Len(received') BY <1>3, <1>5
  <2>3. \A j \in 0 .. Held' - 1 : buffer'[Wrap(read_index', j)] = Len(received') + 1 + j
    BY <1>3, <1>6
  <2>4. QED BY <2>1, <2>2, <2>3 DEF Bytes, Wrap, Ascending
<1>8. QED BY <1>3, <1>7

\* The command ring: WaterOut drains it, at any instruction of the put.
LEMMA DrainInv ==
  ASSUME PInv, NEW n \in Nat, Drain(n)
  PROVE  PInv'
<1> SUFFICES ASSUME ~torn' PROVE (Types /\ Ordering /\ Bytes /\ Putting /\ Getting)'
  BY DEF PInv
<1>1. Types /\ Ordering /\ Bytes /\ Putting /\ ~Ambiguous BY DEF PInv, Drain
<1>2. rt_ringbuffer_data_len = Held /\ Held \in 0 .. BufferSize BY <1>1, HeldIsDataLen, HeldRange
<1> DEFINE taken == AtMost(n, Held)
<1>3. taken \in Nat /\ taken <= Held BY <1>2, BufferSizeAssumption DEF AtMost
<1>4. Getting' BY DEF Drain, Getting
<1>5. CASE Held = 0
  <2>1. UNCHANGED ring /\ result' = Returned(0, <<>>)
    BY <1>2, <1>5 DEF Drain, rt_ringbuffer_get
  <2>2. received' = received
    <3>1. received \in Seq(Int) BY <1>1, AscendingProperties DEF Bytes
    <3>2. result'.data = <<>> BY <2>1 DEF Returned
    <3>3. QED BY <3>1, <3>2 DEF Drain
  <2>3. UNCHANGED <<ring, call, use, stored, received>> BY <2>1, <2>2 DEF Drain
  <2>4. Types' BY <1>1, <2>3 DEF Types, ring, call, Index
  <2>5. Held' = Held /\ Ordering'
    BY <1>1, <2>3 DEF ring, call, Held, Ordering, TrueReadMirror, TrueWriteMirror, Reaches
  <2>6. Bytes' BY <1>1, <2>3, <2>5 DEF ring, Bytes, Wrap
  <2>7. Putting' BY <1>1, <2>3, <2>5 DEF ring, call, Putting, NextBytes, Wrap, Reaches
  <2>8. QED BY <1>4, <2>4, <2>5, <2>6, <2>7
<1>6. CASE Held # 0
  <2>1. /\ read_mirror' = MirrorAfter(read_mirror, read_index, taken)
        /\ read_index' = Wrap(read_index, taken)
        /\ result' = Returned(taken, Taken(taken))
        /\ UNCHANGED <<write_mirror, write_index, buffer>>
    BY <1>2, <1>6 DEF Drain, rt_ringbuffer_get
  <2>2. UNCHANGED <<use, call, stored>> BY DEF Drain
  <2> HIDE DEF taken
  <2>3. /\ TrueReadMirror = read_mirror /\ TrueReadMirror' = read_mirror'
        /\ TrueWriteMirror' = TrueWriteMirror
    BY <2>1, <2>2 DEF Drain, call, TrueReadMirror, TrueWriteMirror, Reaches
  <2>4. TrueWriteMirror \in {0, 1} BY <1>1 DEF Types, TrueWriteMirror, Flip
  <2>5. /\ read_mirror' \in {0, 1} /\ read_index' \in Index
        /\ Ordered(read_mirror', read_index', TrueWriteMirror, write_index)
        /\ Distance(read_mirror', read_index', TrueWriteMirror, write_index) = Held - taken
    BY <1>1, <1>3, <2>1, <2>3, <2>4, ReaderMoves DEF Types, Ordering, Held
  <2>6. Types' BY <1>1, <2>1, <2>2, <2>5 DEF Types, call, Index
  <2>7. Held' = Held - taken BY <2>1, <2>3, <2>5 DEF Held
  <2>8. Ordering' BY <2>1, <2>3, <2>5 DEF Ordering
  <2>9. received' = received \o Ascending(Len(received) + 1, taken)
    BY <1>1, <1>3, <2>1, TakenIsNext DEF Drain, Returned
  <2>10. Bytes' BY <1>1, <1>3, <2>1, <2>2, <2>7, <2>9, BytesGot
  <2>11. Putting'
    <3>1. BufferSize - Held <= BufferSize - Held' BY <1>2, <1>3, <2>7, BufferSizeAssumption
    <3>2. length \in Nat /\ length <= BufferSize - Held => length <= BufferSize - Held'
      BY <1>2, <1>3, <2>7, <3>1, BufferSizeAssumption
    <3>3. QED BY <1>1, <2>1, <2>2, <3>2 DEF call, Putting, NextBytes, Wrap, Reaches
  <2>12. QED BY <1>4, <2>6, <2>8, <2>10, <2>11
<1>7. QED BY <1>5, <1>6

\* The answer ring: AndroidCmdHandle gets.
LEMMA GetBeginInv ==
  ASSUME PInv, NEW n \in Nat, GetBegin(n)
  PROVE  PInv'
<1> SUFFICES ASSUME ~torn' PROVE (Types /\ Ordering /\ Bytes /\ Putting /\ Getting)'
  BY DEF PInv
<1>1. Types /\ Ordering /\ Bytes BY DEF PInv, GetBegin
<1>2. Types' BY <1>1 DEF Types, GetBegin, vars, Index
<1>3. Held' = Held /\ Ordering'
  BY <1>1 DEF GetBegin, vars, Held, Ordering, TrueReadMirror, TrueWriteMirror
<1>4. Bytes' BY <1>1, <1>3 DEF GetBegin, vars, Bytes, Wrap
<1>5. ~Ambiguous BY DEF GetBegin, Ambiguous
<1>6. rt_ringbuffer_data_len = Held /\ Held \in 0 .. BufferSize
  BY <1>1, <1>5, HeldIsDataLen, HeldRange
<1>7. length' \in Nat /\ length' <= Held
  BY <1>6, BufferSizeAssumption DEF GetBegin, AtMost
<1>8. Getting' BY <1>3, <1>7 DEF GetBegin, Getting
<1>9. Putting' BY DEF GetBegin, Putting
<1>10. QED BY <1>2, <1>3, <1>4, <1>8, <1>9

\* What is copied out stays held until the index moves.
LEMMA GetCopyInv ==
  ASSUME PInv, GetCopy
  PROVE  PInv'
<1> SUFFICES ASSUME ~torn' PROVE (Types /\ Ordering /\ Bytes /\ Putting /\ Getting)'
  BY DEF PInv
<1>1. Types /\ Ordering /\ Bytes /\ Getting BY DEF PInv, GetCopy
<1>2. Types' BY <1>1 DEF Types, GetCopy, vars, Index
<1>3. length \in Nat /\ length <= Held BY <1>1 DEF Getting, GetCopy
<1>4. Held' = Held /\ Ordering'
  BY <1>1 DEF GetCopy, vars, Held, Ordering, TrueReadMirror, TrueWriteMirror, Reaches
<1>5. Bytes' BY <1>1, <1>4 DEF GetCopy, vars, Bytes, Wrap
<1>6. bytes' = Ascending(Len(received) + 1, length)
  BY <1>1, <1>3, TakenIsNext DEF GetCopy
<1>7. Getting' BY <1>3, <1>4, <1>6 DEF GetCopy, vars, Getting, Ascending, Reaches
<1>8. Putting' BY DEF GetCopy, Putting
<1>9. QED BY <1>2, <1>4, <1>5, <1>7, <1>8

\* The first store of the get ...
LEMMA GetFlipInv ==
  ASSUME PInv, GetFlip
  PROVE  PInv'
<1> SUFFICES ASSUME ~torn' PROVE (Types /\ Ordering /\ Bytes /\ Putting /\ Getting)'
  BY DEF PInv
<1>1. Types /\ Ordering /\ Bytes /\ Getting BY DEF PInv, GetFlip
<1>2. Types' BY <1>1 DEF Types, GetFlip, writer, Flip, Index
<1>3. Reaches(read_index) BY <1>1 DEF Getting, GetFlip
<1>4. TrueReadMirror' = TrueReadMirror /\ TrueWriteMirror' = TrueWriteMirror
  BY <1>1, <1>3 DEF GetFlip, writer, Types, TrueWriteMirror, TrueReadMirror, Reaches, Flip
<1>5. Held' = Held /\ Ordering' BY <1>1, <1>4 DEF GetFlip, writer, Held, Ordering
<1>6. Bytes' BY <1>1, <1>5 DEF GetFlip, writer, Bytes, Wrap
<1>7. Getting' BY <1>1, <1>5 DEF GetFlip, Getting, Ascending
<1>8. Putting' BY DEF GetFlip, Putting
<1>9. QED BY <1>2, <1>5, <1>6, <1>7, <1>8

\* ... and the second, which drops what was copied.
LEMMA GetStoreInv ==
  ASSUME PInv, GetStore
  PROVE  PInv'
<1> SUFFICES ASSUME ~torn' PROVE (Types /\ Ordering /\ Bytes /\ Putting /\ Getting)'
  BY DEF PInv
<1>1. Types /\ Ordering /\ Bytes /\ Getting BY DEF PInv, GetStore
<1>2. /\ length \in Nat /\ length <= Held
      /\ bytes = Ascending(Len(received) + 1, length)
  BY <1>1 DEF Getting, GetStore
<1>3. /\ TrueReadMirror \in {0, 1} /\ TrueWriteMirror \in {0, 1}
      /\ read_index \in Index /\ write_index \in Index
  BY <1>1 DEF Types, TrueReadMirror, TrueWriteMirror, Flip
<1>4. read_mirror = MirrorAfter(TrueReadMirror, read_index, length)
  BY <1>1, <1>2, BufferSizeAssumption
  DEF GetStore, Types, TrueReadMirror, MirrorAfter, Reaches, Flip, Index
<1>5. TrueReadMirror' = read_mirror /\ TrueWriteMirror' = TrueWriteMirror
  BY DEF GetStore, writer, TrueWriteMirror, TrueReadMirror
<1>6. /\ Wrap(read_index, length) \in Index
      /\ Ordered(read_mirror, Wrap(read_index, length), TrueWriteMirror, write_index)
      /\ Distance(read_mirror, Wrap(read_index, length), TrueWriteMirror, write_index)
           = Held - length
  BY <1>1, <1>2, <1>3, <1>4, ReaderMoves DEF Ordering, Held
<1>7. Types' BY <1>1, <1>6 DEF Types, GetStore, writer, Index
<1>8. Held' = Held - length BY <1>5, <1>6 DEF GetStore, writer, Held
<1>9. Ordering' BY <1>5, <1>6 DEF GetStore, writer, Ordering
<1>10. Bytes' BY <1>1, <1>2, <1>8, BytesGot DEF GetStore
<1>11. Putting' /\ Getting' BY DEF GetStore, Putting, Getting
<1>12. QED BY <1>7, <1>9, <1>10, <1>11

\* The answer ring: WaterOut puts, at any instruction of the get.
LEMMA PreemptPutInv ==
  ASSUME PInv, NEW n \in Nat, Put(n)
  PROVE  PInv'
<1> SUFFICES ASSUME ~torn' PROVE (Types /\ Ordering /\ Bytes /\ Putting /\ Getting)'
  BY DEF PInv
<1>1. Types /\ Ordering /\ Bytes /\ Getting /\ ~Ambiguous BY DEF PInv, Put
<1>2. rt_ringbuffer_space_len = BufferSize - Held /\ Held \in 0 .. BufferSize
  BY <1>1, HeldIsDataLen, HeldRange
<1>3. Len(NextBytes(n)) = n
  <2>1. NextBytes(n) \in [1 .. n -> Int] BY <1>1 DEF NextBytes, Types
  <2>2. QED BY <2>1
<1> DEFINE added == AtMost(n, BufferSize - Held)
<1>4. added \in Nat /\ added <= BufferSize - Held /\ added <= n
  BY <1>2, BufferSizeAssumption DEF AtMost
<1>5. Putting' BY DEF Put, Putting
<1>6. CASE BufferSize - Held = 0
  <2>1. UNCHANGED ring /\ result' = Returned(0, <<>>)
    BY <1>2, <1>6 DEF Put, rt_ringbuffer_put
  <2>2. stored' = stored BY <1>1, <2>1 DEF Put, Returned, Types
  <2>3. UNCHANGED <<ring, call, use, stored, received>> BY <2>1, <2>2 DEF Put
  <2>4. Types' BY <1>1, <2>3 DEF Types, ring, call, Index
  <2>5. Held' = Held /\ Ordering'
    BY <1>1, <2>3 DEF ring, call, Held, Ordering, TrueReadMirror, TrueWriteMirror, Reaches
  <2>6. Bytes' BY <1>1, <2>3, <2>5 DEF ring, Bytes, Wrap
  <2>7. Getting' BY <1>1, <2>3, <2>5 DEF ring, call, Getting, Ascending, Reaches
  <2>8. QED BY <1>5, <2>4, <2>5, <2>6, <2>7
<1>7. CASE BufferSize - Held # 0
  <2>1. /\ buffer' = Filled(NextBytes(n), added)
        /\ write_mirror' = MirrorAfter(write_mirror, write_index, added)
        /\ write_index' = Wrap(write_index, added)
        /\ result' = Returned(added, <<>>)
        /\ UNCHANGED reader
    BY <1>2, <1>3, <1>7 DEF Put, rt_ringbuffer_put
  <2>2. UNCHANGED <<use, call, received>> BY DEF Put
  <2> HIDE DEF added
  <2>3. stored' = stored + added BY <2>1 DEF Put, Returned
  <2>4. /\ TrueWriteMirror = write_mirror /\ TrueWriteMirror' = write_mirror'
        /\ TrueReadMirror' = TrueReadMirror
    BY <2>1, <2>2 DEF Put, call, reader, TrueReadMirror, TrueWriteMirror, Reaches
  <2>5. TrueReadMirror \in {0, 1} BY <1>1 DEF Types, TrueReadMirror, Flip
  <2>6. /\ write_mirror' \in {0, 1} /\ write_index' \in Index
        /\ Ordered(TrueReadMirror, read_index, write_mirror', write_index')
        /\ Distance(TrueReadMirror, read_index, write_mirror', write_index') = Held + added
    BY <1>1, <1>4, <2>1, <2>4, <2>5, WriterMoves DEF Types, Ordering, Held
  <2>7. Types' BY <1>1, <1>4, <2>1, <2>2, <2>3, <2>6 DEF Types, call, reader, Index
  <2>8. Held' = Held + added BY <2>1, <2>4, <2>6 DEF Held, reader
  <2>9. Ordering' BY <2>1, <2>4, <2>6 DEF Ordering, reader
  <2>10. Bytes'
    <3>1. /\ \A j \in 0 .. Held - 1 : buffer'[Wrap(read_index, j)] = Len(received) + 1 + j
          /\ \A j \in 0 .. added - 1 : buffer'[Wrap(write_index, j)] = stored + 1 + j
      BY <1>1, <1>4, <2>1, FilledBehind
    <3>2. /\ stored \in Nat /\ Len(received) \in Nat /\ Held = stored - Len(received)
          /\ received = Ascending(1, Len(received))
      BY <1>1 DEF Types, Bytes
    <3>3. ASSUME NEW j \in 0 .. Held + added - 1
          PROVE  buffer'[Wrap(read_index, j)] = Len(received) + 1 + j
      <4>1. CASE j < Held BY <1>2, <3>1, <4>1
      <4>2. CASE j >= Held
        <5>1. /\ j - Held \in 0 .. added - 1 /\ j = Held + (j - Held)
              /\ Held + (j - Held) < BufferSize
          BY <1>2, <1>4, <4>2, BufferSizeAssumption
        <5>2. Wrap(read_index, j) = Wrap(write_index, j - Held) BY <1>1, <5>1, RoomFollows
        <5>3. buffer'[Wrap(write_index, j - Held)] = stored + 1 + (j - Held) BY <3>1, <5>1
        <5>4. QED BY <1>2, <3>2, <5>2, <5>3
      <4>3. QED BY <1>2, <1>4, <4>1, <4>2
    <3>4. received' = received /\ read_index' = read_index BY <2>1, <2>2 DEF reader
    <3>5. Held' = stored' - Len(received') BY <1>2, <1>4, <2>3, <2>8, <3>2, <3>4
    <3>6. \A j \in 0 .. Held' - 1 : buffer'[Wrap(read_index', j)] = Len(received') + 1 + j
      BY <1>2, <1>4, <2>8, <3>3, <3>4
    <3>7. QED BY <3>2, <3>4, <3>5, <3>6 DEF Bytes, Wrap, Ascending
  <2>11. Getting'
    <3>1. length \in Nat /\ length <= Held => length <= Held' BY <1>2, <1>4, <2>8
    <3>2. QED BY <1>1, <2>1, <2>2, <3>1 DEF call, reader, Getting, Ascending, Reaches
  <2>12. QED BY <1>5, <2>7, <2>9, <2>10, <2>11
<1>8. QED BY <1>6, <1>7

\* Every reachable state satisfies the invariant.
LEMMA Inductive == PreemptSpec => []PInv
<1>1. ASSUME PInv, [PreemptNext]_preempt_vars
      PROVE  PInv'
  <2>1. CASE UNCHANGED preempt_vars
    BY <1>1, <2>1
    DEF preempt_vars, vars, call, PInv, Types, Ordering, Bytes, Putting, Getting, Held,
        TrueReadMirror, TrueWriteMirror, Reaches, Wrap, Ascending, NextBytes, Index
  <2>2. ASSUME NEW n \in BlockLengths, PutBegin(n) \/ Put(n)
        PROVE  PInv'
    BY <1>1, <2>2, BlockLengthsAssumption, PutBeginInv, PreemptPutInv
  <2>3. ASSUME NEW n \in Lengths, GetBegin(n) \/ Drain(n)
        PROVE  PInv'
    BY <1>1, <2>3, LengthsAssumption, GetBeginInv, DrainInv
  <2>4. QED
    BY <1>1, <2>1, <2>2, <2>3, PutCopyInv, PutFlipInv, PutStoreInv, GetCopyInv, GetFlipInv,
       GetStoreInv
    DEF PreemptNext
<1>2. QED BY <1>1, InitPInv, PTL DEF PreemptSpec

-----------------------------------------------------------------------------
\* For every buffer size and every interleaving of ringbuffer.c's stores: as long as WaterOut
\* never ran between the two stores of a call that reaches the end of the buffer while the
\* indices met, what was got is what was put, in order, and the rest is still in the ring.
THEOREM InOrder == PreemptSpec => []InOrderUnlessTorn
<1>1. ASSUME PInv, ~torn
      PROVE  /\ received = Ascending(1, Len(received)) /\ Len(received) <= stored
             /\ (use = "commands" /\ ~Ambiguous) \/ pc = "idle" => Contents = Unread
  <2>1. Types /\ Ordering /\ Bytes BY <1>1 DEF PInv
  <2>2. Held \in 0 .. BufferSize BY <2>1, HeldRange
  <2>3. Len(received) <= stored BY <2>1, <2>2 DEF Types, Bytes
  <2>4. ASSUME ~Ambiguous
        PROVE  Contents = Unread
    <3>1. rt_ringbuffer_data_len = Held BY <2>1, <2>4, HeldIsDataLen
    <3>2. Taken(Held) = Ascending(Len(received) + 1, Held) BY <2>1, <2>2, TakenIsNext
    <3>3. QED BY <2>1, <3>1, <3>2 DEF Contents, Unread, Bytes
  <2>5. pc = "idle" => ~Ambiguous BY DEF Ambiguous
  <2>6. QED BY <2>1, <2>3, <2>4, <2>5 DEF Bytes
<1>2. PInv => InOrderUnlessTorn BY <1>1 DEF InOrderUnlessTorn
<1>3. QED BY <1>2, Inductive, PTL

\* The bytes a get has copied stay the next ones, whatever WaterOut puts before the get moves
\* its read index.
THEOREM CopyStable == PreemptSpec => []CopyIsStable
<1>1. PInv => CopyIsStable BY DEF PInv, Getting, CopyIsStable
<1>2. QED BY <1>1, Inductive, PTL

\* Only a full answer ring can be torn: the indices meet after a get's first store only when
\* BufferSize bytes had been held.
THEOREM WindowFull == PreemptSpec => []WindowOnlyWhenFull
<1>1. ASSUME PInv, Ambiguous, ~torn, use = "answers"
      PROVE  stored - Len(received) = BufferSize
  <2>1. Types /\ Ordering /\ Bytes /\ Getting BY <1>1 DEF PInv
  <2>2. read_index = write_index /\ length \in Nat /\ length <= Held /\ Reaches(read_index)
    BY <1>1, <2>1 DEF Ambiguous, Getting
  <2>3. Held = 0 \/ Held = BufferSize
    BY <2>1, <2>2, BufferSizeAssumption DEF Types, Held, Distance, Index
  <2>4. 1 <= length BY <2>1, <2>2, BufferSizeAssumption DEF Types, Reaches, Index
  <2>5. Held = BufferSize BY <2>2, <2>3, <2>4
  <2>6. QED BY <2>1, <2>5 DEF Bytes
<1>2. PInv => WindowOnlyWhenFull BY <1>1 DEF WindowOnlyWhenFull
<1>3. QED BY <1>2, Inductive, PTL
=============================================================================
