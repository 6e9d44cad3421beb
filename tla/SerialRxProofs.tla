--------------------------- MODULE SerialRxProofs ---------------------------
(***************************************************************************)
(* Proofs about SerialRx, for every buffer of two cells or more and reads  *)
(* of any size.                                                            *)
(***************************************************************************)
EXTENDS SerialRx, TLAPS, SequenceTheorems

\* FlagBesideGap is what makes `no data' mean an empty buffer.
IInv == TypeOK /\ FlagBesideGap

-----------------------------------------------------------------------------
\* The invariant at the start, ...
LEMMA InitIInv == Init => IInv
<1> SUFFICES ASSUME Init PROVE IInv
  OBVIOUS
<1>1. <<>> \in Seq(Byte)
  BY EmptySeq
<1>2. 0 \in Index
  BY BufszAssumption DEF Index
<1>3. buffer \in [Index -> Byte]
  BY ByteAssumption DEF Init
<1>4. is_full = FALSE /\ is_full \in BOOLEAN
  BY DEF Init
<1> QED BY <1>1, <1>2, <1>3, <1>4 DEF Init, IInv, TypeOK, FlagBesideGap

\* The successor of a position, and that of the successor, are other positions.
LEMMA NextIndexType ==
  ASSUME NEW i \in Index
  PROVE  /\ NextIndex(i) \in Index /\ NextIndex(i) # i
         /\ NextIndex(i) = Wrap(i, 1)
BY BufszAssumption DEF Index, NextIndex, Wrap

\* ... after the interrupt, ...
LEMMA IsrIInv ==
  ASSUME IInv, NEW ch \in Byte, rt_hw_serial_isr(ch)
  PROVE  IInv'
<1>1. /\ buffer' = [buffer EXCEPT ![put_index] = ch]
      /\ put_index' = NextIndex(put_index)
      /\ put_index' = get_index => get_index' = NextIndex(get_index) /\ is_full' = TRUE
      /\ put_index' # get_index => UNCHANGED <<get_index, is_full>>
      /\ UNCHANGED <<length, data>>
  BY DEF rt_hw_serial_isr
<1>2. TypeOK'
  <2>1. put_index' \in Index /\ get_index' \in Index /\ is_full' \in BOOLEAN
    BY <1>1, NextIndexType DEF IInv, TypeOK
  <2> QED BY <1>1, <2>1 DEF IInv, TypeOK
<1>3. FlagBesideGap'
  <2>1. CASE put_index' = get_index
    BY <1>1, <2>1 DEF FlagBesideGap, NextIndex
  <2>2. CASE put_index' # get_index
    <3>1. ~is_full
      BY <1>1, <2>2 DEF IInv, FlagBesideGap
    <3> QED BY <1>1, <2>2, <3>1 DEF FlagBesideGap
  <2> QED BY <2>1, <2>2
<1> QED BY <1>2, <1>3 DEF IInv

\* ... after a read ...
LEMMA ReadIInv ==
  ASSUME IInv, serial_int_rx
  PROVE  IInv'
<1>1. /\ data' \in Seq(Byte) /\ get_index' \in Index /\ length' \in Nat
  <2>1. buffer[get_index] \in Byte /\ data \in Seq(Byte)
    BY DEF IInv, TypeOK
  <2> QED BY <2>1, NextIndexType, AppendProperties DEF serial_int_rx, IInv, TypeOK
<1> QED BY <1>1 DEF serial_int_rx, IInv, TypeOK, FlagBesideGap

\* ... and after any step.
LEMMA StepIInv == IInv /\ [Next]_vars => IInv'
<1> SUFFICES ASSUME IInv, [Next]_vars PROVE IInv'
  OBVIOUS
<1>1. ASSUME NEW ch \in Byte, rt_hw_serial_isr(ch) PROVE IInv'
  BY <1>1, IsrIInv
<1>2. ASSUME NEW size \in Sizes, rt_serial_read(size) PROVE IInv'
  <2>1. size \in Nat /\ <<>> \in Seq(Byte)
    BY SizesAssumption, EmptySeq
  <2> QED BY <1>2, <2>1 DEF rt_serial_read, fifo, IInv, TypeOK, FlagBesideGap, NextIndex
<1>3. CASE serial_int_rx
  BY <1>3, ReadIInv
<1>4. CASE serial_int_rx_break
  BY <1>4 DEF serial_int_rx_break, fifo, IInv, TypeOK, FlagBesideGap, NextIndex
<1>5. CASE UNCHANGED vars
  BY <1>5 DEF vars, IInv, TypeOK, FlagBesideGap, NextIndex
<1> QED BY <1>1, <1>2, <1>3, <1>4, <1>5 DEF Next

\* The invariant always holds.
LEMMA Invariance == Spec => []IInv
BY InitIInv, StepIInv, PTL DEF Spec

\* The driver's indices stay within the buffer whatever interrupts whatever.
THEOREM TypeCorrect == Spec => []TypeOK
<1>1. IInv => TypeOK
  BY DEF IInv
<1> QED BY <1>1, Invariance, PTL

\* The full flag is up only while the reader's index is one step ahead.
THEOREM FlagBesideGapAlways == Spec => []FlagBesideGap
<1>1. IInv => FlagBesideGap
  BY DEF IInv
<1> QED BY <1>1, Invariance, PTL

-----------------------------------------------------------------------------
(***************************************************************************)
(* The contents, and what the two byte operations do to them.              *)
(***************************************************************************)
ContentsProperty ==
  /\ Contents \in Seq(Byte)
  /\ Len(Contents) = Held
  /\ Held \in 0 .. bufsz - 1
  /\ \A k \in 1 .. Held : Contents[k] = buffer[Wrap(get_index, k - 1)]
                          /\ Wrap(get_index, k - 1) \in Index

\* The contents are the bytes from get_index on.
LEMMA ContentsType == IInv => ContentsProperty
<1> SUFFICES ASSUME IInv PROVE ContentsProperty
  OBVIOUS
<1>1. Held \in 0 .. bufsz - 1
  BY BufszAssumption DEF Held, IInv, TypeOK, Index
<1>2. \A k \in 1 .. Held : Wrap(get_index, k - 1) \in Index
  BY <1>1, BufszAssumption DEF Wrap, IInv, TypeOK, Index
<1>3. \A k \in 1 .. Held : buffer[Wrap(get_index, k - 1)] \in Byte
  BY <1>2 DEF IInv, TypeOK
<1> HIDE DEF Held
<1>4. Contents \in Seq(Byte) /\ Len(Contents) = Held
  <2>1. Held \in Nat
    BY <1>1
  <2> QED BY <2>1, <1>3, IsASeq DEF Contents
<1> QED BY <1>1, <1>2, <1>4 DEF ContentsProperty, Contents

\* A byte that arrives becomes the newest one kept; the oldest one goes when all
\* cells but one are taken.
LEMMA ArriveAppends ==
  ASSUME IInv, IInv', NEW ch \in Byte, rt_hw_serial_isr(ch)
  PROVE  Contents' = IF Len(Contents) = bufsz - 1 THEN Append(Tail(Contents), ch)
                                                  ELSE Append(Contents, ch)
<1>1. /\ Contents \in Seq(Byte) /\ Len(Contents) = Held /\ Held \in 0 .. bufsz - 1
      /\ \A k \in 1 .. Held : /\ Contents[k] = buffer[Wrap(get_index, k - 1)]
                              /\ Wrap(get_index, k - 1) \in Index
  BY ContentsType DEF ContentsProperty
<1>2. (IInv => ContentsProperty)'
  BY ContentsType, PTL
<1>3. /\ Contents' \in Seq(Byte) /\ Len(Contents') = Held' /\ Held' \in 0 .. bufsz - 1
      /\ \A k \in 1 .. Held' : /\ Contents'[k] = buffer'[Wrap(get_index', k - 1)]
                               /\ Wrap(get_index', k - 1) \in Index
  BY <1>2 DEF ContentsProperty, Wrap
<1>4. /\ put_index \in Index /\ get_index \in Index
      /\ put_index' = Wrap(put_index, 1) /\ put_index' \in Index
      /\ buffer' = [buffer EXCEPT ![put_index] = ch] /\ buffer \in [Index -> Byte]
  BY NextIndexType DEF rt_hw_serial_isr, IInv, TypeOK
<1>5. CASE put_index' = get_index
  <2> DEFINE new == Append(Tail(Contents), ch)
  <2>1. Held = bufsz - 1
    BY <1>4, <1>5, BufszAssumption DEF Held, Wrap, Index
  <2>2. get_index' = Wrap(get_index, 1)
    BY <1>4, <1>5, NextIndexType DEF rt_hw_serial_isr
  <2>3. Held' = bufsz - 1
    BY <1>4, <1>5, <2>2, BufszAssumption DEF Held, Wrap, Index
  <2>4. Contents # <<>>
    BY <1>1, <2>1, BufszAssumption, EmptySeq
  <2>5. /\ Tail(Contents) \in Seq(Byte) /\ Len(Tail(Contents)) = Len(Contents) - 1
        /\ \A k \in 1 .. Len(Tail(Contents)) : Tail(Contents)[k] = Contents[k + 1]
    BY <1>1, <2>4, HeadTailProperties
  <2>6. /\ new \in Seq(Byte) /\ Len(new) = Len(Tail(Contents)) + 1
        /\ \A k \in 1 .. Len(Tail(Contents)) : new[k] = Tail(Contents)[k]
        /\ new[Len(Tail(Contents)) + 1] = ch
    BY <2>5, AppendProperties
  <2>7. PICK n \in Nat : n = bufsz - 1 /\ n >= 1
    BY BufszAssumption
  <2> HIDE DEF new
  <2>8. /\ Len(new) = n /\ new[n] = ch
        /\ \A k \in 1 .. n - 1 : new[k] = Contents[k + 1]
    BY <1>1, <2>1, <2>5, <2>6, <2>7
  <2>9. ASSUME NEW k \in 1 .. n PROVE Contents'[k] = new[k]
    <3>1. Contents'[k] = buffer'[Wrap(get_index', k - 1)]
      BY <1>3, <2>3, <2>7
    <3>2. CASE k = n
      <4>1. Wrap(get_index', k - 1) = put_index
        BY <1>4, <1>5, <2>2, <2>7, <3>2, BufszAssumption DEF Wrap, Index
      <4> QED BY <3>1, <4>1, <3>2, <2>8, <1>4
    <3>3. CASE k # n
      <4>1. k + 1 \in 1 .. Held /\ k \in 1 .. n - 1
        BY <3>3, <2>1, <2>7
      <4>2. /\ Wrap(get_index', k - 1) = Wrap(get_index, (k + 1) - 1)
            /\ Wrap(get_index, (k + 1) - 1) # put_index
        BY <1>4, <1>5, <2>2, <2>7, <3>3, BufszAssumption DEF Wrap, Index
      <4>3. Contents[k + 1] = buffer[Wrap(get_index, (k + 1) - 1)]
            /\ Wrap(get_index, (k + 1) - 1) \in Index
        BY <1>1, <4>1
      <4> QED BY <3>1, <4>1, <4>2, <4>3, <2>8, <1>4
    <3> QED BY <3>2, <3>3
  <2>10. Contents' = new
    BY <1>3, <2>3, <2>6, <2>7, <2>8, <2>9, SeqEqual
  <2> QED BY <1>1, <2>1, <2>10 DEF new
<1>6. CASE put_index' # get_index
  <2> DEFINE new == Append(Contents, ch)
  <2>1. get_index' = get_index
    BY <1>6 DEF rt_hw_serial_isr
  <2>2. Held' = Held + 1 /\ Held < bufsz - 1
    BY <1>4, <1>6, <2>1, BufszAssumption DEF Held, Wrap, Index
  <2>3. /\ new \in Seq(Byte) /\ Len(new) = Held + 1 /\ new[Held + 1] = ch
        /\ \A k \in 1 .. Held : new[k] = Contents[k]
    BY <1>1, AppendProperties
  <2> HIDE DEF new
  <2>4. Wrap(get_index, Held) = put_index
    BY <1>4, BufszAssumption DEF Wrap, Index, Held
  <2>5. ASSUME NEW k \in 1 .. Held + 1 PROVE Contents'[k] = new[k]
    <3>1. Contents'[k] = buffer'[Wrap(get_index, k - 1)]
      BY <1>3, <2>1, <2>2
    <3>2. CASE k = Held + 1
      <4>1. k - 1 = Held
        BY <3>2, <1>1
      <4> QED BY <3>1, <3>2, <4>1, <2>3, <2>4, <1>4
    <3>3. CASE k # Held + 1
      <4>1. k \in 1 .. Held
        BY <3>3, <1>1
      <4>2. Wrap(get_index, k - 1) # put_index
        BY <4>1, <1>1, <1>4, BufszAssumption DEF Wrap, Index, Held
      <4>3. Contents[k] = buffer[Wrap(get_index, k - 1)] /\ Wrap(get_index, k - 1) \in Index
        BY <4>1, <1>1
      <4> QED BY <3>1, <4>1, <4>2, <4>3, <2>3, <1>4
    <3> QED BY <3>2, <3>3
  <2>6. Contents' = new
    <3> HIDE DEF Held
    <3> QED BY <1>3, <2>2, <2>3, <2>5, SeqEqual
  <2> QED BY <1>1, <2>2, <2>6 DEF new
<1> QED BY <1>5, <1>6

\* A byte that is fetched is the oldest one kept.
LEMMA FetchTakesOldest ==
  ASSUME IInv, IInv', serial_int_rx
  PROVE  /\ Contents # <<>>
         /\ Head(Contents) = buffer[get_index]
         /\ Contents' = Tail(Contents)
<1>1. /\ Contents \in Seq(Byte) /\ Len(Contents) = Held /\ Held \in 0 .. bufsz - 1
      /\ \A k \in 1 .. Held : Contents[k] = buffer[Wrap(get_index, k - 1)]
  BY ContentsType DEF ContentsProperty
<1>2. (IInv => ContentsProperty)'
  BY ContentsType, PTL
<1>3. /\ Contents' \in Seq(Byte) /\ Len(Contents') = Held' /\ Held' \in 0 .. bufsz - 1
      /\ \A k \in 1 .. Held' : Contents'[k] = buffer'[Wrap(get_index', k - 1)]
  BY <1>2 DEF ContentsProperty, Wrap
<1>4. put_index \in Index /\ get_index \in Index /\ get_index # put_index
  <2>1. put_index \in Index /\ get_index \in Index
    BY DEF IInv, TypeOK
  <2>2. CASE is_full
    BY <2>1, <2>2, NextIndexType DEF IInv, FlagBesideGap
  <2>3. CASE ~is_full
    BY <2>1, <2>3 DEF serial_int_rx, NoData
  <2> QED BY <2>1, <2>2, <2>3
<1>5. /\ get_index' = Wrap(get_index, 1) /\ get_index' \in Index
      /\ put_index' = put_index /\ buffer' = buffer
  BY <1>4, NextIndexType DEF serial_int_rx
<1>6. Held >= 1 /\ Held' = Held - 1
  BY <1>4, <1>5, BufszAssumption DEF Held, Wrap, Index
<1>7. Contents # <<>>
  BY <1>1, <1>6, EmptySeq
<1>8. Contents[1] = buffer[get_index]
  <2>1. Wrap(get_index, 1 - 1) = get_index /\ 1 \in 1 .. Held
    BY <1>1, <1>4, <1>6, BufszAssumption DEF Wrap, Index
  <2> QED BY <1>1, <2>1
<1>9. /\ Tail(Contents) \in Seq(Byte) /\ Len(Tail(Contents)) = Held - 1
      /\ \A k \in 1 .. Held - 1 : Tail(Contents)[k] = Contents[k + 1]
  BY <1>1, <1>7, HeadTailProperties
<1>10. ASSUME NEW k \in 1 .. Held - 1 PROVE Contents'[k] = Tail(Contents)[k]
  <2>1. k \in 1 .. Held' /\ k + 1 \in 1 .. Held
    BY <1>1, <1>6
  <2>2. Wrap(get_index', k - 1) = Wrap(get_index, (k + 1) - 1)
    BY <2>1, <1>1, <1>4, <1>5, BufszAssumption DEF Wrap, Index
  <2> QED BY <2>1, <2>2, <1>1, <1>3, <1>5, <1>9
<1>11. Contents' = Tail(Contents)
  <2> HIDE DEF Held
  <2> QED BY <1>3, <1>6, <1>9, <1>10, SeqEqual
<1>12. Head(Contents) = Contents[1]
  BY <1>7, <1>1
<1> QED BY <1>7, <1>8, <1>11, <1>12

\* Every step is one of the promise, or changes nothing of it.
LEMMA NextRefines == IInv /\ IInv' /\ [Next]_vars => [Lossy!Next]_Lossy!vars
<1> SUFFICES ASSUME IInv, IInv', [Next]_vars PROVE [Lossy!Next]_Lossy!vars
  OBVIOUS
<1>0. UNCHANGED fifo => Contents' = Contents
  BY DEF fifo, Contents, Held, Wrap
<1>1. ASSUME NEW ch \in Byte, rt_hw_serial_isr(ch) PROVE Lossy!Next
  <2>1. Lossy!Arrive(ch)
    BY <1>1, ArriveAppends DEF rt_hw_serial_isr, Lossy!Arrive
  <2> QED BY <2>1 DEF Lossy!Next
<1>2. ASSUME NEW size \in Sizes, rt_serial_read(size) PROVE Lossy!Next
  BY <1>0, <1>2 DEF rt_serial_read, Lossy!Start, Lossy!Next
<1>3. CASE serial_int_rx
  <2>1. Lossy!Take
    BY <1>3, FetchTakesOldest DEF serial_int_rx, Lossy!Take
  <2> QED BY <2>1 DEF Lossy!Next
<1>4. CASE serial_int_rx_break
  BY <1>0, <1>4 DEF serial_int_rx_break, Lossy!vars
<1>5. CASE UNCHANGED vars
  BY <1>0, <1>5 DEF vars, fifo, Lossy!vars
<1> QED BY <1>1, <1>2, <1>3, <1>4, <1>5 DEF Next

\* For every buffer size, whatever bytes arrive while the thread reads, the
\* thread gets the bytes in the order of arrival and the driver keeps the last
\* bufsz - 1 of those it has not read.
THEOREM DriverImplementsLossyFifo == Spec => ImplementsLossyFifo
<1>1. Init => Lossy!Init
  <2> SUFFICES ASSUME Init PROVE Contents = <<>> /\ data = <<>>
    BY DEF Lossy!Init
  <2>1. Held = 0
    BY DEF Init, Held
  <2>2. Contents \in Seq(Byte) /\ Len(Contents) = 0
    BY <2>1, InitIInv, ContentsType DEF ContentsProperty
  <2> QED BY <2>2, EmptySeq DEF Init
<1>2. IInv /\ IInv' /\ [Next]_vars => [Lossy!Next]_Lossy!vars
  BY NextRefines
<1> QED BY <1>1, <1>2, Invariance, PTL DEF Spec, ImplementsLossyFifo, Lossy!Spec
=============================================================================
