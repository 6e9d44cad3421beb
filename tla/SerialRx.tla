------------------------------ MODULE SerialRx ------------------------------
(***************************************************************************)
(* The receive buffer of the serial driver (components/drivers/serial,     *)
(* opened with RT_DEVICE_FLAG_INT_RX), between the UART's interrupt and    *)
(* the AndroidCmdHandle thread that polls rt_device_read.                  *)
(*                                                                         *)
(* Both sides disable interrupts for one byte at a time, so one byte is    *)
(* one action and an interrupt may fall between any two bytes of a read.   *)
(* Equal indices mean an empty buffer unless is_full says otherwise; the   *)
(* interrupt gives up the oldest byte when its index meets the reader's.   *)
(***************************************************************************)
EXTENDS Integers, Sequences

CONSTANTS Byte,     \* the values of a byte
          bufsz,    \* serial->config.bufsz, RT_SERIAL_RB_BUFSZ = 64 in the code
          Sizes     \* the sizes the thread asks for

ASSUME ByteAssumption == 0 \in Byte
\* With one cell the interrupt would give up the byte it has just stored.
ASSUME BufszAssumption == bufsz \in Nat /\ bufsz >= 2
ASSUME SizesAssumption == Sizes \subseteq Nat \ {0}   \* rt_serial_read returns at once for 0

VARIABLES put_index, get_index, is_full, buffer,   \* struct rt_serial_rx_fifo
          length,     \* the bytes _serial_int_rx has still to fetch, 0 outside it
          data        \* the bytes it has stored for its caller

fifo   == <<put_index, get_index, is_full, buffer>>
vars   == <<put_index, get_index, is_full, buffer, length, data>>

Index == 0 .. bufsz - 1

TypeOK == /\ put_index \in Index /\ get_index \in Index
          /\ is_full \in BOOLEAN
          /\ buffer \in [Index -> Byte]
          /\ length \in Nat
          /\ data \in Seq(Byte)

\* rt_serial_open clears the buffer.
Init == /\ put_index = 0 /\ get_index = 0 /\ is_full = FALSE
        /\ buffer = [i \in Index |-> 0]
        /\ length = 0 /\ data = <<>>

\* A slip: the wrap one position late.
NextIndexLate(i) == IF i + 1 > bufsz THEN 0 ELSE i + 1

NextIndex(i) == IF i + 1 >= bufsz THEN 0 ELSE i + 1

\* A slip: nothing is given up when the indices meet.
rt_hw_serial_isr_unmarked(ch) ==
  /\ buffer' = [buffer EXCEPT ![put_index] = ch]
  /\ put_index' = NextIndex(put_index)
  /\ UNCHANGED <<get_index, is_full, length, data>>

\* One byte from the receive register.
rt_hw_serial_isr(ch) ==
  /\ buffer' = [buffer EXCEPT ![put_index] = ch]
  /\ put_index' = NextIndex(put_index)
  /\ IF put_index' = get_index
     THEN get_index' = NextIndex(get_index) /\ is_full' = TRUE
     ELSE UNCHANGED <<get_index, is_full>>
  /\ UNCHANGED <<length, data>>

\* The thread's calls do not overlap.
rt_serial_read(size) == /\ length = 0
                        /\ length' = size /\ data' = <<>>
                        /\ UNCHANGED fifo

NoData == get_index = put_index /\ ~is_full

\* A slip: the flag is not lowered by a read.
serial_int_rx_sticky ==
  /\ length > 0 /\ ~NoData
  /\ data' = Append(data, buffer[get_index])
  /\ get_index' = NextIndex(get_index)
  /\ length' = length - 1
  /\ UNCHANGED <<put_index, buffer, is_full>>

\* One turn of the loop of _serial_int_rx ...
serial_int_rx == /\ length > 0 /\ ~NoData
                 /\ data' = Append(data, buffer[get_index])
                 /\ get_index' = NextIndex(get_index)
                 /\ is_full' = FALSE
                 /\ length' = length - 1
                 /\ UNCHANGED <<put_index, buffer>>

\* ... and its break.
serial_int_rx_break == /\ length > 0 /\ NoData
                       /\ length' = 0
                       /\ UNCHANGED <<fifo, data>>

Next == \/ \E ch \in Byte : rt_hw_serial_isr(ch)
        \/ \E size \in Sizes : rt_serial_read(size)
        \/ serial_int_rx
        \/ serial_int_rx_break

Spec == Init /\ [][Next]_vars

-----------------------------------------------------------------------------
\* is_full is raised only where the indices cannot be taken for equal: the test
\* of _serial_int_rx for no data never meets equal indices with the flag up.
FlagBesideGap == is_full => get_index = NextIndex(put_index)

\* The bytes between the indices, in the order of arrival.
Held == IF put_index >= get_index THEN put_index - get_index
                                  ELSE bufsz - (get_index - put_index)
Wrap(i, k) == IF i + k < bufsz THEN i + k ELSE i + k - bufsz
Contents == [k \in 1 .. Held |-> buffer[Wrap(get_index, k - 1)]]

\* The driver keeps the last bufsz - 1 bytes not read, whatever the interleaving
\* of interrupt and thread.
Lossy == INSTANCE LossyFifo WITH Capacity <- bufsz - 1, queue <- Contents
ImplementsLossyFifo == Lossy!Spec
=============================================================================
