---------------------------- MODULE RingPreempted ----------------------------
(***************************************************************************)
(* The rings as the two threads really use them: without a lock.  WaterOut *)
(* (priority 29, the more urgent thread) wakes from its sleep at any       *)
(* instruction of AndroidCmdHandle (30) and is never preempted by it.      *)
(* WaterOut's calls are therefore whole calls of RtRingBuffer, while those *)
(* of AndroidCmdHandle are taken apart at their stores to the struct.      *)
(*                                                                         *)
(* AndroidCmdHandle puts into the command ring, which WaterOut drains, and *)
(* gets from the answer ring, into which WaterOut puts: `use' says which   *)
(* of the two this ring is.  Byte number k put is the value k, so that     *)
(* what arrives can be compared with what was put; 0 stands for the bytes  *)
(* rt_malloc left in the buffer.                                           *)
(***************************************************************************)
EXTENDS RtRingBuffer

CONSTANTS BlockLengths,  \* the lengths of the blocks put
          MaxBytes       \* a bound on the bytes put in a behaviour

ASSUME ByteNumbers == Byte = 0 .. MaxBytes
ASSUME BlockLengthsAssumption == BlockLengths \subseteq Nat

VARIABLES use,       \* "commands" or "answers"
          pc,        \* the next store of AndroidCmdHandle's call, or "idle"
          bytes,     \* what that call puts, or has copied out
          length,    \* its length, as far as the call has settled it
          stored,    \* how many bytes completed puts have stored
          received,  \* the bytes completed gets have returned, in order
          torn       \* did WaterOut run where only one of two stores was made

call == <<pc, bytes, length>>
preempt_vars == <<vars, use, call, stored, received, torn>>

PreemptInit ==
  /\ read_mirror = 0 /\ read_index = 0
  /\ write_mirror = 0 /\ write_index = 0
  /\ buffer = [i \in Index |-> 0]
  /\ result = Returned(0, <<>>)
  /\ use \in {"commands", "answers"}
  /\ pc = "idle" /\ bytes = <<>> /\ length = 0
  /\ stored = 0 /\ received = <<>> /\ torn = FALSE

NextBytes(n) == [i \in 1 .. n |-> stored + i]

\* Between the two stores of a call that reaches the end of the buffer the mirror
\* is already the next pass's and the index still this one's: a ring without
\* unread bytes looks full to WaterOut, a full one empty.
Reaches(index) == BufferSize - index <= length
Ambiguous == /\ pc = "store" /\ read_index = write_index
             /\ Reaches(IF use = "commands" THEN write_index ELSE read_index)

-----------------------------------------------------------------------------
(***************************************************************************)
(* The command ring.                                                       *)
(***************************************************************************)
\* A slip: the block is not cut to the room left.
PutBeginUncut(n) ==
  /\ use = "commands" /\ pc = "idle"
  /\ stored + n <= MaxBytes
  /\ rt_ringbuffer_space_len # 0
  /\ length' = n /\ bytes' = NextBytes(n)
  /\ pc' = "copy"
  /\ UNCHANGED <<vars, use, stored, received, torn>>

\* The space is computed and the length fixed; WaterOut may add to the space
\* afterwards, never take from it.  A put that finds no space returns at once
\* and changes nothing.
PutBegin(n) ==
  /\ use = "commands" /\ pc = "idle"
  /\ stored + n <= MaxBytes
  /\ rt_ringbuffer_space_len # 0
  /\ length' = AtMost(n, rt_ringbuffer_space_len) /\ bytes' = NextBytes(length')
  /\ pc' = "copy"
  /\ UNCHANGED <<vars, use, stored, received, torn>>

PutCopy ==
  /\ use = "commands" /\ pc = "copy"
  /\ buffer' = Filled(bytes, length)
  /\ pc' = IF Reaches(write_index) THEN "flip" ELSE "store"
  /\ UNCHANGED <<reader, writer, result, use, bytes, length, stored, received, torn>>

PutFlip ==
  /\ use = "commands" /\ pc = "flip"
  /\ write_mirror' = Flip(write_mirror)
  /\ pc' = "store"
  /\ UNCHANGED <<reader, write_index, buffer, result, use, bytes, length, stored, received, torn>>

PutStore ==
  /\ use = "commands" /\ pc = "store"
  /\ write_index' = Wrap(write_index, length)
  /\ pc' = "idle"
  /\ stored' = stored + length
  /\ UNCHANGED <<reader, write_mirror, buffer, result, use, bytes, length, received, torn>>

\* WaterOut's turn.
Drain(n) ==
  /\ use = "commands"
  /\ rt_ringbuffer_get(n)
  /\ received' = received \o result'.data
  /\ torn' = (torn \/ Ambiguous)
  /\ UNCHANGED <<use, call, stored>>

-----------------------------------------------------------------------------
(***************************************************************************)
(* The answer ring.                                                        *)
(***************************************************************************)
\* A slip: the get goes on when there is nothing to get.
GetBeginUnchecked(n) ==
  /\ use = "answers" /\ pc = "idle"
  /\ length' = n
  /\ pc' = "copy"
  /\ UNCHANGED <<vars, use, bytes, stored, received, torn>>

\* The length is fixed when the get begins; a put may add bytes afterwards.
\* A get that finds nothing returns at once and changes nothing.
GetBegin(n) ==
  /\ use = "answers" /\ pc = "idle"
  /\ rt_ringbuffer_data_len # 0
  /\ length' = AtMost(n, rt_ringbuffer_data_len)
  /\ pc' = "copy"
  /\ UNCHANGED <<vars, use, bytes, stored, received, torn>>

GetCopy ==
  /\ use = "answers" /\ pc = "copy"
  /\ bytes' = Taken(length)
  /\ pc' = IF Reaches(read_index) THEN "flip" ELSE "store"
  /\ UNCHANGED <<vars, use, length, stored, received, torn>>

GetFlip ==
  /\ use = "answers" /\ pc = "flip"
  /\ read_mirror' = Flip(read_mirror)
  /\ pc' = "store"
  /\ UNCHANGED <<read_index, writer, buffer, result, use, bytes, length, stored, received, torn>>

GetStore ==
  /\ use = "answers" /\ pc = "store"
  /\ read_index' = Wrap(read_index, length)
  /\ received' = received \o bytes
  /\ pc' = "idle"
  /\ UNCHANGED <<read_mirror, writer, buffer, result, use, bytes, length, stored, torn>>

\* WaterOut's turn.
Put(n) ==
  /\ use = "answers"
  /\ stored + n <= MaxBytes
  /\ rt_ringbuffer_put(NextBytes(n))
  /\ stored' = stored + result'.ret
  /\ torn' = (torn \/ Ambiguous)
  /\ UNCHANGED <<use, call, received>>

PreemptNext ==
  \/ \E n \in BlockLengths : PutBegin(n) \/ Put(n)
  \/ \E n \in Lengths : GetBegin(n) \/ Drain(n)
  \/ PutCopy \/ PutFlip \/ PutStore
  \/ GetCopy \/ GetFlip \/ GetStore

PreemptSpec == PreemptInit /\ [][PreemptNext]_preempt_vars

-----------------------------------------------------------------------------
Ascending(first, n) == [i \in 1 .. n |-> first - 1 + i]
Unread == Ascending(Len(received) + 1, stored - Len(received))

\* Preempting a call is harmless except between the two stores of Ambiguous
\* (ringbuffer.c:86-87 and 189-190).  As long as WaterOut never ran there, the
\* bytes got are the bytes put, each once and in order, none before its put was
\* complete, and what has not been got is still in the ring.
InOrderUnlessTorn ==
  ~torn => /\ received = Ascending(1, Len(received))
           /\ Len(received) <= stored
           /\ (use = "commands" /\ ~Ambiguous) \/ pc = "idle" => Contents = Unread

\* What a get has copied is not disturbed by the puts that come before it moves
\* the read index, unless one of them came between its two stores.
CopyIsStable ==
  ~torn /\ use = "answers" /\ pc \in {"flip", "store"} =>
    bytes = Ascending(Len(received) + 1, length)

\* In the answer ring the window is open only while the ring is full.  It holds
\* twenty bytes and takes one per dispense, so that AndroidCmdHandle would have
\* to fall twenty answers behind before a put could hit it.
WindowOnlyWhenFull ==
  Ambiguous /\ ~torn /\ use = "answers" => stored - Len(received) = BufferSize
=============================================================================
