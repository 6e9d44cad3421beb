------------------------------- MODULE FrameRx -------------------------------
(***************************************************************************)
(* The receiving half of the AndroidCmdHandle thread: reads of what has    *)
(* arrived on the UART are gathered in buffer until it begins and ends with*)
(* 0x7e, and stream_data_handle then takes the payload out of the frame    *)
(* and hands it to data_hanlde (modelled in Dispenser).                    *)
(*                                                                         *)
(* The bytes are real bytes here, for the properties tell a flag from a    *)
(* payload byte of the same value, and a stale byte from a received one.   *)
(* The serial driver's buffer (SerialRx) never overflows within MaxFrames. *)
(***************************************************************************)
EXTENDS Crc16, FiniteSets

CONSTANTS Payloads,    \* what the tablet may put into a frame
          MaxFrames,   \* a bound on how many frames it sends
          BufferSize,  \* sizeof(buffer), 40 in the code
          Stale        \* what the uninitialised buffer may hold, byte by byte alike

FLAG == 126                 \* 0x7e
DIRDIRECTION_CTS == 1
CHANNEL_ONE      == 1

\* A frame fits into the buffer, and its length into an unsigned char.  The
\* shortest has eight bytes.
ASSUME PayloadsAssumption ==
         /\ BufferSize \in Nat /\ BufferSize >= 8 /\ MaxFrames \in Nat
         /\ \A p \in Payloads : /\ p \in Seq(0 .. 255) /\ Len(p) > 0
                               /\ Len(p) + 7 <= BufferSize /\ Len(p) + 7 <= 255
ASSUME StaleAssumption == Stale \subseteq 0 .. 255

VARIABLES
  sent,      \* the payloads sent, in order
  wire,      \* the bytes that have arrived and are not read
  buffer, cnt,
  handled,   \* the payloads handed to data_hanlde
  apart      \* FALSE once a read cut a frame at an inner 0x7e or joined two

vars == <<sent, wire, buffer, cnt, handled, apart>>

TypeOK == /\ sent \in Seq(Payloads) /\ Len(sent) <= MaxFrames
          /\ wire \in Seq(0 .. 255)
          /\ buffer \in [1 .. BufferSize -> 0 .. 255]
          /\ cnt \in 0 .. BufferSize - 1
          /\ handled \in Seq(Seq(0 .. 255))
          /\ apart \in BOOLEAN

Init == /\ sent = <<>> /\ wire = <<>> /\ handled = <<>>
        /\ buffer \in {[i \in 1 .. BufferSize |-> b] : b \in Stale}
        /\ cnt = 0 /\ apart = TRUE

AtMost(m, n) == IF m <= n THEN m ELSE n

-----------------------------------------------------------------------------
\* The tablet's frame: flag, direction, channel, length, payload, checksum of
\* what lies between, flag.  The checksum's low byte comes first, as in the
\* sample of protocol.txt:42, though the text of protocol.txt:1-4 has numbers
\* high byte first.
Frame(payload) ==
  LET body == <<DIRDIRECTION_CTS, CHANNEL_ONE, Len(payload)>> \o payload
      crc  == crc16_calculate(body)
      high == {e \in 0 .. 7 : e + 8 \in crc}
  IN <<FLAG>> \o body \o <<ByteOf(crc), ByteOf(high), FLAG>>

Send(payload) == /\ Len(sent) < MaxFrames
                 /\ sent' = Append(sent, payload)
                 /\ wire' = wire \o Frame(payload)
                 /\ UNCHANGED <<buffer, cnt, handled, apart>>

-----------------------------------------------------------------------------
(***************************************************************************)
(* stream_data_handle.  With CHANNEL_ONE, the only channel it lets pass,   *)
(* `length' is 1, the payload's length is the fourth byte, and the package *)
(* length is computed in an unsigned char.  The checksum is compared with  *)
(* a uint16_t read from memory, low byte first on this processor.          *)
(***************************************************************************)
data_length(b) == b[4]
pck_length(b)  == (6 + data_length(b) + 1) % 256

\* Whether the package, as long as it says it is, lies within the buffer.
Within(b) == pck_length(b) \in 7 .. BufferSize

\* A slip: any checksum will do.
CrcUnchecked(b) == TRUE

CrcMatches(b) ==
  LET n == pck_length(b)
  IN crc16_calculate(SubSeq(b, 2, n - 3)) = Bits(b[n - 2]) \cup Up(Bits(b[n - 1]), 8)

\* The payloads that stream_data_handle may hand on: at most one.  When the
\* package reaches beyond the buffer, memory that nothing here describes decides.
stream_data_handle(b) ==
  IF b[2] # DIRDIRECTION_CTS \/ b[3] # CHANNEL_ONE THEN {<<>>}
  ELSE IF ~Within(b) THEN {<<>>} \cup Payloads
  ELSE IF CrcMatches(b) THEN {SubSeq(b, 5, 4 + data_length(b))}
  ELSE {<<>>}

FrameLength(payload) == Len(payload) + 7

\* How many bytes the first i frames sent take; where they end in the stream.
EndOf(frames, i) ==
  LET end[j \in 0 .. Len(frames)] == IF j = 0 THEN 0
                                     ELSE end[j - 1] + FrameLength(frames[j])
  IN end[i]
FrameEnds == {EndOf(sent, i) : i \in 1 .. Len(sent)}
BytesRead == EndOf(sent, Len(sent)) - Len(wire)

\* A read of k bytes keeps to one frame, and ends in 0x7e only at its end.
KeepsApart(k) ==
  /\ \A end \in FrameEnds : ~(BytesRead < end /\ end < BytesRead + k)
  /\ wire[k] = FLAG => BytesRead + k \in FrameEnds

\* A slip: the gathered bytes are kept when they are a frame.
GatherKept(b, filled) ==
  IF b[1] = FLAG /\ b[filled] = FLAG
  THEN /\ \E payload \in stream_data_handle(b) :
            handled' = IF payload = <<>> THEN handled ELSE Append(handled, payload)
       /\ cnt' = IF filled >= BufferSize THEN 0 ELSE filled
  ELSE /\ cnt' = IF filled >= BufferSize THEN 0 ELSE filled
       /\ UNCHANGED handled

\* A slip: a full buffer that is not a frame stays as it is.
GatherFull(b, filled) ==
  IF b[1] = FLAG /\ b[filled] = FLAG
  THEN /\ \E payload \in stream_data_handle(b) :
            handled' = IF payload = <<>> THEN handled ELSE Append(handled, payload)
       /\ cnt' = 0
  ELSE cnt' = filled /\ UNCHANGED handled

\* What follows a read that leaves the first `filled' bytes of b gathered.
Gather(b, filled) ==
  IF b[1] = FLAG /\ b[filled] = FLAG
  THEN /\ \E payload \in stream_data_handle(b) :
            handled' = IF payload = <<>> THEN handled ELSE Append(handled, payload)
       /\ cnt' = 0
  ELSE /\ cnt' = IF filled >= BufferSize THEN 0 ELSE filled
       /\ UNCHANGED handled

\* One turn of run's loop with something to read: k bytes have arrived.
Read(k) ==
  /\ k \in 1 .. AtMost(Len(wire), BufferSize - cnt)
  /\ buffer' = [i \in 1 .. BufferSize |->
                  IF i \in cnt + 1 .. cnt + k THEN wire[i - cnt] ELSE buffer[i]]
  /\ Gather(buffer', cnt + k)
  /\ wire' = SubSeq(wire, k + 1, Len(wire))
  /\ apart' = (apart /\ KeepsApart(k))
  /\ UNCHANGED sent

Next == \/ \E p \in Payloads : Send(p)
        \/ \E k \in 1 .. BufferSize : Read(k)

Spec == Init /\ [][Next]_vars

-----------------------------------------------------------------------------
\* Whatever the reads cut or join and whatever stale bytes lie in buffer, a
\* payload is handed on only if the tablet sent it.
OnlySentHandled == \A i \in DOMAIN handled : \E j \in DOMAIN sent : handled[i] = sent[j]

\* However a frame is cut into reads, it is handed on once and in its turn as
\* soon as it is complete, provided no read ends in an inner 0x7e and none holds
\* bytes of two frames: cnt starts anew exactly when a frame is complete, and a
\* frame as long as the buffer is still taken.
HandledOnce ==
  handled = SubSeq(sent, 1, Cardinality({i \in DOMAIN sent : EndOf(sent, i) <= BytesRead}))

ReassembledUnlessCut == apart => HandledOnce

\* The loop of crc16_calculate computes the remainder by the CCITT polynomial, the
\* checksum of protocol.txt:6-23 that the tablet computes, for every run of bytes
\* that is ever gathered.
ChecksumIsRemainder ==
  LET gathered == SubSeq(buffer, 1, cnt)
  IN crc16_calculate(gathered) = Remainder(Degrees(gathered), 8 * Len(gathered))

-----------------------------------------------------------------------------
\* protocol.txt:30-33: a command sent once has one course of answers.  The code
\* handles some frames again: a read that holds nothing but a frame's first 0x7e
\* passes for a frame, whatever the buffer still holds behind it.
Times(p, seq) == Cardinality({i \in DOMAIN seq : seq[i] = p})

HandledAtMostOnce == \A p \in Payloads : Times(p, handled) <= Times(p, sent)
=============================================================================
