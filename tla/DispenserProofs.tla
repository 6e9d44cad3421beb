--------------------------- MODULE DispenserProofs ---------------------------
(***************************************************************************)
(* What the dispensing core guarantees for every set of payloads and any   *)
(* number of them: the types, that commands are executed whole and in      *)
(* order, that the flag tells the truth, and that running water is never   *)
(* stopped.                                                                *)
(***************************************************************************)
EXTENDS Dispenser, SequenceTheorems, TLAPS

\* Why a second command never gets into the ring whole: the first one leaves
\* less room than the shortest command that may be put in front of WaterOut.
Holds(c) == /\ c \in Seq(Byte)
            /\ c[1] \in {DISPENSE, CALIBRATE}
            /\ Len(c) = CommandLength(c[1])
            /\ Len(c) <= Len(ringbuffer_watercontrol)
            /\ \A i \in 1 .. Len(c) : ringbuffer_watercontrol[i] = c[i]

\* The ring between polls: empty, or one accepted command and perhaps the
\* fragment of a refused one behind it.
RingBetweenPolls ==
  waterout = "sleep" =>
    \/ ringbuffer_watercontrol = <<>> /\ accepted = executed
    \/ \E c \in Seq(Byte) : Holds(c) /\ accepted = Append(executed, c)

\* A handler at work has a frame of its own; a stop reaches its put only while
\* water runs.
HandlerHasFrame ==
  /\ android # "idle" => frame \in Frames /\ frame[1] \in {DISPENSE, CALIBRATE, STOP}
  /\ android = "put" /\ frame[1] = STOP => waterout = "wait"

IInv ==
  /\ TypeOK
  /\ stop_flag = 0
  /\ water_flag = 1 <=> waterout = "wait"
  /\ HandlerHasFrame
  /\ ExecutedInOrder
  /\ RingBetweenPolls

-----------------------------------------------------------------------------
(***************************************************************************)
(* Prefixes, and the constants.                                            *)
(***************************************************************************)

\* A sequence is a prefix of itself.
LEMMA PrefixRefl ==
  ASSUME NEW S, NEW s \in Seq(S)
  PROVE  IsPrefixOf(s, s)
<1>1. SubSeq(s, 1, Len(s)) = s
  BY SubSeqFull
<1>2. Len(s) \in Nat
  BY LenProperties
<1> QED BY <1>1, <1>2 DEF IsPrefixOf

\* What was a prefix stays one when the longer sequence grows.
LEMMA PrefixAppend ==
  ASSUME NEW S, NEW s \in Seq(S), NEW t \in Seq(S), NEW e \in S, IsPrefixOf(s, t)
  PROVE  IsPrefixOf(s, Append(t, e))
<1> DEFINE u == Append(t, e)
<1>1. /\ u \in Seq(S) /\ Len(u) = Len(t) + 1
      /\ \A i \in 1 .. Len(t) : u[i] = t[i]
  BY AppendProperties
<1>2. Len(s) \in Nat /\ Len(t) \in Nat /\ Len(s) <= Len(t) /\ s = SubSeq(t, 1, Len(s))
  BY LenProperties DEF IsPrefixOf
<1>3. \A i \in 1 .. Len(s) : t[i] \in S /\ u[i] \in S
  <2> TAKE i \in 1 .. Len(s)
  <2>1. i \in 1 .. Len(t) /\ i \in 1 .. Len(u)
    BY <1>1, <1>2
  <2> QED BY <1>1, <2>1, ElementOfSeq
<1>4. /\ SubSeq(t, 1, Len(s)) \in Seq(S) /\ Len(SubSeq(t, 1, Len(s))) = Len(s)
      /\ \A i \in 1 .. Len(s) : SubSeq(t, 1, Len(s))[i] = t[i]
  <2> HIDE DEF u
  <2>1. /\ SubSeq(t, 1, Len(s)) \in Seq(S)
        /\ Len(SubSeq(t, 1, Len(s))) = IF 1 <= Len(s) THEN Len(s)-1+1 ELSE 0
        /\ \A i \in 1 .. Len(s)-1+1 : SubSeq(t, 1, Len(s))[i] = t[1+i-1]
    BY <1>2, <1>3, SubSeqProperties
  <2> QED BY <2>1, <1>2
<1>5. /\ SubSeq(u, 1, Len(s)) \in Seq(S) /\ Len(SubSeq(u, 1, Len(s))) = Len(s)
      /\ \A i \in 1 .. Len(s) : SubSeq(u, 1, Len(s))[i] = u[i]
  <2> HIDE DEF u
  <2>1. /\ SubSeq(u, 1, Len(s)) \in Seq(S)
        /\ Len(SubSeq(u, 1, Len(s))) = IF 1 <= Len(s) THEN Len(s)-1+1 ELSE 0
        /\ \A i \in 1 .. Len(s)-1+1 : SubSeq(u, 1, Len(s))[i] = u[1+i-1]
    BY <1>2, <1>3, SubSeqProperties
  <2> QED BY <2>1, <1>2
<1>6. \A i \in 1 .. Len(s) : SubSeq(u, 1, Len(s))[i] = s[i]
  <2> HIDE DEF u
  <2> QED BY <1>1, <1>2, <1>4, <1>5
<1>7. s = SubSeq(u, 1, Len(s))
  <2> HIDE DEF u
  <2> QED BY <1>2, <1>5, <1>6, SeqEqual
<1> QED BY <1>1, <1>2, <1>7 DEF IsPrefixOf

\* The command ring holds eight bytes.
LEMMA RingSizeIs8 == RingSize = 8 /\ AnswerRingSize = 20
BY DEF RingSize, AnswerRingSize, RT_ALIGN_DOWN

-----------------------------------------------------------------------------
(***************************************************************************)
(* The initial states and each action keep the invariant.                  *)
(***************************************************************************)
LEMMA InitIInv == Init => IInv
<1> SUFFICES ASSUME Init PROVE IInv
  OBVIOUS
<1>1. <<>> \in Seq(Byte) /\ <<>> \in Seq(Seq(Byte)) /\ <<>> \in Seq(Byte \X Byte)
      /\ \A S : Len(<<>>) = 0
  BY EmptySeq
<1>2. TypeOK
  BY <1>1, RingSizeIs8, MaxFramesAssumption DEF Init, TypeOK, Byte
<1>3. ExecutedInOrder
  BY <1>1, PrefixRefl DEF Init, ExecutedInOrder
<1> QED BY <1>2, <1>3 DEF Init, IInv, HandlerHasFrame, RingBetweenPolls

\* What every payload of the tablet is, to the provers.
LEMMA FrameBytes ==
  ASSUME NEW f \in Frames
  PROVE  /\ f \in Seq(Byte) /\ Len(f) \in Nat /\ Len(f) >= 2 /\ f[1] \in Byte
         /\ f[1] \in {DISPENSE, CALIBRATE} => Len(f) = CommandLength(f[1])
<1>1. f \in Seq(Byte) /\ Len(f) >= 2 /\ Len(f) \in Nat
  BY FramesAssumption, LenProperties
<1>2. 1 \in 1 .. Len(f)
  BY <1>1
<1> QED BY <1>1, <1>2, FramesAssumption, ElementOfSeq

\* An answer added keeps the sequence of answers one.
LEMMA SendTyped ==
  ASSUME TypeOK, NEW c \in Byte, NEW r \in Byte, send(c, r)
  PROVE  toTablet' \in Seq(Byte \X Byte)
<1>1. toTablet \in Seq(Byte \X Byte) /\ <<c, r>> \in Byte \X Byte
  BY DEF TypeOK
<1> QED BY <1>1, AppendProperties DEF send

\* A payload is taken in, and its receipt acknowledged.
LEMMA TakingInKeepsIInv ==
  ASSUME IInv, NEW f \in Frames, data_hanlde(f)
  PROVE  IInv'
<1> USE DEF data_hanlde, waterout_vars
<1>0. f[1] \in Byte
  BY FrameBytes
<1>1. TypeOK'
  <2>1. toTablet' \in Seq(Byte \X Byte)
    <3>1. CASE f[1] \in {DISPENSE, CALIBRATE, STOP}
      <4>1. STARTED \in Byte /\ send(f[1], STARTED) /\ TypeOK
        BY <3>1 DEF IInv, STARTED, Byte
      <4> QED BY <4>1, <1>0, SendTyped
    <3>2. CASE f[1] \notin {DISPENSE, CALIBRATE, STOP}
      BY <3>2 DEF IInv, TypeOK
    <3> QED BY <3>1, <3>2
  <2>2. handled' \in 0 .. MaxFrames
    BY MaxFramesAssumption DEF IInv, TypeOK
  <2>3. android' \in {"idle", "check", "put"}
    BY DEF IInv, TypeOK
  <2> QED BY <2>1, <2>2, <2>3 DEF IInv, TypeOK
<1>2. HandlerHasFrame'
  BY DEF IInv, HandlerHasFrame
<1>3. ExecutedInOrder'
  BY DEF IInv, ExecutedInOrder
<1>4. RingBetweenPolls'
  BY DEF IInv, RingBetweenPolls, Holds
<1> QED BY <1>1, <1>2, <1>3, <1>4 DEF IInv

\* The handler looks at water_flag, and refuses or goes on.
LEMMA CheckingKeepsIInv ==
  ASSUME IInv, check_busy
  PROVE  IInv'
<1> USE DEF check_busy, waterout_vars
<1>0. frame \in Frames /\ frame[1] \in Byte
  BY FrameBytes DEF IInv, HandlerHasFrame
<1>c. STARTED \in Byte /\ SUCCEEDED \in Byte /\ STOP \in Byte /\ TypeOK
  BY DEF STARTED, SUCCEEDED, STOP, Byte, IInv
<1>1. TypeOK'
  <2>1. toTablet' \in Seq(Byte \X Byte) /\ covered' \in Nat /\ android' \in {"idle", "check", "put"}
    <3>0. Len(accepted) \in Nat
      BY <1>c, LenProperties DEF TypeOK
    <3>1. CASE send(frame[1], STARTED) /\ android' = "idle" /\ UNCHANGED covered
      BY <3>1, <1>0, <1>c, SendTyped DEF TypeOK
    <3>2. CASE answer_stop(SUCCEEDED) /\ android' = "idle"
      BY <3>2, <3>0, <1>c, SendTyped DEF TypeOK, answer_stop
    <3>3. CASE android' = "put" /\ UNCHANGED <<toTablet, covered>>
      BY <3>3, <1>c DEF TypeOK
    <3> QED BY <3>1, <3>2, <3>3
  <2> QED BY <2>1, <1>c DEF TypeOK
<1>2. HandlerHasFrame'
  BY DEF IInv, HandlerHasFrame
<1>3. ExecutedInOrder'
  BY DEF IInv, ExecutedInOrder
<1>4. RingBetweenPolls'
  BY DEF IInv, RingBetweenPolls, Holds
<1> QED BY <1>1, <1>2, <1>3, <1>4 DEF IInv

\* An answer of WaterOut is passed on to the tablet.
LEMMA PassingOnKeepsIInv ==
  ASSUME IInv, poll_answers
  PROVE  IInv'
<1> USE DEF poll_answers, waterout_vars
<1>1. TypeOK'
  <2>0. DISPENSE \in Byte /\ SUCCEEDED \in Byte /\ TypeOK
    BY DEF DISPENSE, SUCCEEDED, Byte, IInv
  <2>1. toTablet' \in Seq(Byte \X Byte)
    BY <2>0, SendTyped DEF TypeOK
  <2>2. ringbuffer_androidTx' \in Seq(Byte)
    BY <2>0, HeadTailProperties DEF TypeOK
  <2> QED BY <2>0, <2>1, <2>2 DEF TypeOK
<1>2. HandlerHasFrame'
  BY DEF IInv, HandlerHasFrame
<1>3. ExecutedInOrder'
  BY DEF IInv, ExecutedInOrder
<1>4. RingBetweenPolls'
  BY DEF IInv, RingBetweenPolls, Holds
<1> QED BY <1>1, <1>2, <1>3, <1>4 DEF IInv

\* With stop_flag down, msleep_timeout changes nothing.
LEMMA WaitingKeepsIInv ==
  ASSUME IInv, msleep_timeout
  PROVE  IInv' /\ waterout' = "wait"
<1>1. /\ waterout = "wait"
      /\ UNCHANGED <<waterout, water_flag, valve, stop_flag, ringbuffer_androidTx,
                     ringbuffer_watercontrol, data, pre_out_ml, water_flow, outlet,
                     executed, android_vars>>
  BY DEF msleep_timeout, IInv
<1> QED BY <1>1 DEF IInv, TypeOK, HandlerHasFrame, ExecutedInOrder, RingBetweenPolls, Holds, android_vars

\* The part of a put that fits.
LEMMA AtMostFits ==
  ASSUME NEW m \in Nat, NEW k \in Nat
  PROVE  AtMost(m, k) \in 0 .. m /\ AtMost(m, k) <= k
BY DEF AtMost

\* The room that so many bytes in the ring leave.
LEMMA Room ==
  ASSUME NEW used \in Nat, used <= RingSize
  PROVE  used \in 0 .. 8 /\ RingSize - used = 8 - used /\ RingSize - used \in Nat
BY RingSizeIs8

\* A command in the ring leaves no room for another.
LEMMA NoRoomForTwo ==
  ASSUME NEW used \in 0 .. 8, NEW first \in {5, 6}, first <= used,
         NEW second \in {5, 6}, NEW k, k <= 8 - used, k \in 0 .. second
  PROVE  k # second
OBVIOUS

\* A put extends the ring, within its size.  Behind an accepted command there is
\* no room for another one whole.
LEMMA PuttingKeepsIInv ==
  ASSUME IInv, put_command
  PROVE  IInv'
<1> DEFINE bytes == IF frame[1] = STOP THEN <<STOP>> ELSE frame
           room  == RingSize - Len(ringbuffer_watercontrol)
           n     == AtMost(Len(bytes), room)
           whole == n = Len(bytes)
           part  == SubSeq(bytes, 1, n)
<1>0. /\ frame \in Frames /\ frame \in Seq(Byte) /\ Len(frame) \in Nat
      /\ frame[1] \in {DISPENSE, CALIBRATE, STOP}
      /\ frame[1] # STOP => Len(frame) = CommandLength(frame[1]) /\ Len(frame) \in {5, 6}
  <2>1. frame \in Frames /\ frame[1] \in {DISPENSE, CALIBRATE, STOP}
    BY DEF IInv, HandlerHasFrame, put_command
  <2> QED BY <2>1, FrameBytes DEF CommandLength, DISPENSE, CALIBRATE, STOP
<1>1. /\ android = "put" /\ android' = "idle"
      /\ ringbuffer_watercontrol' = ringbuffer_watercontrol \o part
      /\ accepted' = IF whole THEN Append(accepted, bytes) ELSE accepted
      /\ \/ frame[1] = STOP /\ answer_stop(IF whole THEN SUCCEEDED ELSE FAILED)
         \/ frame[1] # STOP /\ whole /\ UNCHANGED <<toTablet, covered>>
         \/ frame[1] # STOP /\ ~whole /\ send(DISPENSE, FAILED) /\ UNCHANGED covered
      /\ UNCHANGED <<frame, handled, ringbuffer_androidTx, water_flag, waterout_vars>>
  BY DEF put_command
<1>2. /\ bytes \in Seq(Byte) /\ Len(bytes) \in Nat /\ bytes # <<>>
      /\ frame[1] # STOP => bytes = frame
  <2>1. STOP \in Byte
    BY DEF STOP, Byte
  <2>2. <<STOP>> \in Seq(Byte) /\ Len(<<STOP>>) = 1
    BY <2>1
  <2>3. CASE frame[1] = STOP
    BY <2>2, <2>3
  <2>4. CASE frame[1] # STOP
    <3>1. Len(frame) # 0 /\ Len(<<>>) = 0
      BY <1>0, <2>4
    <3> QED BY <1>0, <2>4, <3>1
  <2> QED BY <2>3, <2>4
<1>3. /\ ringbuffer_watercontrol \in Seq(Byte) /\ Len(ringbuffer_watercontrol) \in 0 .. 8
      /\ room = 8 - Len(ringbuffer_watercontrol) /\ room \in Nat /\ TypeOK
  <2>1. /\ TypeOK
        /\ ringbuffer_watercontrol \in Seq(Byte) /\ Len(ringbuffer_watercontrol) <= RingSize
    BY DEF IInv, TypeOK
  <2>2. Len(ringbuffer_watercontrol) \in Nat
    BY <2>1, LenProperties
  <2> QED BY <2>1, <2>2, Room
<1> HIDE DEF bytes, room
<1>4. n \in 0 .. Len(bytes) /\ n <= room
  BY <1>2, <1>3, AtMostFits
<1>5. part \in Seq(Byte) /\ Len(part) = n
  <2>1. \A i \in 1 .. n : bytes[i] \in Byte
    BY <1>2, <1>4, ElementOfSeq
  <2> HIDE DEF n
  <2>2. /\ SubSeq(bytes, 1, n) \in Seq(Byte)
        /\ Len(SubSeq(bytes, 1, n)) = IF 1 <= n THEN n-1+1 ELSE 0
    BY <1>4, <2>1, SubSeqProperties
  <2> QED BY <1>4, <2>2
<1> HIDE DEF part
<1>6. /\ ringbuffer_watercontrol' \in Seq(Byte)
      /\ Len(ringbuffer_watercontrol') = Len(ringbuffer_watercontrol) + n
      /\ \A i \in 1 .. Len(ringbuffer_watercontrol) :
           ringbuffer_watercontrol'[i] = ringbuffer_watercontrol[i]
  <2> HIDE DEF n
  <2>1. ringbuffer_watercontrol' = ringbuffer_watercontrol \o part
    BY <1>1
  <2>2. /\ ringbuffer_watercontrol \o part \in Seq(Byte)
        /\ Len(ringbuffer_watercontrol \o part) = Len(ringbuffer_watercontrol) + Len(part)
        /\ \A i \in 1 .. Len(ringbuffer_watercontrol) + Len(part) :
             (ringbuffer_watercontrol \o part)[i] =
               IF i <= Len(ringbuffer_watercontrol)
               THEN ringbuffer_watercontrol[i] ELSE part[i - Len(ringbuffer_watercontrol)]
    BY <1>3, <1>5, ConcatProperties
  <2>3. Len(ringbuffer_watercontrol) \in Nat /\ n \in Nat
    BY <1>2, <1>3, <1>4
  <2>4. ASSUME NEW i \in 1 .. Len(ringbuffer_watercontrol)
        PROVE  ringbuffer_watercontrol'[i] = ringbuffer_watercontrol[i]
    <3>1. i \in 1 .. Len(ringbuffer_watercontrol) + Len(part) /\ i <= Len(ringbuffer_watercontrol)
      BY <2>3, <1>5
    <3> QED BY <3>1, <2>1, <2>2
  <2> QED BY <2>1, <2>2, <2>4, <1>5
<1>7. accepted' \in Seq(Seq(Byte))
  BY <1>1, <1>2, <1>3, AppendProperties DEF TypeOK
<1>8. TypeOK'
  <2>1. toTablet' \in Seq(Byte \X Byte) /\ covered' \in Nat
    <3>1. {SUCCEEDED, FAILED, STOP, DISPENSE} \subseteq Byte
      BY DEF SUCCEEDED, FAILED, STOP, DISPENSE, Byte
    <3>2. Len(accepted) \in Nat
      BY <1>3, LenProperties DEF TypeOK
    <3> HIDE DEF whole
    <3>3. CASE frame[1] = STOP /\ answer_stop(IF whole THEN SUCCEEDED ELSE FAILED)
      <4> DEFINE code == IF whole THEN SUCCEEDED ELSE FAILED
      <4>1. code \in Byte
        BY <3>1
      <4> HIDE DEF code
      <4>2. send(STOP, code) /\ covered' = IF code = SUCCEEDED THEN Len(accepted) ELSE covered
        BY <3>3 DEF answer_stop, code
      <4> QED BY <4>1, <4>2, <3>1, <3>2, <1>3, SendTyped DEF TypeOK
    <3>4. CASE UNCHANGED <<toTablet, covered>>
      BY <3>4, <1>3 DEF TypeOK
    <3>5. CASE send(DISPENSE, FAILED) /\ UNCHANGED covered
      BY <3>5, <3>1, <1>3, SendTyped DEF TypeOK
    <3> QED BY <1>1, <3>3, <3>4, <3>5
  <2>2. Len(ringbuffer_watercontrol') <= RingSize
    <3> HIDE DEF n
    <3> QED BY <1>3, <1>4, <1>6, RingSizeIs8
  <2> QED BY <1>1, <1>3, <1>6, <1>7, <2>1, <2>2 DEF TypeOK, waterout_vars
<1>9. ExecutedInOrder'
  <2>1. IsPrefixOf(executed, accepted) /\ executed' = executed
    BY <1>1 DEF IInv, ExecutedInOrder, waterout_vars
  <2>2. IsPrefixOf(executed, Append(accepted, bytes))
    BY <1>2, <1>3, <2>1, PrefixAppend DEF TypeOK
  <2> QED BY <1>1, <2>1, <2>2 DEF ExecutedInOrder
<1>10. RingBetweenPolls'
  <2> SUFFICES ASSUME waterout = "sleep"
               PROVE  \/ ringbuffer_watercontrol' = <<>> /\ accepted' = executed
                      \/ \E c \in Seq(Byte) : Holds(c)' /\ accepted' = Append(executed, c)
    BY <1>1 DEF RingBetweenPolls, waterout_vars
  <2>0. frame[1] # STOP /\ bytes = frame /\ Len(bytes) = CommandLength(bytes[1])
        /\ Len(bytes) \in {5, 6} /\ bytes[1] \in {DISPENSE, CALIBRATE}
    BY <1>0, <1>1, <1>2 DEF IInv, HandlerHasFrame
  <2>1. CASE ringbuffer_watercontrol = <<>> /\ accepted = executed
    <3>1. Len(ringbuffer_watercontrol) = 0
      BY <2>1
    <3>2. n = Len(bytes) /\ whole
      BY <3>1, <2>0, <1>2, <1>3 DEF AtMost
    <3> HIDE DEF n
    <3>3. part = SubSeq(bytes, 1, Len(bytes))
      BY <3>2 DEF part
    <3>4. part = bytes
      BY <1>2, <3>3, SubSeqFull
    <3>5. ringbuffer_watercontrol' = bytes
      BY <1>1, <1>2, <2>1, <3>4, ConcatEmptySeq
    <3>6. accepted' = Append(executed, bytes)
      BY <1>1, <2>1, <3>2
    <3>7. PICK b \in Seq(Byte) : b = bytes
      BY <1>2
    <3>8. \A i \in 1 .. Len(b) : ringbuffer_watercontrol'[i] = b[i]
      BY <3>5, <3>7
    <3>9. b[1] \in {DISPENSE, CALIBRATE} /\ Len(b) = CommandLength(b[1])
          /\ Len(b) <= Len(ringbuffer_watercontrol')
      BY <2>0, <3>5, <3>7
    <3>10. Holds(b)'
      BY <3>8, <3>9 DEF Holds
    <3> QED BY <3>6, <3>7, <3>10
  <2>2. ASSUME NEW c \in Seq(Byte), Holds(c), accepted = Append(executed, c)
        PROVE  Holds(c)' /\ accepted' = Append(executed, c)
    <3>1. Len(c) \in {5, 6} /\ Len(c) <= Len(ringbuffer_watercontrol)
      BY <2>2 DEF Holds, CommandLength, DISPENSE, CALIBRATE
    <3> HIDE DEF n
    <3>2. ~whole
      <4>1. n <= 8 - Len(ringbuffer_watercontrol) /\ n \in 0 .. Len(bytes)
        BY <1>3, <1>4
      <4>2. n # Len(bytes)
        BY <3>1, <4>1, <2>0, <1>3, NoRoomForTwo
      <4> QED BY <4>2
    <3>3. accepted' = accepted
      BY <1>1, <3>2
    <3>4. \A i \in 1 .. Len(c) : ringbuffer_watercontrol'[i] = c[i]
      BY <3>1, <1>3, <1>6, <2>2 DEF Holds
    <3>5. Len(c) <= Len(ringbuffer_watercontrol')
      BY <3>1, <1>3, <1>4, <1>6
    <3> QED BY <2>2, <3>3, <3>4, <3>5 DEF Holds
  <2> QED BY <2>1, <2>2 DEF IInv, RingBetweenPolls
<1>11. HandlerHasFrame'
  BY <1>1 DEF HandlerHasFrame
<1>12. stop_flag' = 0 /\ (water_flag' = 1 <=> waterout' = "wait")
  BY <1>1 DEF IInv, waterout_vars
<1> QED BY <1>8, <1>9, <1>10, <1>11, <1>12 DEF IInv

\* What WaterOut fetches from a ring that is not empty begins with the one
\* command accepted and not yet executed, and the fetch drains the ring.
LEMMA FetchedCommand ==
  ASSUME IInv, waterout = "sleep", ringbuffer_watercontrol # <<>>
  PROVE  /\ fetched \in [1 .. DataSize -> Byte]
         /\ fetched[1] \in {DISPENSE, CALIBRATE}
         /\ SubSeq(fetched, 1, CommandLength(fetched[1])) \in Seq(Byte)
         /\ accepted = Append(executed, SubSeq(fetched, 1, CommandLength(fetched[1])))
         /\ SubSeq(ringbuffer_watercontrol, DataSize + 1, Len(ringbuffer_watercontrol)) = <<>>
<1>1. /\ ringbuffer_watercontrol \in Seq(Byte)
      /\ Len(ringbuffer_watercontrol) \in 0 .. 8
      /\ data \in [1 .. DataSize -> Byte]
  <2>1. /\ ringbuffer_watercontrol \in Seq(Byte) /\ Len(ringbuffer_watercontrol) <= RingSize
        /\ data \in [1 .. DataSize -> Byte]
    BY DEF IInv, TypeOK
  <2>2. Len(ringbuffer_watercontrol) \in Nat
    BY <2>1, LenProperties
  <2> QED BY <2>1, <2>2, Room
<1>2. PICK c \in Seq(Byte) : Holds(c) /\ accepted = Append(executed, c)
  BY DEF IInv, RingBetweenPolls
<1>3. /\ Len(c) = CommandLength(c[1]) /\ Len(c) \in {5, 6} /\ c[1] \in {DISPENSE, CALIBRATE}
      /\ Len(c) <= Len(ringbuffer_watercontrol)
      /\ \A i \in 1 .. Len(c) : ringbuffer_watercontrol[i] = c[i]
  BY <1>2 DEF Holds, CommandLength, DISPENSE, CALIBRATE
<1>4. PICK l \in {5, 6} : l = Len(c)
  BY <1>3
<1>5. PICK used \in 0 .. 8 : used = Len(ringbuffer_watercontrol)
  BY <1>1
<1>6. l <= used
  BY <1>3, <1>4, <1>5
<1>7. fetched = [i \in 1 .. 10 |-> IF i <= used THEN ringbuffer_watercontrol[i] ELSE data[i]]
  BY <1>5 DEF fetched, DataSize
<1>8. fetched \in [1 .. DataSize -> Byte]
  <2>1. ASSUME NEW i \in 1 .. 10
        PROVE  (IF i <= used THEN ringbuffer_watercontrol[i] ELSE data[i]) \in Byte
    <3>1. CASE i <= used
      <4>1. i \in 1 .. Len(ringbuffer_watercontrol)
        BY <3>1, <1>5
      <4>2. ringbuffer_watercontrol[i] \in Byte
        BY <4>1, <1>1, ElementOfSeq
      <4> QED BY <3>1, <4>2
    <3>2. CASE ~(i <= used)
      BY <3>2, <1>1 DEF DataSize
    <3> QED BY <3>1, <3>2
  <2> QED BY <1>7, <2>1 DEF DataSize
<1>9. \A i \in 1 .. l : fetched[i] = c[i] /\ fetched[i] \in Byte
  <2> TAKE i \in 1 .. l
  <2>1. i \in 1 .. 10 /\ i <= used
    BY <1>6
  <2>2. ringbuffer_watercontrol[i] = c[i]
    BY <1>3, <1>4
  <2> QED BY <2>1, <2>2, <1>7, <1>8 DEF DataSize
<1>10. fetched[1] = c[1] /\ CommandLength(fetched[1]) = l
  BY <1>3, <1>4, <1>9
<1> HIDE DEF fetched
<1>11. /\ SubSeq(fetched, 1, l) \in Seq(Byte)
       /\ Len(SubSeq(fetched, 1, l)) = l
       /\ \A i \in 1 .. l : SubSeq(fetched, 1, l)[i] = fetched[i]
  <2>1. /\ SubSeq(fetched, 1, l) \in Seq(Byte)
        /\ Len(SubSeq(fetched, 1, l)) = IF 1 <= l THEN l-1+1 ELSE 0
        /\ \A i \in 1 .. l-1+1 : SubSeq(fetched, 1, l)[i] = fetched[1+i-1]
    BY <1>9, SubSeqProperties
  <2> QED BY <2>1
<1>12. SubSeq(fetched, 1, l) = c
  <2>1. \A i \in 1 .. l : SubSeq(fetched, 1, l)[i] = c[i]
    BY <1>9, <1>11
  <2> QED BY <2>1, <1>4, <1>11, SeqEqual
<1>13. SubSeq(ringbuffer_watercontrol, DataSize + 1, Len(ringbuffer_watercontrol)) = <<>>
  BY <1>5, SubSeqEmpty DEF DataSize
<1> QED BY <1>2, <1>3, <1>8, <1>10, <1>11, <1>12, <1>13

\* An execution consumes the waiting command.
LEMMA RunningKeepsIInv ==
  ASSUME IInv, run
  PROVE  IInv'
<1> DEFINE c == SubSeq(fetched, 1, CommandLength(fetched[1]))
<1>1. /\ fetched \in [1 .. DataSize -> Byte] /\ fetched[1] \in {DISPENSE, CALIBRATE}
      /\ c \in Seq(Byte) /\ accepted = Append(executed, c)
      /\ ringbuffer_watercontrol' = <<>>
      /\ executed' = accepted /\ accepted' = accepted
  BY FetchedCommand DEF run, android_vars
<1>2. stop_flag' = 0 /\ (water_flag' = 1 <=> waterout' = "wait")
  BY <1>1 DEF run, IInv, STOP, DISPENSE, CALIBRATE
<1>3. ExecutedInOrder'
  BY <1>1, PrefixRefl DEF ExecutedInOrder, IInv, TypeOK
<1>4. RingBetweenPolls'
  BY <1>1 DEF RingBetweenPolls
<1>5. HandlerHasFrame'
  <2>1. waterout = "sleep" /\ UNCHANGED <<android, frame>>
    BY DEF run, android_vars
  <2> QED BY <2>1 DEF HandlerHasFrame, IInv
<1>6. TypeOK'
  <2>0. TypeOK
    BY DEF IInv
  <2>1. fetched[4] \in 0 .. 255 /\ fetched[5] \in 0 .. 255
    BY <1>1 DEF DataSize, Byte
  <2>2. Amount(fetched) \in Nat
    <3>1. ASSUME NEW hi \in 0 .. 255, NEW lo \in 0 .. 255 PROVE hi * 256 + lo \in Nat
      OBVIOUS
    <3> QED BY <2>1, <3>1 DEF Amount
  <2>3. pre_out_ml' \in Nat /\ water_flow' \in Int
    BY <2>0, <2>2 DEF run, TypeOK
  <2>4. /\ water_flag' \in {0, 1} /\ waterout' \in {"sleep", "wait"}
        /\ valve' \in {"LOW", "HIGH"} /\ outlet' \in {"none", "hot", "cold"}
    BY <2>0 DEF run, TypeOK
  <2>5. ringbuffer_watercontrol' \in Seq(Byte) /\ Len(ringbuffer_watercontrol') <= RingSize
    BY <1>1, RingSizeIs8, EmptySeq
  <2>6. /\ data' \in [1 .. DataSize -> Byte] /\ executed' \in Seq(Seq(Byte))
        /\ UNCHANGED <<ringbuffer_androidTx, android_vars>>
    BY <2>0, <1>1 DEF run, TypeOK
  <2> QED BY <2>0, <2>3, <2>4, <2>5, <2>6, <1>2 DEF TypeOK, android_vars
<1> QED BY <1>2, <1>3, <1>4, <1>5, <1>6 DEF IInv

-----------------------------------------------------------------------------
\* Every step keeps the invariant.
LEMMA StepIInv == IInv /\ [Next]_vars => IInv'
<1> SUFFICES ASSUME IInv, [Next]_vars PROVE IInv'
  OBVIOUS
<1>1. ASSUME NEW f \in Frames, data_hanlde(f) PROVE IInv'
  BY <1>1, TakingInKeepsIInv
<1>2. CASE check_busy
  BY <1>2, CheckingKeepsIInv
<1>3. CASE put_command
  BY <1>3, PuttingKeepsIInv
<1>4. CASE poll_answers
  BY <1>4, PassingOnKeepsIInv
<1>5. CASE run
  BY <1>5, RunningKeepsIInv
<1>6. CASE msleep_timeout
  BY <1>6, WaitingKeepsIInv
<1>7. CASE UNCHANGED vars
  BY <1>7 DEF vars, android_vars, waterout_vars, IInv, TypeOK, HandlerHasFrame,
              ExecutedInOrder, RingBetweenPolls, Holds
<1> QED BY <1>1, <1>2, <1>3, <1>4, <1>5, <1>6, <1>7 DEF Next

\* IInv always holds.
LEMMA Invariance == Spec => []IInv
BY InitIInv, StepIInv, PTL DEF Spec

\* Whatever the tablet sends, the dispenser's variables have their types; in
\* particular the command ring never holds more than its eight bytes.
THEOREM TypeCorrect == Spec => []TypeOK
<1>1. IInv => TypeOK
  BY DEF IInv
<1> QED BY <1>1, Invariance, PTL

\* WaterOut executes the accepted commands whole, in order, and nothing else.
THEOREM CommandsExecutedInOrder == Spec => []ExecutedInOrder
<1>1. IInv => ExecutedInOrder
  BY DEF IInv
<1> QED BY <1>1, Invariance, PTL

\* The flag that the handlers look at says whether water runs, and between
\* polls at most one accepted command waits.
THEOREM FlagIsTrue == Spec => []FlagTellsBusy
<1>1. IInv => FlagTellsBusy
  <2> SUFFICES ASSUME IInv PROVE FlagTellsBusy
    OBVIOUS
  <2>1. ASSUME waterout = "sleep" PROVE Len(accepted) - Len(executed) <= 1
    <3>1. executed \in Seq(Seq(Byte)) /\ Len(executed) \in Nat
      BY LenProperties DEF IInv, TypeOK
    <3>2. CASE accepted = executed
      BY <3>1, <3>2
    <3>3. ASSUME NEW c \in Seq(Byte), accepted = Append(executed, c)
          PROVE  Len(accepted) - Len(executed) <= 1
      <4>1. Len(accepted) = Len(executed) + 1
        BY <3>1, <3>3, AppendProperties
      <4> QED BY <3>1, <4>1
    <3> QED BY <2>1, <3>2, <3>3 DEF IInv, RingBetweenPolls
  <2> QED BY <2>1 DEF IInv, FlagTellsBusy
<1> QED BY <1>1, Invariance, PTL

\* Water that has begun to run never stops.
THEOREM RunningWaterNeverStops == Spec => NeverStops
<1>1. IInv /\ [Next]_vars => [waterout = "wait" => waterout' = "wait"]_vars
  <2> SUFFICES ASSUME IInv, Next, waterout = "wait" PROVE waterout' = "wait"
    OBVIOUS
  <2>1. CASE msleep_timeout
    BY <2>1, WaitingKeepsIInv
  <2>2. CASE run
    BY <2>2 DEF run
  <2> QED BY <2>1, <2>2 DEF Next, data_hanlde, check_busy, put_command, poll_answers, waterout_vars
<1> QED BY <1>1, Invariance, PTL DEF Spec, NeverStops
=============================================================================
