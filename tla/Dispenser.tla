------------------------------ MODULE Dispenser ------------------------------
(***************************************************************************)
(* The dispensing core of the hot-water machine: the AndroidCmdHandle      *)
(* thread, which answers the tablet and queues its commands, the WaterOut  *)
(* thread, which executes them, and what the two share: the command ring,  *)
(* the answer ring and water_flag.                                         *)
(*                                                                         *)
(* Priorities.  sched_get_priority_max returns the largest number, which   *)
(* RT-Thread schedules last: AndroidCmdHandle asks for 30, WaterOut for    *)
(* 29.  WaterOut therefore preempts AndroidCmdHandle at any point and is   *)
(* never preempted by it, so that what WaterOut does between two sleeps is *)
(* one action here, while a command of AndroidCmdHandle is several.  The   *)
(* rings are the queues that RtRingBuffer is shown to implement.           *)
(*                                                                         *)
(* The frames are payloads that FrameRx's parser has accepted.             *)
(***************************************************************************)
EXTENDS Integers, Sequences

CONSTANTS Frames,     \* the payloads the tablet may send
          MaxFrames   \* a bound on how many it sends in a behaviour

\* The commands and result codes of protocol.txt.
DISPENSE  == 1      \* SENDOUTWATER_CMD
CALIBRATE == 2      \* CALIBRATION_CMD
STOP      == 3      \* STOPOUTWATER_CMD
REQUEST   == 0      \* the second byte of a request
FAILED    == 1
SUCCEEDED == 2
STARTED   == 3      \* received, or started and in progress
HOT       == 1

Byte == 0 .. 255

\* How many bytes a command takes in the ring: the whole payload of a dispense
\* or a calibration, the one byte that stop_out_water puts for a stop.
CommandLength(op) ==
  IF op = DISPENSE THEN 5 ELSE IF op = CALIBRATE THEN 6 ELSE 1

\* The payloads have the lengths that protocol.txt gives them.
ASSUME FramesAssumption ==
  \A f \in Frames : /\ f \in Seq(Byte)
                    /\ Len(f) >= 2
                    /\ f[1] \in {DISPENSE, CALIBRATE} => Len(f) = CommandLength(f[1])
ASSUME MaxFramesAssumption == MaxFrames \in Nat

RT_ALIGN_DOWN(size) == size - (size % 4)

\* A slip: the command ring made as large as the answer ring.
RingSizeOfAnswers == RT_ALIGN_DOWN(20)

RingSize       == RT_ALIGN_DOWN(10)    \* rt_ringbuffer_create(10)
AnswerRingSize == RT_ALIGN_DOWN(20)
DataSize       == 10                   \* sizeof(data)

VARIABLES
  \* shared
  ringbuffer_watercontrol,   \* the command ring
  ringbuffer_androidTx,      \* the answer ring
  water_flag,                \* 1 while WaterOut executes a command
  \* AndroidCmdHandle
  android,       \* "idle", or the next step of the handler: "check", "put"
  frame,         \* the payload it handles or handled last
  \* WaterOut
  waterout,      \* "sleep" between polls, "wait" in msleep_timeout
  data, stop_flag, pre_out_ml, water_flow,
  valve,         \* the level of VALVA_PIN
  outlet,        \* the temperature of the last begin_out_water
  \* histories
  handled,       \* how many frames were taken in
  accepted,      \* the commands put whole into the ring, in order
  executed,      \* the commands WaterOut acted on, in order
  toTablet,      \* the answers sent, as <<command, code>>
  covered        \* how many commands the last successful stop came after

android_vars  == <<android, frame, handled, accepted, toTablet, covered>>
waterout_vars == <<waterout, data, stop_flag, pre_out_ml, water_flow, valve, outlet, executed>>
vars == <<ringbuffer_watercontrol, ringbuffer_androidTx, water_flag,
          android_vars, waterout_vars>>

TypeOK ==
  /\ ringbuffer_watercontrol \in Seq(Byte) /\ Len(ringbuffer_watercontrol) <= RingSize
  /\ ringbuffer_androidTx \in Seq(Byte)
  /\ water_flag \in {0, 1}
  /\ android \in {"idle", "check", "put"}
  /\ frame \in Frames \cup {<<>>}
  /\ waterout \in {"sleep", "wait"}
  /\ data \in [1 .. DataSize -> Byte]
  /\ stop_flag \in {0, 1}
  /\ pre_out_ml \in Nat /\ water_flow \in Int
  /\ valve \in {"LOW", "HIGH"}
  /\ outlet \in {"none", "hot", "cold"}
  /\ handled \in 0 .. MaxFrames
  /\ accepted \in Seq(Seq(Byte)) /\ executed \in Seq(Seq(Byte))
  /\ toTablet \in Seq(Byte \X Byte)
  /\ covered \in Nat

\* WaterOut's init leaves the valve pin HIGH.
Init ==
  /\ ringbuffer_watercontrol = <<>> /\ ringbuffer_androidTx = <<>>
  /\ water_flag = 0
  /\ android = "idle" /\ frame = <<>>
  /\ waterout = "sleep"
  /\ data = [i \in 1 .. DataSize |-> 0]
  /\ stop_flag = 0 /\ pre_out_ml = 0 /\ water_flow = 0
  /\ valve = "HIGH" /\ outlet = "none"
  /\ handled = 0 /\ accepted = <<>> /\ executed = <<>>
  /\ toTablet = <<>> /\ covered = 0

\* A slip: what does not fit is put all the same.
NotCut(m, n) == m

AtMost(m, n) == IF m <= n THEN m ELSE n

-----------------------------------------------------------------------------
(***************************************************************************)
(* AndroidCmdHandle.                                                       *)
(***************************************************************************)
send(cmd, code) == toTablet' = Append(toTablet, <<cmd, code>>)

\* A payload is taken in: data_hanlde calls the command's function, whose first
\* deed is send_cmd_ack; other commands end there without an answer.
data_hanlde(f) ==
  /\ android = "idle"
  /\ handled < MaxFrames
  /\ handled' = handled + 1
  /\ frame' = f
  /\ IF f[1] \in {DISPENSE, CALIBRATE, STOP}
     THEN send(f[1], STARTED) /\ android' = "check"
     ELSE UNCHANGED <<toTablet, android>>
  /\ UNCHANGED <<ringbuffer_watercontrol, ringbuffer_androidTx, water_flag,
                 accepted, covered, waterout_vars>>

\* The sender of the success answer to a stop; `covered' remembers when.
answer_stop(code) ==
  /\ send(STOP, code)
  /\ covered' = IF code = SUCCEEDED THEN Len(accepted) ELSE covered

\* A slip: the stop handler's test of the flag the wrong way round.
check_busy_inverted ==
  /\ android = "check"
  /\ \/ /\ frame[1] # STOP /\ water_flag = 1
        /\ send(frame[1], STARTED)
        /\ android' = "idle" /\ UNCHANGED covered
     \/ /\ frame[1] = STOP /\ water_flag = 1
        /\ answer_stop(SUCCEEDED)
        /\ android' = "idle"
     \/ /\ water_flag = 0
        /\ android' = "put" /\ UNCHANGED <<toTablet, covered>>
  /\ UNCHANGED <<frame, handled, accepted, ringbuffer_watercontrol,
                 ringbuffer_androidTx, water_flag, waterout_vars>>

\* The handlers look at water_flag through WaterOut_class.pParameter: a busy
\* machine refuses a dispense or a calibration, an idle one has nothing to stop.
check_busy ==
  /\ android = "check"
  /\ \/ /\ frame[1] # STOP /\ water_flag = 1
        /\ send(frame[1], STARTED)
        /\ android' = "idle" /\ UNCHANGED covered
     \/ /\ frame[1] = STOP /\ water_flag = 0
        /\ answer_stop(SUCCEEDED)
        /\ android' = "idle"
     \/ /\ frame[1] = STOP <=> water_flag = 1
        /\ android' = "put" /\ UNCHANGED <<toTablet, covered>>
  /\ UNCHANGED <<frame, handled, accepted, ringbuffer_watercontrol,
                 ringbuffer_androidTx, water_flag, waterout_vars>>

\* The command goes into the ring, as far as it fits.  A calibration that does
\* not fit is answered under the dispense command's code (line 153), as a
\* dispense is (line 172).
put_command ==
  LET bytes == IF frame[1] = STOP THEN <<STOP>> ELSE frame
      n     == AtMost(Len(bytes), RingSize - Len(ringbuffer_watercontrol))
      whole == n = Len(bytes)
  IN /\ android = "put"
     /\ ringbuffer_watercontrol' = ringbuffer_watercontrol \o SubSeq(bytes, 1, n)
     /\ accepted' = IF whole THEN Append(accepted, bytes) ELSE accepted
     /\ \/ /\ frame[1] = STOP
           /\ answer_stop(IF whole THEN SUCCEEDED ELSE FAILED)
        \/ /\ frame[1] # STOP /\ whole
           /\ UNCHANGED <<toTablet, covered>>
        \/ /\ frame[1] # STOP /\ ~whole
           /\ send(DISPENSE, FAILED) /\ UNCHANGED covered
     /\ android' = "idle"
     /\ UNCHANGED <<frame, handled, ringbuffer_androidTx, water_flag, waterout_vars>>

\* With nothing received, the thread passes an answer of WaterOut on.
poll_answers ==
  /\ android = "idle"
  /\ IF ringbuffer_androidTx # <<>>
     THEN /\ ringbuffer_androidTx' = Tail(ringbuffer_androidTx)
          /\ IF Head(ringbuffer_androidTx) = 1 THEN send(DISPENSE, SUCCEEDED)
                                               ELSE UNCHANGED toTablet
     ELSE UNCHANGED <<ringbuffer_androidTx, toTablet>>
  /\ UNCHANGED <<android, frame, handled, accepted, covered,
                 ringbuffer_watercontrol, water_flag, waterout_vars>>

-----------------------------------------------------------------------------
(***************************************************************************)
(* WaterOut.  One turn of its loop, from a wake-up to the next sleep.      *)
(***************************************************************************)

\* Only the first sizeof(data) bytes of the ring are fetched, over what the
\* last command left in data.
fetched ==
  [i \in 1 .. DataSize |-> IF i <= Len(ringbuffer_watercontrol)
                           THEN ringbuffer_watercontrol[i] ELSE data[i]]

\* The amount as the code reads it.  water_flow is kept before its division by 3000.
Amount(d) == d[4] * 256 + d[5]

\* The commands that let water out: begin_out_water is called.  Whether it is
\* hot or cold water is read from data[2] (here d[3]) for a calibration, too,
\* where the protocol has the step.
Opens(d) == /\ d[2] = REQUEST
            /\ d[1] = DISPENSE \/ (d[1] = CALIBRATE /\ d[3] \in {1, 3})

Calibrates(d, step) == d[1] = CALIBRATE /\ d[2] = REQUEST /\ d[3] = step

run ==
  /\ waterout = "sleep"
  /\ ringbuffer_watercontrol # <<>>
  /\ data' = fetched
  /\ ringbuffer_watercontrol' =
       SubSeq(ringbuffer_watercontrol, DataSize + 1, Len(ringbuffer_watercontrol))
  /\ executed' = Append(executed, SubSeq(fetched, 1, CommandLength(fetched[1])))
  /\ \/ /\ Opens(fetched)
        /\ water_flag' = 1
        /\ valve' = "HIGH"
        /\ outlet' = IF fetched[3] = HOT THEN "hot" ELSE "cold"
        /\ waterout' = "wait"
        /\ UNCHANGED <<stop_flag, pre_out_ml, water_flow>>
     \/ /\ ~Opens(fetched)
        /\ pre_out_ml' = IF Calibrates(fetched, 2) THEN Amount(fetched) ELSE pre_out_ml
        /\ water_flow' = IF Calibrates(fetched, 4) THEN Amount(fetched) - pre_out_ml
                                                   ELSE water_flow
        /\ stop_flag' = IF fetched[1] = STOP THEN 1 ELSE stop_flag
        /\ UNCHANGED <<waterout, water_flag, valve, outlet>>
  /\ UNCHANGED <<ringbuffer_androidTx, android_vars>>

\* msleep_timeout looks at stop_flag every millisecond and at nothing else: its
\* argument, the time computed from the amount, is not used.  Once stop_flag
\* is seen, both waits end, the valve is shut, the answer byte is put and a
\* dispense clears stop_flag (a calibration does not).
msleep_timeout ==
  /\ waterout = "wait"
  /\ IF stop_flag = 0
     THEN UNCHANGED <<waterout, water_flag, valve, stop_flag, ringbuffer_androidTx>>
     ELSE /\ valve' = "LOW"
          /\ ringbuffer_androidTx' = IF Len(ringbuffer_androidTx) < AnswerRingSize
                                     THEN Append(ringbuffer_androidTx, 1)
                                     ELSE ringbuffer_androidTx
          /\ stop_flag' = IF data[1] = DISPENSE THEN 0 ELSE stop_flag
          /\ water_flag' = 0
          /\ waterout' = "sleep"
  /\ UNCHANGED <<ringbuffer_watercontrol, data, pre_out_ml, water_flow, outlet,
                 executed, android_vars>>

Next == \/ \E f \in Frames : data_hanlde(f)
        \/ check_busy
        \/ put_command
        \/ poll_answers
        \/ run
        \/ msleep_timeout

Spec == Init /\ [][Next]_vars

\* WaterOut sleeps at most 100 ms at a time, and whenever it sleeps (nothing
\* more urgent computes for long) AndroidCmdHandle gets the processor: every
\* step of a handler is taken eventually.  What the tablet sends is not fair.
Fairness == /\ WF_vars(check_busy) /\ WF_vars(put_command) /\ WF_vars(poll_answers)
            /\ WF_vars(run) /\ WF_vars(msleep_timeout)

FairSpec == Spec /\ Fairness

-----------------------------------------------------------------------------
IsPrefixOf(s, t) == Len(s) <= Len(t) /\ s = SubSeq(t, 1, Len(s))

\* WaterOut acts on the commands that were accepted, whole and in the order of
\* acceptance, and on nothing else: no fragment of a refused command, no stale
\* byte of data, no command skipped.  It depends on the ring being too small
\* for two commands, because one get drains it and only the first command in
\* it is looked at (waterout_control.c:42-46).
ExecutedInOrder == IsPrefixOf(executed, accepted)

\* Between polls at most one command waits, and only behind a flag that is down;
\* a raised flag means that water is running.  check_busy relies on the flag.
FlagTellsBusy ==
  /\ water_flag = 1 <=> waterout = "wait"
  /\ waterout = "sleep" => Len(accepted) - Len(executed) <= 1

\* Water that has begun to run never stops: a stop is only queued while
\* WaterOut is busy, WaterOut reads its queue only when it is not, and nothing
\* else ends msleep_timeout.
NeverStops == [][waterout = "wait" => waterout' = "wait"]_vars

\* Every accepted command is executed in its turn, or water is running when
\* its turn comes (and never stops).
Executed(k) == Len(executed) >= k /\ executed[k] = accepted[k]

AcceptedExecuted ==
  \A k \in 1 .. MaxFrames :
    Len(accepted) >= k ~> Executed(k) \/ waterout = "wait"

-----------------------------------------------------------------------------
(***************************************************************************)
(* What protocol.txt says and the code does not do.                        *)
(***************************************************************************)
\* protocol.txt:30-33: the stop that is answered 0x03 0x02 has succeeded.  A
\* stop that was put into the ring, and so answered, ends the water running.
StopTakesEffect ==
  (accepted # <<>> /\ accepted[Len(accepted)] = <<STOP>>) ~> waterout = "sleep"

\* The same for a command that still waits in the ring when it is stopped: it
\* does not start afterwards.
StopCoversWaiting ==
  [][waterout = "sleep" /\ waterout' = "wait" => Len(executed') > covered]_vars
=============================================================================
