# A verification of the hot-water machine's firmware

The firmware runs on an STM32F4 under RT-Thread. The application is
`rt-thread/bsp/stm32f4xx-HAL/applications/` (called A below); the rest of the tree is
RT-Thread itself, of which the application uses the kernel (`rt-thread/src/`, called K
below: scheduler, timers, threads, the heap and its semaphore), the byte ring
(`rt-thread/components/drivers/src/ringbuffer.c`), the serial driver's receive buffer
(`rt-thread/components/drivers/serial/serial.c`), pins and the ADC. The console's shell
(`rt-thread/components/finsh/shell.c`) runs beside it.
`protocol.txt` at the root describes what tablet (C) and machine (S) say to each other;
it is the only specification the repository has of the program.

The project consists of TLA+ modules of the application, of the two drivers below it and
of the part of the kernel that they run on,
of TLC configurations that check them on small instances, and of proofs that hold for
every instance. It is run in this directory with, for example, `tlc -config
MCDispenser.cfg MCDispenser` and `tlapm DispenserProofs.tla`.

## 1. The system

### Components

| Component (source) | State | Operations | Correct when |
|---|---|---|---|
| Frame reception (A/androidCmdHandle_thread.c 47-97, 260-311) | `buffer[40]`, `cnt`; bytes waiting in the driver | read, gather, `stream_data_handle` | a payload is handed on only if it was sent, once, however it was cut into reads |
| Checksum (same file, `crc16_calculate`) | none | one pure function | it is the CCITT remainder |
| Dispensing core: AndroidCmdHandle's handlers and WaterOut (A/androidCmdHandle_thread.c 112-258, A/waterout_control.c) | command ring, answer ring, `water_flag`, `data`, `stop_flag`, `pre_out_ml`, `water_flow`, valve | take a payload in, test the flag, put the command, pass an answer on; poll and execute; wait | commands are executed whole, in order, and all; the flag is true; a stop stops |
| Byte ring (ringbuffer.c) | two indices, two mirror bits, buffer | put, putchar, put_force, putchar_force, get, getchar, reset | it is a bounded queue, also between two threads without a lock |
| Serial receive buffer (serial.c) | two indices, `is_full`, buffer | receive interrupt, read | bytes come in order, and only the oldest are lost |
| Tank control: WaterControl and WaterLevel (A/WaterControl_thread.c, A/waterlevel.c) | `L_LEVEL`, `H_LEVEL`, heater pin, inlet valve pin | sample and heat; test the lower probe; test the upper probe | the tank neither overflows nor runs dry, and the water is hot but bounded |
| GPRS bring-up (A/gprs_thread.c) | loop counter, a static buffer shared by all commands | `cmd_check` for eleven AT commands | it ends; a command counts as answered only if it was |
| Start-up (A/main.c) | how far main is | five start calls, four of them commented out; end | no thread runs before what it needs is there |
| Thread layer (A/user_def.h, pthread attributes) | priorities | create | - |
| Scheduler, timers, threads (K/scheduler.c, timer.c, thread.c, clock.c, idle.c) | ready lists and bitmap, current thread, lock count, tick, timer list, states, slices, threads to be freed | tick interrupt, `rt_schedule`, sleep, suspend, resume, start-up, exit, critical sections, cleanup by idle | the processor belongs to the most urgent thread that is awake; a sleep has its length; nothing in use is freed |
| Semaphores, mutexes, shell input (K/ipc.c, mem.c; shell.c) | values, waiting lists, owner and its own priority; bytes received | take (with a time-out), release, receive interrupt, `finsh_getchar` | no unit and no waiter is lost; the owner is as urgent as those that wait; no byte is slept on |

### Interactions

    tablet --UART--> serial.c --rt_device_read--> AndroidCmdHandle --command ring--> WaterOut
    tablet <--UART------------------------------- AndroidCmdHandle <--answer ring--- WaterOut
                                                  AndroidCmdHandle <--water_flag---- WaterOut
    probes --ADC--> WaterControl --L_LEVEL, H_LEVEL--> WaterLevel --> inlet valve
                    WaterControl --> heater
    SIM800 <--UART--> gprs_system_on (called by main)
    all threads --sleep, start, malloc, free--> kernel <--tick interrupt
    console --receive interrupt, rx_sem--> shell

The application locks nothing. Its threads communicate by the two rings and by plain
variables, and what keeps them apart is the scheduler. Locks are inside the kernel: the
heap's semaphore, which every allocation takes, idle's freeing included.

**Priorities.** `sched_get_priority_max` returns 31, which RT-Thread schedules *last*: a
thread that asks for `max - 1` is less urgent than one that asks for `max - 2`. So
WaterControl (default, 24) preempts WaterLevel (28), which preempts WaterOut (29), which
preempts AndroidCmdHandle (30). All of them sleep most of the time. The models rest on
this: what the more urgent of two threads does between two sleeps is one action, and the
less urgent one is taken apart where it can be interrupted to effect.

**Start-up.** `main` starts `gprs_class` alone; lines 24-27 of main.c, which start the
others, are commented out. The modules of the application describe each part from the
moment it has been started; `Kernel` makes all the start calls, in the order of main.c's
lines, and shows what the order and the priorities are worth.

### What is hard

- Interleaving: WaterOut wakes inside any handler of AndroidCmdHandle, between its test
  of `water_flag` and its put, and between two stores of a ring call. The receive
  interrupt falls between two bytes of a read. WaterControl samples between WaterLevel's
  two tests. The tick falls between a kernel call's change of the lists and the
  `rt_schedule` that follows it; a time-out races a release.
- Bounds: the command ring is 8 bytes long, `rt_ringbuffer_create(10)` aligned down, and
  a command is 5, 6 or 1 bytes; a put cuts what does not fit.
- Stale state: `data`, `buffer` and the GPRS buffer are overwritten only as far as the
  new bytes go. The level samples are a second old.
- Numbers that wrap: the tick, compared by its distance.
- Life and death: a thread that ends is freed by another one while it still executes.
- Retry and lateness: answers of the GPRS module that come after their second.
- Things that must happen in the end: every accepted command, heating, filling, the end
  of the bring-up, the end of a dispense.

`PROJECT.json` has the list of hazards with the line each of them bites at and the
properties that watch it.

## 2. The modules

| Module | What it is | Composed of |
|---|---|---|
| `RtFifo` | abstract: a bounded queue of bytes | - |
| `RtRingBuffer` | the ring, one action per call; implements `RtFifo` | INSTANCE `RtFifo` |
| `RingPreempted` | both rings as the two threads use them, the less urgent one store by store | EXTENDS `RtRingBuffer` |
| `LossyFifo` | abstract: a queue that drops its oldest bytes | - |
| `SerialRx` | the serial driver's receive buffer; implements `LossyFifo` | INSTANCE `LossyFifo` |
| `Crc16` | `crc16_calculate`, and polynomial division beside it | - |
| `FrameRx` | gathering and parsing of frames | EXTENDS `Crc16` |
| `Dispenser` | AndroidCmdHandle's handlers and WaterOut | the ring as the queue of `RtFifo` |
| `TankControl` | WaterControl and WaterLevel around a tank | - |
| `Gprs` | `gprs_system_on` and `cmd_check` | - |
| `PriorityCpu` | abstract: a processor for the most urgent thread that is awake, sleeps of a given length | - |
| `Scheduler` | the kernel's functions, as operators on the kernel's state | - |
| `Kernel` | the machine's threads on the kernel: start, sleep, critical sections, exit, tick, idle; implements `PriorityCpu` | EXTENDS `Scheduler`; INSTANCE `PriorityCpu` |
| `Ipc` | those threads at semaphores and a mutex, and the shell's input | EXTENDS `Kernel` |
| `MC...` | instances for TLC | each EXTENDS its module |
| `...Proofs` | theorems (`RingProofs` holds those of `RtRingBuffer` and of `RingPreempted`; `KernelProofs` begins with lemmas about the operators of `Scheduler`; `IpcProofs` stands on it) | each EXTENDS its module |

The operators whose comment begins "A slip:" are not part of the specifications. Each is
a definition with a plausible mistake in it; put in place of the definition it follows,
it must break the property that `PROJECT.json` ("mutants") names.

### Correspondence with the code

`PROJECT.json` ("map") gives the lines of each definition. In outline:

**RtRingBuffer.** The variables are the fields of `struct rt_ringbuffer`, and each call
is an action with the code's cases as disjuncts: no room, or room; nothing there, or
something there. The `memcpy` calls are `Filled` and `Taken`; the two branches on the
end of the buffer are `Wrap` and `MirrorAfter`. `put_force` keeps the newest
bytes of a block that is longer than the ring, and flips the read mirror whenever it
passes the end of the buffer; what that leaves is in `RtFifo` (`EnqueueBlockForce`): the
block appended if it fits, else either the newest bytes or nothing (section 5).
`rt_ringbuffer_destroy` frees the ring and is left out.

**RingPreempted.** `use` says which of the two rings this is. In the command ring the
put is taken apart (`PutBegin`: length fixed; `PutCopy`: memcpy; `PutFlip` and
`PutStore`: the two stores) and the get, WaterOut's, is whole; in the answer ring it is
the other way round. The bytes put are numbered, so that loss, repetition and invention
show.

**Dispenser.** `data_hanlde` takes a payload in and sends the "received" answer,
`check_busy` is the handlers' test of `water_flag`, `put_command` their put and its
answer, `poll_answers` the branch of the loop with nothing received. `run` is one turn
of WaterOut from waking up to the next sleep, `msleep_timeout` one millisecond of its
wait with everything that follows when it ends. `accepted`, `executed`, `handled`,
`toTablet` and `covered` are histories.

- The motor pin is left out: `begin_out_water` raises and lowers it between the two
  waits, and the second wait ends at once when the first has ended, so that no state
  between two sleeps shows it raised.
- The duration of a dispense is left out: `msleep_timeout` does not use its argument.
  `water_flow` is a double that only goes into that duration; it is kept as the
  difference it is computed from, before the division by 3000.
- The rings are queues, as `RtRingBuffer` implements them. `RingPreempted` shows the one
  window in which they are not (sections 3 and 4).
- `set_temp` and the other handlers without a body are the commands that `data_hanlde`
  takes in and does nothing about.

**Crc16.** A register is the set of the positions of its one bits, so that exclusive or
is the symmetric difference and a shift adds to every position; what a `uint16_t` loses
in a shift is position 16. A polynomial over GF(2) is in the same way the set of its
exponents, and `Remainder` divides it, highest term first.

**FrameRx** works on real bytes, for a property has to tell a flag from a payload byte
of the same value. `Read(k)` is one turn of the loop with `k` bytes fetched. What
`buffer` holds before the first read is a choice, since it is an uninitialised array on
the stack. Where a received length takes the checksum beyond the buffer, the memory that
is read is not described, and the outcome is a free choice.

**SerialRx.** One byte is one action on either side, because both sides disable
interrupts for one byte at a time.

**TankControl.** The tank is the environment: in a second its level and temperature move
by at most one unit, up only with the valve open, or the heater on. WaterControl's turn
is one action, WaterLevel's is two, one per test. The order of turns within a second is
free, because the two loops sleep the same second from different starts.

**Scheduler and Kernel.** The kernel's state is one record, `k`, and every function of
the kernel an operator on it, so that calls nest as they do in C. `Kernel` decides where
interrupts may fall: a section with interrupts disabled is one action, the `rt_schedule`
that follows it another (`pc` is "schedule" in between). The tick interrupt is taken
apart timer by timer, because `rt_thread_timeout` calls `rt_schedule` for each. That
the interrupt switches threads by PendSV only when it returns is not visible: `isr` keeps
all threads from running until then. A timer is in the list exactly while its flag
ACTIVATED is set, which the model does not repeat. A thread that ends goes to `defunct`
and is "gone" after its last `rt_schedule`. `RT_TIMER_SKIP_LIST_LEVEL` is 1: the timer
list is a list. Slices count down as in `rt_tick_increase`; `init_tick` is 20 for main, 5
for pthreads and 32 for idle in the code.

**Ipc.** `at` says where in a take a thread is, since a call that waits is two actions
with other threads' in between; "late" is `thread->error` set by a time-out. The object
a thread waits at is a list of its own here; in the code the thread's one list node is in
it, and that a node is in one list at a time is what `NobodyForgotten` and
`ListsTellTheTruth` say in the model. The heap is used by main, by a less urgent thread
(the one gprs_class starts) and by idle, which may wait for it; a thread does not sleep
inside it. The mutex is one as ulog and the pthread mutexes use it, by three threads that
take it again while they hold it, sleep with it and give up after a tick. One receive
interrupt may bring several bytes and releases `rx_sem` once.

**Gprs.** An answer is named by its beginning, which is all that `strncmp` compares. The
module may miss a command, answer in time, late, or never.

## 3. The runs

Distinct states are those of one complete search.

| Run | Checks | Instance | States |
|---|---|---|---|
| `dispenser` | `TypeOK`, `ExecutedInOrder`, `FlagTellsBusy`, `NeverStops`, `AcceptedExecuted` | four frames out of nine kinds | 52 402 |
| `ring` | `TypeOK`, `MirrorsOrderIndices`, `ImplementsFifo` | 4 bytes of 2 values, blocks up to 5 | 3 576 |
| `ring_preempted` | `InOrderUnlessTorn`, `CopyIsStable`, `WindowOnlyWhenFull` | 4 cells, 10 bytes put | 41 678 |
| `serial_rx` | `TypeOK`, `FlagBesideGap`, `ImplementsLossyFifo` | 4 cells, reads of 1, 3, 5 | 16 064 |
| `frame_rx` | `TypeOK`, `OnlySentHandled`, `ReassembledUnlessCut`, `ChecksumIsRemainder` | three frames of three lengths, buffer of 13 | 6 936 |
| `tank` | `TypeOK`, `NoOverflow`, `NeverEmpty`, `HeatBounded`, `OpenedOnlyWhenLow`, `ColdIsHeated`, `LowIsFilled` | probes at 3 and 6 of 9 units | 864 |
| `gprs` | `TypeOK`, `MatchIsConfirmed`, `BringUpEnds` | two tries per command, two answers outstanding | 74 932 |
| `kernel` | `TypeOK`, `ListsTellTheTruth`, `FreedIsOutOfUse`, `StartedTogether`, `ImplementsPriorityCpu`, `SleeperReturns` | 5 threads of 4 priorities, 8 ticks | 97 472 |
| `ipc` | `UnitsAccountedFor`, `NobodyForgotten`, `OnlyRunningRuns`, `PriorityInherited`, `ShellHears`, `InversionOnlyByRelease` | 5 threads of 4 priorities, 5 ticks | 4 293 765 |
| `stop_takes_effect`, `stop_covers_waiting`, `handled_at_most_once` | one property each, violated | | section 5 |

### What they show

**dispenser.** `ExecutedInOrder`: what WaterOut acts on is a prefix of what was accepted
whole, so no fragment of a refused command is ever executed, no command is skipped, and
no stale byte of `data` is taken for part of one. That holds by a coincidence of sizes:
`run` fetches ten bytes, looks at the first command in them and drops the rest. Since
the ring holds eight bytes and a command before a lowered flag is five or six long, a
second command never fits behind a first one. A ring of the length that the call asks
for (ten, without the alignment) would lose commands; the mutant with a ring of twenty
shows it. `FlagTellsBusy`: although the flag is read before the put, at most one command
gets behind it. `NeverStops`: water that runs is never stopped by anything.
`AcceptedExecuted`: every accepted command has its turn, unless water is running.

**ring.** Every sequence of calls gives the results of a bounded queue and leaves its
contents, including exact fits at the end of the buffer, cut blocks and forced puts.

**ring_preempted.** With WaterOut's calls at any store of AndroidCmdHandle's, the bytes
still come in order, *unless* WaterOut runs between the two stores of one call
(ringbuffer.c:86-87, 189-190) while the indices are equal. There an empty ring looks
full to the reader and a full one empty to the writer. In the answer ring that window is
open only when the ring is full, twenty answers behind; in the command ring it is open
whenever a put into an empty ring reaches the end of the buffer, and commands of five
bytes in a ring of eight do reach it. `ExecutedInOrder` of `Dispenser` therefore holds
as long as WaterOut's hundred-millisecond sleep does not end between those two stores.

**serial_rx.** The driver delivers the last `bufsz - 1` bytes in order, whatever the
interleaving with the interrupt, and `is_full` never meets equal indices.

**frame_rx.** Nothing is handed on that was not sent, whatever the reads cut or join
(there is no noise on the line in the model, see section 7). A frame that comes in
several reads is handed on once and in its turn, provided no read ends in an inner 0x7e
and none holds bytes of two frames (`apart`); otherwise frames are lost. The loop of
`crc16_calculate` computes the remainder by the CCITT polynomial for all that is ever
gathered.

**tank.** With samples up to a second old, and with the lower and the upper probe of
different seconds combined, the tank rises at most one unit above the upper probe, falls
at most two below the lower one, and the valve is opened only for a tank that really is
below the lower probe. The temperature stays within one unit of the upper threshold;
cold water comes to be heated and a low tank to be filled.

**gprs.** A call whose expected answer no earlier call expects is not taken for answered
by a stale buffer or a late answer. The calls that share `OK` (AT after ATE0, CSTT,
CIICR, CIFSR after those), and the second CSQ, are exempt, because for them it does
happen. The bring-up ends.

**kernel.** Code is executed only by a most urgent thread among those awake, or by the
one in a critical section; a sleep of n ticks ends at the n-th tick, also when the tick
wraps and when ticks fall between a sleep's suspension and its `rt_schedule`
(`ImplementsPriorityCpu`). The lists and the bitmap agree at every interrupt
(`ListsTellTheTruth`). Idle frees main's stack only when nothing leads back to it
(`FreedIsOutOfUse`). `StartedTogether`: main, at priority 10, makes all the start calls
before the first thread that it starts has run, up to the one that sleeps (gprs_class's,
the last); so WaterOut's ring and parameter are there when AndroidCmdHandle uses them,
although its start call comes first. With a main less urgent than its threads that would
not hold. `SleeperReturns`: the most urgent sleeper gets the processor back.

**ipc.** Each unit of a semaphore and the mutex are with one thread or in the value,
whatever race of time-out, release and switch; nobody that waits is forgotten, and nobody
waits for what is there. Idle may have to wait for the heap, with no thread ready at that
moment: `OnlyRunningRuns` says that `rt_schedule`, which then does nothing, never leaves
a suspended thread running. That rests on the heap's holder not sleeping inside: the
mutant that lets it sleep breaks it. `PriorityInherited`: over sleeps, nested takes and
time-outs the owner is as urgent as those that wait, and nobody keeps a priority that is
not its own. `InversionOnlyByRelease`: a thread that is less urgent than a ready one runs
only after it has given up an inherited priority in `rt_mutex_release` (section 5).
`ShellHears`: the shell never waits with a byte in the buffer.

### The bounds, and why they are enough

- `MaxFrames` in Dispenser (4): two commands are the most that meet in the ring; the
  third and fourth frames cover a calibration's effect on a later one and the state
  after a refusal. The theorems of section 6 hold for any number of frames. The frames
  are all commands and calibration steps, hot and cold, a payload that is no request and
  a command the firmware does not know.
- `BufferSize` of the rings (4): every position, exact fit, cut and wrap occurs with
  blocks of 0 to 5. Theorems hold for every size.
- `MaxBytes` in RingPreempted (10): the indices go round more than twice, both mirrors
  are flipped and flipped back. Theorems hold for every size, block and number of bytes.
- `bufsz` (4, in the code 64): reads shorter than, as long as and longer than the
  contents, and overruns. Theorems hold for every size.
- `BufferSize` of FrameRx (13, in the code 40): as long as the longest frame, so that
  both an exact fit and an overflow happen with three frames; with 40 an overflow would
  take four. `Stale` (0 and 1): a byte that is no flag, and one that passes for a
  direction or a channel.
- `Often` and `Some` of Gprs (2, for 0xFFFFFF and 0x50): a call needs one try to fail
  and one to read the late answer. `MaxLate` (2): the answer of an earlier try and of an
  earlier command together.
- The tank (theorems hold for every tank that meets `MarksAssumption`): a few units between the marks and above the upper ones, more than the level
  or the temperature moves between a sample and the action upon it; longer distances only
  add seconds in which nothing is tested differently.
- `Ticks` (8 and 5, for 2^32): the tick wraps within every behaviour, and half the range
  is longer than the longest sleep, as in the code (`Naps` up to 2, `Times` up to 1).
  Slices of one or two ticks end often; longer ones only add ticks at which nothing does.
- `MaxNest` (2): an inner and an outer critical section. In Ipc 0: critical sections and
  waits do not meet (a take asserts that the scheduler is not locked), and `kernel` has
  the sections.
- `MaxValue` (1), `Room` (2), `MaxHold` (2): a release with nobody waiting, several bytes
  at one release, a mutex taken twice.
- Five threads: one above, one between and two that share the lowest priority, so that
  inheritance crosses a thread in between, and slices end.

`CHECK_DEADLOCK FALSE` is set where the bound on what is sent lets the model stop
(`ring_preempted`, `frame_rx`) or the code is at its end (`gprs`).

### Fairness

- Dispenser: weak fairness of every step of both threads. WaterOut sleeps at most 100
  ms, or one millisecond in `msleep_timeout`, and computes nothing long, so both threads
  get the processor. The tablet is not fair: it may fall silent at any time.
- TankControl: weak fairness of both threads' turns and of the clock. The threads only
  sleep and compute, and no more urgent thread computes for long.
- Gprs: weak fairness of the caller's own loop. The module is not fair.

- Kernel: the tick never stops and its interrupt ends (weak fairness). Strong fairness
  where an interrupt may come first each time: a thread that has the processor again and
  again returns from its kernel call, leaves its critical section, and main makes its
  next call. Sleeping, and entering a critical section, are not fair: a thread may
  compute for ever.

Ipc has no liveness property: with four million states its graph is too large for the
time a run may take.

## 4. What the modules assume of each other

`Dispenser`, `RingPreempted` and `TankControl` take what a more urgent thread does
between two sleeps for one action, and let it come anywhere in a less urgent one: that is
`PriorityCpu`, which `Kernel` implements. Their weak fairness (every thread that is awake
gets its turn) is the kernel's `SleeperReturns` for the most urgent, and for the others
rests on the more urgent ones sleeping again, which they do in every turn of their loops.
`SerialRx` takes sections with interrupts disabled for actions, as `Kernel` does.

`Dispenser` takes the payloads that `FrameRx` hands on, and its rings for queues:
`RtRingBuffer` implements the queue for whole calls (proved), and `RingPreempted` shows
which interleaving of calls is not like whole calls. `FrameRx` takes the driver for a
queue that loses nothing, which `SerialRx` is while no more than `bufsz - 1` = 63 bytes
wait. The loop sleeps 10 ms when it has read nothing, in which 115200 baud could bring
115 bytes; a tablet that waits for its answer sends far fewer, and the frames of
`frame_rx` together have 39. The compiler is taken to be the Keil project's (ARMCC 5,
enums as short as possible), on which the handlers' read of the one-byte `water_flag`
through a pointer to an enum is a read of one byte.

## 5. Disagreements

Each has a run whose counterexample shows it (`PROJECT.json`, "findings").

1. **A stop does not stop** (`stop_takes_effect`). The stop is answered with success as
   soon as it is queued (A/androidCmdHandle_thread.c:191). WaterOut, in `msleep_timeout`
   (A/waterout_control.c:160), waits for `stop_flag`, which only WaterOut itself sets,
   after reading the queue it does not read. The same makes every dispense endless
   (`NeverStops`). protocol.txt:30-33 has the success answer of a stop.
2. **A stop misses the command that waits** (`stop_covers_waiting`). With the flag down
   a stop reports success at once (line 184), and the dispense still in the ring starts
   afterwards.
3. **A frame is handled twice** (`handled_at_most_once`). One 0x7e, read alone, is the
   first byte and the last (A/androidCmdHandle_thread.c:58), and the previous frame
   still lies behind it.

Seen while reading or modelling, without a run:

- Calibration reads the wrong fields: A/waterout_control.c:71 chooses the outlet by the
  step, and lines 79 and 90 take the amount one byte early, against protocol.txt:52-54.
- A forced put that passes the end of the buffer, and a reader in the same mirror, leaves
  the ring empty: ringbuffer.c:141 flips the read mirror whether or not the reader is in
  the other one, where line 96 says that old data is discarded. `RtFifo` states what
  remains true, and `RingImplementsFifo` proves it. No thread of the machine uses it; the
  audio pipe and the AT client of the tree do.
- `rt_mutex_release` gives an inherited priority back without calling `rt_schedule` when
  the last waiter has timed out (K/ipc.c:862-873): the thread goes on, less urgent now
  than one that is ready, until its next kernel call or the end of its slice.
- At a mutex made with RT_IPC_FLAG_FIFO (ulog's, the pthread mutexes) the next owner is
  the first that waits, and does not inherit the priority of those behind it
  (K/ipc.c:850-856): `PriorityInherited` is stated for RT_IPC_FLAG_PRIO.
- `sem->value` is sixteen bits wide and unchecked (K/ipc.c:460): 65536 receive interrupts
  before the shell's next take would lose its wake-up.
- A dispense or a calibration never gets its final answer (protocol.txt:28), for the
  reason of 1.
- A calibration refused by a full ring is answered under the dispense command's code
  (A/androidCmdHandle_thread.c:153).
- The commands that protocol.txt knows and `data_hanlde` (line 246) does not handle get
  no answer.
- Frames that arrive in one read, or are cut at an inner 0x7e, are lost (line 58).
- The checksum of a request is taken low byte first (line 296), as in the sample of
  protocol.txt:42; protocol.txt:1-4 has numbers high byte first. This costs the checksum
  one pattern of damage that it would notice otherwise (`EndDamagePasses`, section 6).
- ringbuffer.h:24-25 explains the mirrors as if index and mirror moved together; see
  `ring_preempted`.
- AT, CSTT, CIICR and CIFSR may be taken for answered because of an earlier command's
  `OK` (A/gprs_thread.c:57).
- Any answer to CGREG is accepted (A/gprs_thread.c:76), and a CREG that reports roaming
  (0,5) is not.

## 6. What is proved

By TLAPS, from the named assumptions on the constants only. "For every" is over all
constants that meet them.

**RingProofs**, first part (`RtRingBuffer`; `BufferSizeAssumption`, `BlocksAssumption`,
`LengthsAssumption`): for every buffer size up to the width of `rt_int16_t`, all bytes,
blocks and lengths.

- `TypeCorrect`, `MirrorsCorrect`. The inductive invariant is `IInv == TypeOK /\
  MirrorsOrderIndices`. Neither half is inductive alone: without the order of the
  indices a put may pass the reader, and without the types the length computed from the
  indices means nothing. The proof first replaces the length that the code computes
  through the status by the distance `DataLen` between the indices (`DataLenValue`),
  then shows that a call moves an index on by no more than the distance allows
  (`WriterAdvances`, `ReaderAdvances`), and that the one-character calls are the block
  calls of one byte (`PutcharIsPut`, `GetcharIsGet`).
- `RingImplementsFifo`: `Spec => Fifo!Spec` with `queue <- Contents`. A put appends
  (`PutAppends`), a get drops from the front (`GetDrops`), a forced character replaces
  the oldest byte when full (`PutcharForceReplaces`), and a forced block is appended
  (`PutForceFits`) or leaves its newest bytes or nothing (`PutForceOverruns`).

**DispenserProofs** (`FramesAssumption`, `MaxFramesAssumption`): for every set of
payloads whose dispenses and calibrations have the protocol's length, and any number of
frames.

- `CommandsExecutedInOrder`, `FlagIsTrue`, `RunningWaterNeverStops`, `TypeCorrect`.
- `ExecutedInOrder` is not inductive: nothing in it says that the bytes in the ring are
  a command. `IInv` adds that, between polls, the ring is empty and everything accepted
  is executed, or it begins with exactly one accepted and not executed command, a
  fragment of a refused one perhaps behind it (`RingBetweenPolls`). A put keeps it
  because a first command leaves less room than a second one needs (`NoRoomForTwo`; a
  stop, which would fit, is put only while water runs: `HandlerHasFrame`).
  `FetchedCommand` shows that WaterOut then takes up that command and not stale bytes of
  `data`. `stop_flag = 0` is part of `IInv`, since a stop is queued only while WaterOut
  does not read: from it follows `RunningWaterNeverStops`.

**SerialRxProofs** (`ByteAssumption`, `BufszAssumption`, `SizesAssumption`): for every
buffer of two cells or more.

- `TypeCorrect`, `FlagBesideGapAlways` by `IInv == TypeOK /\ FlagBesideGap`.
- `DriverImplementsLossyFifo`: an interrupt appends, dropping the oldest byte when
  `bufsz - 1` are held (`ArriveAppends`), one turn of the read takes the oldest
  (`FetchTakesOldest`).

**RingProofs**, second part (`RingPreempted`; the ring's assumptions and
`BlockLengthsAssumption`, which the first part does not use): for every buffer size, block length and interleaving of the two threads' calls with the stores.

- `InOrder`, `CopyStable`, `WindowFull`. None of the three says what the indices and the
  mirrors are between two stores, so none is inductive. `PInv` adds *true mirrors*: the
  mirror each side would have if its two stores were one. Between the stores of a call the
  true mirror of its side is the flipped one, and from true mirrors and indices follows
  how many bytes are held (`Held`); the bytes held are the numbers from
  `Len(received) + 1` on, whichever of the two stores has been made. `torn` becomes true
  exactly where the other thread computes its length from a pair that is not the true one
  and the indices are equal, so that untorn calls of either thread compute `Held`.

**FrameRxProofs** (`PayloadsAssumption`, `StaleAssumption`): for every set of payloads,
every buffer of at least eight bytes into which their frames fit, every stale byte, any
number of frames and every way the reads cut what arrives.

- `CrcIsRemainder`: for bytes of every number and value the loop of `crc16_calculate`
  computes the remainder by the CCITT polynomial. A loop over data is a recursive
  function, and the library's induction takes an operator as a parameter; here the set of
  the numbers of turns after which a fact holds takes its place. `UpToInduction` is
  proved for sets, from the well-foundedness of finite sets, and `LoopExists` that such a
  function has the values its equation says. What every turn keeps is `Equivalent`:
  register and polynomial differ by a multiple of `Ccitt`. Both ends are below degree 16,
  where there is only one such register (`OneRemainder`).
- `ChecksumCorrect` is that theorem for what the buffer holds; `TypeCorrect`.
- `FramesReassembled`. `ReassembledUnlessCut` is not inductive: it says nothing of the
  bytes of the frames that are not handed on. `IInv == TypeOK /\ (apart => InTurn)` does:
  with `i` frames handed on, the bytes gathered and the bytes on the wire are together the
  frames from `i + 1` on, and the gathered ones are a proper beginning of frame `i + 1`,
  so that `cnt` is less than its length and a frame's place in the buffer is known
  (`BytePlaces`). A read that keeps apart then either ends inside that frame, where the
  byte it ends in is no flag (`PartInTurn`), or completes it (`CompleteInTurn`). A
  complete one is handed on, since its checksum, computed from the same bytes, is the one
  that it carries (`FrameHandled`).
- What the checksum notices when the buffer holds a frame with wrong bits in its payload
  or its checksum, its first flag, direction, channel and length being right. These theorems
  are about `stream_data_handle`, for every payload; no step of the model damages a byte.
  `DamageHandled`: such a frame is handed on exactly if its wrong bits, as the terms of a
  polynomial (`WrongTerms`), are a multiple of `Ccitt`. Each wrong bit is one term
  (`AsManyTerms`), and a multiple other than zero has an even number of terms
  (`MultipleIsEven`) which never lie within 16 places of each other (`MultipleIsWide`).
  So an odd number of wrong bits is refused, wherever they are (`OddDamageRefused`), and
  so is any damage to one byte, to two neighbouring bytes of the payload, or to the two of
  the checksum (`NeighboursRefused`).
- The two bytes between, the payload's last and the checksum's first, are neighbours in
  the frame but not in the polynomial, because the checksum is read low byte first (line
  296). Damage to them is refused (`EndDamageRefused`) except for one pattern, bits 0, 3
  and 7 of the one and 0, 5 and 7 of the other, and that one passes in every frame: a
  payload that was not sent is handed on (`EndDamagePasses`). High byte first, the two
  would be neighbours in the polynomial as well.

**TankControlProofs** (`MarksAssumption`): for every tank whose marks are in order and far
enough from its ends.

- `TankNeverOverflows`, `TankNeverEmpty`, `WaterNeverTooHot`, `ValveOpensOnlyWhenLow`,
  `TypeCorrect`. The bounds on the level are not inductive: whether a full tank is about
  to rise depends on what WaterLevel is going to read. `IInv` adds the age of the two
  samples and of the pins: how far the level can have moved since `L_LEVEL` and `H_LEVEL`
  were taken, given the valve, and what an open valve says about the lower one
  (`LowerSample`, `UpperSample`, `Valve`, `Heater`).

**GprsProofs** (`CountsAssumption`): for every number of tries and every number of late
answers.

- `MatchesAreConfirmed`, `TypeCorrect`. `MatchIsConfirmed` speaks of the moment of a
  match; the invariant has to say where the bytes that match come from. Every beginning in
  the buffer or under way is one that this command or an earlier one is answered with
  (`Known`), one of this command's own is there only after the module has given it
  (`Genuine`), and a command that has not been written yet has no answer (`Fresh`).

**KernelProofs** (`SchedulerAssumption`, `KernelAssumption`): for every
set of threads, priority, slice and order of starts, every range of the tick, every depth
of critical sections and every length of sleep.

- `TypeCorrect`, `ListsCorrect`, `FreedUnused`. The first part has a lemma for every
  operator of `Scheduler`: a list loses one node (`WithoutAtMembers`, `Stop`) or gains one (`Join`,
  `TimerInserted`, `Start`) and nothing else changes; `ScheduleLemma` puts `rt_schedule`
  together from them. `ListsTellTheTruth` is not inductive. `IInv` adds that idle is
  always ready or running, so that the ready group is not empty when the current thread
  cannot go on; that a current thread which no longer runs is about to call `rt_schedule`
  with the scheduler unlocked (`RunsOrCalls`), so that code is executed, and the lists are
  changed, only by a thread that runs (`UserRuns`); and that threads not yet started are
  INIT and ended ones CLOSE (`NotYetStarted`, `EndedForEver`), whom no timer and no
  `rt_schedule` can reach.
- `SetUpFirst`: `StartedTogether`, given that main is more urgent than the threads that it
  starts (`MainMostUrgent`; in the code 10 against 24 and more). As long as a start call
  is to come before the first that sleeps, main is current and runs, for it is
  `Unrivalled`: no thread that can be ready is as urgent, so `rt_schedule` in the tick, in
  a time-out or after a start leaves it the processor.
- `KernelKeepsPromise`: `Spec => ImplementsPriorityCpu`. It needs a second invariant,
  `Prompt`. Its first part (`TimedFrom`) measures every timer by how far its point is ahead
  of the tick (`Ahead`, with -1 for a point just gone by): the list is in that order, no
  point is half the clock or more ahead, and outside the interrupt none has gone by. A
  tick takes one from every distance, across the wrap as elsewhere; a timer is inserted
  before the first that is further ahead, though the code compares differences of wrapping
  numbers; and the interrupt, which takes timers off the front while they are due, leaves
  none that is. Its second part: nobody ready is more urgent than the thread whose code is
  executed, unless that one is in a critical section or about to call `rt_schedule`. What
  the promise calls ticks left is then what the timer's distance says (`LeftInValue`).
  `SchedulerAssumption` asks for five values of the tick or more: with four, a point just
  gone by is half the clock away, and a timer that is due would not be found.

**IpcProofs** (the kernel's assumptions and `IpcAssumption`): for every set of threads, of
users of the heap and of the lock and of waiting times, either order of each list, every
depth of nesting and every size of the console's buffer.

- `UnitsNeverLost`, `WakersKnow`, `CodeIsRun`, `OwnerIsUrgent`, `ShellAlwaysHears`: the
  five invariants of `ipc`. `InversionNamed`: `InversionOnlyByRelease`, by the same
  invariant.
- The first section says of every kernel call only what the objects can see of it: who is
  ready, who sleeps, which priorities change (`Same`), and that after `rt_schedule` nobody
  who is ready is more urgent than the current thread (`ScheduleHighest`).
- `IpcInv` cannot take over the kernel's argument that idle is always ready, since idle
  waits for the heap. What it has instead is `AlwaysAble`: when idle is suspended it is in
  the heap's list, so the heap's unit is with a thread (`Units`); that thread is not asleep,
  for a timer runs only outside of all objects or with the lock (`Places`), and not in a
  list, since it waits for nothing else (`Queues`). So some thread is ready or runs, and
  `rt_schedule` finds it. This is why `SleepOutside` excludes the heap: its mutant, a sleep
  inside the heap, leaves the processor to a thread that is suspended.
- `Units` names the one holder of the heap and of the lock, who may be between the release
  that gave it the unit and its own return. `Urgency` adds to `PriorityInherited` that the
  list is in order of the threads' own priorities, which holds because nobody in it is the
  owner (`QueuedOf`, `TailOf`, `WithoutOf`). `Hears` adds to `ShellHears` the moment before
  the shell's take: a byte that has come since its last read is counted in the value.
- A step is examined for the threads that it is about; `OthersKept` says once that no
  other thread is concerned.

### Only model-checked

- Liveness (`AcceptedExecuted`, `ColdIsHeated`, `LowIsFilled`, `BringUpEnds`,
  `SleeperReturns`): fairness and ENABLED are out of the prover's reach.
- `OnlySentHandled`: with arbitrary payloads it is not true. A payload may hold a whole
  frame of its own, and a read that ends at the right 0x7e hands that on; or the bytes of
  two frames that lie over one another in the buffer, or stale ones, may happen to have
  the right checksum of 16 bits. The run checks it with a payload that holds a flag and with
  stale bytes that pass for a direction and a channel.

## 7. What is not modelled

- Of start-up and the thread layer: main's prints and the table of pthreads, keys and
  joining. The priorities they yield decide what is one action, and `pthread_create` is
  its `rt_thread_startup`.
- `begin_out_hotwater`, `send_heart_once`, `hot_water_control`, `tcp_connect`,
  `tcp_send` and the handlers without a body: never called, or empty.
- Transmission on the UART: it writes a register and waits. DMA, polling mode, control
  and close of the serial driver: not used in this configuration.
- CHANNEL_TWO and CHANNEL_FOUR: the test at A/androidCmdHandle_thread.c:271 lets only
  CHANNEL_ONE pass.
- Noise on the line: what arrives is what was sent. A checksum of 16 bits cannot promise
  that nothing else passes, so `OnlySentHandled` could not hold with arbitrary noise.
  Which damage to one frame in the buffer passes and which does not is proved, without a
  step that does the damage (section 6); a damaged direction, channel, length
  or flag, and bytes lost or added, are not covered.
- Of RT-Thread's kernel: events, mailboxes, message queues, memory pools, soft and
  periodic timers, signals, several processors, deleting and detaching objects, hooks, and
  a thread that holds two mutexes. No thread of the machine uses them. What the heap hands
  out, and the context switch itself, in assembly.
- The rest of the tree: the HAL, the board support packages of other boards, drivers of
  other chips, file systems, network stacks and the C library, four million lines that the
  firmware mostly does not even link. The modules cover the application and what it stands
  on; they cannot cover a notable share of the lines of the whole tree.

## 8. Plan

The order was: the ring and the queue, since all else stands on them; the dispensing core
and its theorems; the ring under preemption; reception (checksum, frames, driver); the
tank; the bring-up; the kernel that all of them run on; the semaphores, the mutex and the
console on that kernel. All of these are written, checked and, liveness and `OnlySentHandled`
apart, proved. What is left, in this order:

1. Compose reception with the dispensing core: `FrameRx`'s gathering over abstract frames
   with `Dispenser`, to see what a frame handled twice does to the commands (a dispense
   repeated after it was answered), and with `LossyFifo`, what an overrun of the driver's
   buffer loses.
2. Compose `Dispenser` with the store-by-store ring of eight bytes, to say exactly which
   commands the window of `ring_preempted` can turn into others.
3. Liveness of `Ipc` on an instance small enough for it: a taker of the lock gets it,
   given that its owner releases it.
4. Noise as steps of `FrameRx`: bytes changed on the line, with a tablet that repeats what
   was not answered. What `stream_data_handle` makes of one damaged frame is proved.
