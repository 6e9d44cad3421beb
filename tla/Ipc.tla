--------------------------------- MODULE Ipc ---------------------------------
(***************************************************************************)
(* The threads of Kernel where they wait for each other: at the semaphore  *)
(* of the heap, which guards every rt_malloc and rt_free (main's start     *)
(* calls, the shell's commands, idle's freeing); at the semaphore by which *)
(* the receive interrupt of the console wakes the shell; and at a mutex,   *)
(* whose owner inherits the priority of those that wait (ulog and the      *)
(* pthread mutexes use one).                                               *)
(*                                                                         *)
(* A call's section with interrupts disabled is one action, its call of    *)
(* rt_schedule another (Kernel), and what it does when it is switched to   *)
(* again a third: ticks, timeouts and receive interrupts fall in between.  *)
(***************************************************************************)
EXTENDS Kernel

CONSTANTS Heap, RxSem, Lock,  \* heap_sem, shell->rx_sem, a mutex
          Shell,
          Users,       \* the threads that take the heap and the lock
          PrioFlag,    \* the objects made with RT_IPC_FLAG_PRIO, the others are FIFO
          Times,       \* the waiting times asked for at the lock, in ticks
          FOREVER,     \* RT_WAITING_FOREVER
          MaxValue,    \* RT_SEM_VALUE_MAX: what sem->value can count, 2^16 - 1 in the code
          Room,        \* how many bytes the console's receive buffer holds
          MaxHold      \* a bound on the nesting of takes of the lock

Object == {Heap, RxSem, Lock}

ASSUME IpcAssumption ==
  /\ Heap # RxSem /\ RxSem # Lock /\ Heap # Lock /\ Nobody \notin Object
  /\ Shell \in Thread \ {Main, Idle}
  /\ Users \in [{Heap, Lock} -> SUBSET (Thread \ {Idle})]
  /\ PrioFlag \subseteq Object
  /\ Times \subseteq (1 .. RT_TICK_MAX \div 2 - 1) \cup {FOREVER}
  /\ MaxValue \in Nat \ {0}
  /\ Room \in Nat \ {0} /\ MaxHold \in Nat \ {0}

VARIABLES at,     \* where a thread is: "out", "call": about to take, "waits": behind
                  \*   the rt_schedule of a take, "late": there, with thread->error
                  \*   set by a timeout (nothing else looks at it), "in"
          using,  \* the object it takes or holds
          queue,  \* parent.suspend_thread
          value,  \* sem->value, mutex->value
          mutex,  \* owner, original_priority and hold of the lock
          bytes   \* how many bytes wait in the console's receive buffer

ipcVars == <<at, using, queue, value, mutex, bytes>>
allVars == <<vars, ipcVars>>

Free == [owner |-> Nobody, original |-> 0, hold |-> 0]

IpcInit ==
  /\ Init
  /\ at = [t \in Thread |-> "out"]
  /\ using = [t \in Thread |-> Nobody]
  /\ queue = [o \in Object |-> <<>>]
  /\ value = [o \in Object |-> IF o = RxSem THEN 0 ELSE 1]
  /\ mutex = Free
  /\ bytes = 0

-----------------------------------------------------------------------------
(***************************************************************************)
(* ipc.c                                                                   *)
(***************************************************************************)
\* The place in a list of those that wait: behind all, or before the first that is
\* less urgent.
Queued(o, t) ==
  LET list  == queue[o]
      after == {i \in 1 .. Len(list) : k.priority[t] < k.priority[list[i]]}
      at0   == IF o \notin PrioFlag \/ after = {} THEN Len(list) + 1 ELSE Min(after)
  IN SubSeq(list, 1, at0 - 1) \o <<t>> \o SubSeq(list, at0, Len(list))

\* A take that has to wait, from a kernel state k1, in which the owner of a mutex
\* may have been made more urgent.
Wait(t, o, k1, time) ==
  LET k2 == rt_thread_suspend(k1, t)
  IN /\ k' = IF time = FOREVER THEN k2 ELSE rt_timer_start(k2, t, time)
     /\ queue' = [queue EXCEPT ![o] = Queued(o, t)]
     /\ at' = [at EXCEPT ![t] = "waits"]
     /\ using' = [using EXCEPT ![t] = o]
     /\ ThenSchedule(t)

\* Thread t is about to take o.
Takes(t, o) == /\ InUser(t)
               /\ \/ at[t] = "call" /\ using[t] = o
                  \/ at[t] = "out" /\ o # RxSem /\ t \in Users[o]

\* What a successful take leads to: the shell reads again, the others are inside.
Entered(t, o) == /\ at' = [at EXCEPT ![t] = IF o = RxSem THEN "out" ELSE "in"]
                 /\ using' = [using EXCEPT ![t] = IF o = RxSem THEN Nobody ELSE o]

rt_sem_take(t, s) ==
  /\ Takes(t, s)
  /\ \/ /\ value[s] > 0
        /\ value' = [value EXCEPT ![s] = @ - 1]
        /\ Entered(t, s)
        /\ UNCHANGED <<k, pc, queue>>
     \/ /\ value[s] = 0
        /\ Wait(t, s, k, FOREVER)
        /\ UNCHANGED value
  /\ UNCHANGED <<remaining, isr, started, defunct, freed, mutex, bytes>>

\* What rt_sem_release does to the semaphore: the first that waits leaves the list,
\* or the value counts the unit.
Release(s) ==
  IF queue[s] # <<>>
  THEN /\ queue' = [queue EXCEPT ![s] = Tail(@)]
       /\ UNCHANGED value
  ELSE /\ value' = [value EXCEPT ![s] = @ + 1]
       /\ UNCHANGED queue

Leaves(t) == /\ at' = [at EXCEPT ![t] = "out"]
             /\ using' = [using EXCEPT ![t] = Nobody]

rt_sem_release(t, s) ==
  /\ InUser(t) /\ at[t] = "in" /\ using[t] = s
  /\ Release(s)
  /\ Leaves(t)
  /\ IF queue[s] # <<>>
     THEN k' = rt_thread_resume(k, Head(queue[s])) /\ ThenSchedule(t)
     ELSE UNCHANGED <<k, pc>>
  /\ UNCHANGED <<remaining, isr, started, defunct, freed, mutex, bytes>>

\* A slip: compared with the priority that the owner had when it took the lock.
InheritFromOriginal(t) ==
  IF k.priority[t] < mutex.original
  THEN ChangePriority(k, mutex.owner, k.priority[t])
  ELSE k

\* The owner of the lock is made as urgent as the one that is going to wait.
Inherit(t) ==
  IF k.priority[t] < k.priority[mutex.owner]
  THEN ChangePriority(k, mutex.owner, k.priority[t])
  ELSE k

rt_mutex_take(t, time) ==
  /\ \/ Takes(t, Lock)
     \/ InUser(t) /\ at[t] = "in" /\ using[t] = Lock /\ mutex.hold < MaxHold
  /\ \/ /\ mutex.owner = t
        /\ mutex' = [mutex EXCEPT !.hold = @ + 1]
        /\ UNCHANGED <<k, pc, at, using, queue, value>>
     \/ /\ mutex.owner # t /\ value[Lock] > 0
        /\ value' = [value EXCEPT ![Lock] = @ - 1]
        /\ mutex' = [owner |-> t, original |-> k.priority[t], hold |-> mutex.hold + 1]
        /\ Entered(t, Lock)
        /\ UNCHANGED <<k, pc, queue>>
     \/ /\ mutex.owner # t /\ value[Lock] = 0
        /\ Wait(t, Lock, Inherit(t), time)
        /\ UNCHANGED <<value, mutex>>
  /\ UNCHANGED <<remaining, isr, started, defunct, freed, bytes>>

\* The last release gives the owner its own priority back and the lock to the
\* first that waits.
rt_mutex_release(t) ==
  /\ InUser(t) /\ at[t] = "in" /\ using[t] = Lock
  /\ LET k1   == ChangePriority(k, t, mutex.original)
         next == Head(queue[Lock])
     IN \/ /\ mutex.hold > 1
           /\ mutex' = [mutex EXCEPT !.hold = @ - 1]
           /\ UNCHANGED <<k, pc, at, using, queue, value>>
        \/ /\ mutex.hold = 1 /\ queue[Lock] # <<>>
           /\ mutex' = [owner |-> next, original |-> k1.priority[next], hold |-> 1]
           /\ queue' = [queue EXCEPT ![Lock] = Tail(@)]
           /\ k' = rt_thread_resume(k1, next)
           /\ Leaves(t) /\ ThenSchedule(t)
           /\ UNCHANGED value
        \/ /\ mutex.hold = 1 /\ queue[Lock] = <<>>
           /\ mutex' = Free
           /\ value' = [value EXCEPT ![Lock] = @ + 1]
           /\ k' = k1
           /\ Leaves(t)
           /\ UNCHANGED <<pc, queue>>
  /\ UNCHANGED <<remaining, isr, started, defunct, freed, bytes>>

\* The end of a take that waited.
TakeReturns(t) ==
  /\ InUser(t)
  /\ \/ at[t] = "waits" /\ Entered(t, using[t])
     \/ at[t] = "late" /\ Leaves(t)
  /\ UNCHANGED <<vars, queue, value, mutex, bytes>>

-----------------------------------------------------------------------------
(***************************************************************************)
(* The console: rt_hw_serial_isr, finsh_rx_ind and finsh_getchar.          *)
(***************************************************************************)
\* One interrupt may bring several bytes; it releases the semaphore once.  That
\* MaxValue interrupts come before the shell, which drains the value whenever it has
\* read all bytes, gets to it is left out: there sem->value, which nothing checks,
\* wraps.
rt_hw_serial_isr ==
  /\ ~isr /\ value[RxSem] < MaxValue
  /\ \E n \in 1 .. Room : bytes' = Min({bytes + n, Room})
  /\ Release(RxSem)
  /\ k' = IF queue[RxSem] # <<>> THEN rt_schedule(rt_thread_resume(k, Head(queue[RxSem]))) ELSE k
  /\ UNCHANGED <<remaining, isr, pc, started, defunct, freed, at, using, mutex>>

\* A slip: a byte for every take of the semaphore.
getchar_byte_per_unit ==
  /\ InUser(Shell) /\ at[Shell] = "out"
  /\ bytes' = IF bytes > 0 THEN bytes - 1 ELSE 0
  /\ at' = [at EXCEPT ![Shell] = "call"]
  /\ using' = [using EXCEPT ![Shell] = RxSem]
  /\ UNCHANGED <<vars, queue, value, mutex>>

\* One turn of finsh_getchar's loop: a byte, or none and the semaphore.
finsh_getchar ==
  /\ InUser(Shell) /\ at[Shell] = "out"
  /\ IF bytes > 0
     THEN bytes' = bytes - 1 /\ UNCHANGED <<at, using>>
     ELSE /\ at' = [at EXCEPT ![Shell] = "call"]
          /\ using' = [using EXCEPT ![Shell] = RxSem]
          /\ UNCHANGED bytes
  /\ UNCHANGED <<vars, queue, value, mutex>>

-----------------------------------------------------------------------------
(***************************************************************************)
(* The kernel's actions, and what they are to the threads that wait.       *)
(***************************************************************************)
\* A slip: the thread stays in the list it has waited in.
TimeoutStaysQueued ==
  LET t == Head(k.timers).thread
  IN /\ TimerFires
     /\ at' = [at EXCEPT ![t] = IF @ = "waits" THEN "late" ELSE @]
     /\ UNCHANGED <<using, queue, value, mutex, bytes>>

\* rt_thread_timeout: the thread leaves the list it waits in, with an error.
Timeout ==
  LET t == Head(k.timers).thread
  IN /\ TimerFires
     /\ queue' = [o \in Object |-> Without(queue[o], t)]
     /\ at' = [at EXCEPT ![t] = IF @ = "waits" THEN "late" ELSE @]
     /\ UNCHANGED <<using, value, mutex, bytes>>

\* A slip: a thread sleeps inside the heap, too.
SleepAnywhere ==
  /\ \E t \in Thread \ {Shell}, n \in Naps : at[t] \in {"out", "in"} /\ Sleep(t, n)
  /\ UNCHANGED ipcVars

\* A thread may sleep with the lock, never inside the heap.
SleepOutside ==
  /\ \E t \in Thread \ {Shell}, n \in Naps :
       /\ \/ at[t] = "out"
          \/ at[t] = "in" /\ using[t] = Lock
       /\ Sleep(t, n)
  /\ UNCHANGED ipcVars

\* Idle has taken an ended thread from its list and is about to free its memory.
IdleFrees ==
  /\ at[Idle] = "out"
  /\ rt_thread_idle_excute
  /\ at' = [at EXCEPT ![Idle] = "call"]
  /\ using' = [using EXCEPT ![Idle] = Heap]
  /\ UNCHANGED <<queue, value, mutex, bytes>>

Elapses == (rt_tick_increase \/ TickEnds) /\ UNCHANGED ipcVars
Switches == Schedule /\ UNCHANGED ipcVars
MainStarts == at[Main] = "out" /\ MainGoesOn /\ UNCHANGED ipcVars

ShellGoesOn == finsh_getchar \/ rt_sem_take(Shell, RxSem) \/ TakeReturns(Shell)

IpcNext ==
  \/ Elapses \/ Timeout \/ Switches \/ MainStarts \/ SleepOutside \/ IdleFrees
  \/ rt_hw_serial_isr
  \/ ShellGoesOn
  \/ \E t \in Thread :
       \/ rt_sem_take(t, Heap) \/ rt_sem_release(t, Heap)
       \/ rt_mutex_release(t) \/ TakeReturns(t)
       \/ \E time \in Times : rt_mutex_take(t, time)

IpcSpec == IpcInit /\ [][IpcNext]_allVars

-----------------------------------------------------------------------------
Waiting(t) == \E o \in Object : In(queue[o], t)

\* Those that hold o, and those that have been given it and have not returned yet.
Holders(o) == {t \in Thread : /\ using[t] = o
                              /\ \/ at[t] = "in"
                                 \/ at[t] = "waits" /\ ~Waiting(t)}

\* A unit is with one thread or in the value, never lost and never in two places,
\* whatever race of a timeout, a release and a switch; and nobody waits for what is
\* there.  So the heap and the lock have one holder at most.
UnitsAccountedFor ==
  /\ \A o \in {Heap, Lock} : Cardinality(Holders(o)) + value[o] = 1
  /\ \A o \in Object : queue[o] # <<>> => value[o] = 0
  /\ IF mutex.owner = Nobody THEN mutex = Free /\ Holders(Lock) = {}
     ELSE Holders(Lock) = {mutex.owner} /\ mutex.hold > 0

\* A thread in a list waits there, asleep, and in no other; a thread asleep is in a
\* list or has a timer: nobody is forgotten.
NobodyForgotten ==
  \A t \in Thread :
    /\ \A o \in Object : In(queue[o], t) => using[t] = o /\ at[t] = "waits"
    /\ \A o \in Object : NoTwice(queue[o])
    /\ Waiting(t) => k.stat[t] = "SUSPEND"
    /\ k.stat[t] = "SUSPEND" => Waiting(t) \/ In(Sleepers, t)

\* No code is executed by a thread that the kernel holds for asleep: rt_schedule
\* does nothing when no thread is ready, but there always is one, also when idle
\* itself waits for the heap.
OnlyRunningRuns == \A t \in Thread : InUser(t) => k.stat[t] = "RUNNING"

\* While others wait for it, the owner of a priority-ordered lock is as urgent as
\* they are; without the lock a thread has its own priority.
PriorityInherited ==
  /\ Lock \in PrioFlag => \A i \in 1 .. Len(queue[Lock]) :
                            k.priority[mutex.owner] <= k.priority[queue[Lock][i]]
  /\ \A t \in Thread \ {mutex.owner} : k.priority[t] = InitPriority[t]

\* A thread goes on below the most urgent one that is ready only where it has just
\* given up an inherited priority: rt_mutex_release then calls rt_schedule for the
\* next owner only, and a thread whose wait has timed out has to be content with the
\* next call or the end of the slice.  Whatever else makes a thread ready lets it run.
LessUrgentRuns == /\ pc[k.current] = "user"
                  /\ k.group # {} /\ k.priority[k.current] > HighestReady(k)

InversionOnlyByRelease ==
  [][LessUrgentRuns' => LessUrgentRuns \/ \E t \in Thread : rt_mutex_release(t)]_allVars

\* The shell never sleeps on a byte, although one release stands for several and
\* may come between its read that finds nothing and its take.
ShellHears == In(queue[RxSem], Shell) => bytes = 0
=============================================================================
