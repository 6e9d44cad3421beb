------------------------------- MODULE Kernel -------------------------------
(***************************************************************************)
(* The threads of the machine on RT-Thread: started one after the other by *)
(* main, sleeping, holding the scheduler off in critical sections, and     *)
(* ending; the tick interrupt, which ends time slices and sleeps; and the  *)
(* idle thread, which frees what ended threads leave.                      *)
(*                                                                         *)
(* A section with interrupts disabled is one action.  The tick interrupt   *)
(* may fall between any two of a thread's actions: above all between a     *)
(* kernel call's change of the lists and the rt_schedule() that follows    *)
(* it.  Its own steps, one per timer, are not interleaved with threads.    *)
(*                                                                         *)
(* That the model starts all the threads, in the order of main.c's calls,  *)
(* is an assumption: lines 24 to 27 of main.c are commented out.           *)
(***************************************************************************)
EXTENDS Scheduler

CONSTANTS Main, Idle,  \* the threads that the kernel itself starts
          InitPriority,
          Slice,       \* thread->init_tick
          StartOrder,  \* the other threads, in the order in which main starts them
          SlowStarts,  \* those whose start function sleeps before pthread_create
          Naps,        \* for how many ticks threads sleep
          MaxNest,     \* a bound on the nesting of critical sections
          Nobody       \* no thread

ASSUME KernelAssumption ==
  /\ {Main, Idle} \subseteq Thread /\ Main # Idle
  /\ InitPriority \in [Thread -> Priority]
  /\ \A t \in Thread : InitPriority[t] <= InitPriority[Idle]
  /\ Slice \in [Thread -> Nat \ {0}]
  /\ StartOrder \in Seq(Thread \ {Main, Idle})
  /\ \A i, j \in 1 .. Len(StartOrder) : StartOrder[i] = StartOrder[j] => i = j
  /\ Naps \subseteq 0 .. RT_TICK_MAX \div 2 - 1    \* RT_ASSERT in rt_timer_start
  /\ MaxNest \in Nat
  /\ Nobody \notin Thread

VARIABLES k,          \* the kernel's state, see Scheduler
          remaining,  \* thread->remaining_tick
          isr,        \* TRUE while the tick interrupt checks the timers
          pc,         \* "user", "schedule": about to call rt_schedule, "gone"
          started,    \* how many start calls main has completed
          defunct,    \* rt_thread_defunct
          freed       \* the threads whose stack and object have been freed

vars == <<k, remaining, isr, pc, started, defunct, freed>>

Init ==
  /\ k = [current  |-> Main,
          stat     |-> [t \in Thread |-> IF t = Main THEN "RUNNING"
                                         ELSE IF t = Idle THEN "READY" ELSE "INIT"],
          priority |-> InitPriority,
          table    |-> [p \in Priority |-> IF p = InitPriority[Idle] THEN <<Idle>> ELSE <<>>],
          group    |-> {InitPriority[Idle]},
          lock     |-> 0,
          tick     |-> 0,
          timers   |-> <<>>]
  /\ remaining = Slice
  /\ isr = FALSE
  /\ pc = [t \in Thread |-> "user"]
  /\ started = 0
  /\ defunct = <<>> /\ freed = {}

-----------------------------------------------------------------------------
(***************************************************************************)
(* The tick interrupt.                                                     *)
(***************************************************************************)
\* A slip: the slice that has ended is not begun anew.
tick_keeps_slice ==
  LET t  == k.current
      k1 == [k EXCEPT !.tick = (k.tick + 1) % Ticks]
  IN /\ ~isr
     /\ isr' = TRUE
     /\ k' = IF remaining[t] = 1 THEN rt_schedule(k1) ELSE k1
     /\ remaining' = [remaining EXCEPT ![t] = @ - 1]
     /\ UNCHANGED <<pc, started, defunct, freed>>

\* rt_tick_increase counts the tick and the current thread's slice, at whose end
\* the thread yields, and goes on to the timers.
rt_tick_increase ==
  LET t  == k.current
      k1 == [k EXCEPT !.tick = (k.tick + 1) % Ticks]
  IN /\ ~isr
     /\ isr' = TRUE
     /\ IF remaining[t] = 1
        THEN k' = rt_schedule(k1) /\ remaining' = [remaining EXCEPT ![t] = Slice[t]]
        ELSE k' = k1 /\ remaining' = [remaining EXCEPT ![t] = @ - 1]
     /\ UNCHANGED <<pc, started, defunct, freed>>

\* One turn of rt_timer_check's loop ...
TimerFires == /\ isr /\ FirstTimerDue(k)
              /\ k' = rt_thread_timeout(k, Head(k.timers).thread)
              /\ UNCHANGED <<remaining, isr, pc, started, defunct, freed>>

\* ... and its end, at the first timer that is not due.
TickEnds == /\ isr /\ ~FirstTimerDue(k)
            /\ isr' = FALSE
            /\ UNCHANGED <<k, remaining, pc, started, defunct, freed>>

-----------------------------------------------------------------------------
(***************************************************************************)
(* The threads.                                                            *)
(***************************************************************************)
\* Thread t executes its own code.
InUser(t) == ~isr /\ k.current = t /\ pc[t] = "user"

\* It has changed the lists and is about to call rt_schedule.
ThenSchedule(t) == pc' = [pc EXCEPT ![t] = "schedule"]

\* The call of rt_schedule.  A thread that is switched away from returns from it
\* when it is switched to again; one that has ended never is.
Schedule ==
  /\ ~isr /\ pc[k.current] = "schedule"
  /\ k' = rt_schedule(k)
  /\ pc' = [pc EXCEPT ![k.current] =
              IF k.stat[k.current] = "CLOSE" THEN "gone" ELSE "user"]
  /\ UNCHANGED <<remaining, isr, started, defunct, freed>>

\* A slip: the timer set before the thread is suspended, which stops it.
sleep_timer_first(t, n) ==
  /\ InUser(t) /\ k.lock = 0
  /\ k' = rt_thread_suspend(rt_timer_start(k, t, n), t)
  /\ ThenSchedule(t)
  /\ UNCHANGED <<remaining, isr, started, defunct, freed>>

rt_thread_sleep(t, n) ==
  /\ InUser(t) /\ k.lock = 0
  /\ k' = rt_timer_start(rt_thread_suspend(k, t), t, n)
  /\ ThenSchedule(t)
  /\ UNCHANGED <<remaining, isr, started, defunct, freed>>

\* The threads sleep in their loops, main in gprs_class's start (line 70).
Sleep(t, n) ==
  /\ t # Idle
  /\ t = Main => started < Len(StartOrder) /\ StartOrder[started + 1] \in SlowStarts
  /\ rt_thread_sleep(t, n)

rt_enter_critical(t) ==
  /\ InUser(t) /\ t # Idle
  /\ k.lock < MaxNest
  /\ k' = [k EXCEPT !.lock = @ + 1]
  /\ UNCHANGED <<remaining, isr, pc, started, defunct, freed>>

rt_exit_critical(t) ==
  /\ InUser(t)
  /\ k.lock > 0
  /\ k' = [k EXCEPT !.lock = @ - 1]
  /\ IF k.lock = 1 THEN ThenSchedule(t) ELSE UNCHANGED pc
  /\ UNCHANGED <<remaining, isr, started, defunct, freed>>

\* rt_thread_startup, at the end of pthread_create.
rt_thread_startup(t) ==
  rt_thread_resume([k EXCEPT !.stat[t] = "SUSPEND"], t)

\* A start function of main's: its preparations, then pthread_create.
StartNext ==
  /\ InUser(Main)
  /\ started < Len(StartOrder)
  /\ k' = rt_thread_startup(StartOrder[started + 1])
  /\ started' = started + 1
  /\ ThenSchedule(Main)
  /\ UNCHANGED <<remaining, isr, defunct, freed>>

\* rt_thread_exit, to which main returns; the other threads never do.
rt_thread_exit(t) ==
  /\ InUser(t) /\ k.lock = 0
  /\ k' = rt_timer_stop([rt_schedule_remove_thread(k, t) EXCEPT !.stat[t] = "CLOSE"], t)
  /\ defunct' = <<t>> \o defunct
  /\ ThenSchedule(t)
  /\ UNCHANGED <<remaining, isr, started, freed>>

MainReturns == started = Len(StartOrder) /\ rt_thread_exit(Main)

\* One turn of the idle thread's loop.  Interrupts are disabled from the test of
\* the list to the rt_schedule in rt_exit_critical; the stack is freed after.
rt_thread_idle_excute ==
  /\ InUser(Idle) /\ k.lock = 0
  /\ defunct # <<>>
  /\ defunct' = Tail(defunct)
  /\ freed' = freed \cup {Head(defunct)}
  /\ k' = rt_schedule(k)
  /\ UNCHANGED <<remaining, isr, pc, started>>

Interrupt == rt_tick_increase \/ TimerFires \/ TickEnds
MainGoesOn == StartNext \/ MainReturns
LeaveCritical == k.lock = 1 /\ \E t \in Thread : rt_exit_critical(t)
LeaveInner    == k.lock > 1 /\ \E t \in Thread : rt_exit_critical(t)

Next == \/ Interrupt \/ Schedule \/ MainGoesOn \/ LeaveCritical \/ LeaveInner
        \/ rt_thread_idle_excute
        \/ \E t \in Thread : rt_enter_critical(t)
        \/ \E t \in Thread, n \in Naps : Sleep(t, n)

Spec == Init /\ [][Next]_vars

\* The tick never stops and its interrupt ends.  A thread that has the processor
\* again and again gets on, although the interrupt may come first each time: out
\* of its critical sections, into the rt_schedule that follows a kernel call, and
\* main to its next call.
Fairness == /\ WF_vars(Interrupt)
            /\ SF_vars(MainGoesOn)
            /\ SF_vars(Schedule \/ LeaveCritical) /\ SF_vars(LeaveInner)

FairSpec == Spec /\ Fairness

-----------------------------------------------------------------------------
TypeOK ==
  /\ k \in [current : Thread, stat : [Thread -> Stat], priority : [Thread -> Priority],
            table : [Priority -> Seq(Thread)], group : SUBSET Priority, lock : 0 .. MaxNest,
            tick : Tick, timers : Seq([thread : Thread, due : Tick])]
  /\ remaining \in [Thread -> Nat \ {0}]
  /\ isr \in BOOLEAN
  /\ pc \in [Thread -> {"user", "schedule", "gone"}]
  /\ started \in 0 .. Len(StartOrder)
  /\ defunct \in Seq(Thread) /\ freed \subseteq Thread

Sleepers == ThreadsOf(k.timers)

\* The ready lists hold the ready threads, each once and under its priority, the
\* bitmap tells which lists are not empty, the current thread is in none, and a
\* timer is set only for a thread that sleeps (RT_ASSERT in rt_thread_timeout):
\* whatever the order of ticks, calls and timeouts.
ListsTellTheTruth ==
  /\ \A p \in Priority :
       /\ NoTwice(k.table[p])
       /\ p \in k.group <=> k.table[p] # <<>>
       /\ \A t \in Thread : In(k.table[p], t) <=> k.stat[t] = "READY" /\ k.priority[t] = p
  /\ k.stat[k.current] # "READY"
  /\ \A t \in Thread : k.stat[t] = "RUNNING" => t = k.current
  /\ NoTwice(Sleepers)
  /\ \A t \in Thread : In(Sleepers, t) <=> k.stat[t] = "SUSPEND"

\* What idle frees is out of use: the thread has ended, it is not the one the
\* processor executes, and no list leads to it.
FreedIsOutOfUse ==
  \A t \in freed : /\ k.stat[t] = "CLOSE" /\ k.current # t
                   /\ ~In(Sleepers, t) /\ \A p \in Priority : ~In(k.table[p], t)

\* No thread runs before main has made all the start calls that come before the
\* first one that sleeps: what those set up (WaterOut_class.pParameter and
\* ringbuffer_watercontrol, which AndroidCmdHandle uses and WaterOut's start
\* creates after AndroidCmdHandle's) is there by then.
StartedTogether ==
  \A t \in Thread \ {Main, Idle} : InUser(t) =>
    \A i \in 1 .. Len(StartOrder) :
      (\A j \in 1 .. i : StartOrder[j] \notin SlowStarts) => i <= started

\* How long a thread still sleeps.  While the interrupt is at work a timer that
\* is due has ended its sleep, its thread's turn in the list is a detail.
TicksLeft(t) ==
  IF ~In(Sleepers, t) THEN 0
  ELSE LET due == k.timers[CHOOSE i \in 1 .. Len(k.timers) : Sleepers[i] = t].due
       IN IF isr THEN IF NotBefore(k.tick, due) THEN 0 ELSE TicksPast(due, k.tick)
          ELSE IF k.tick = due THEN 1 ELSE TicksPast(due, k.tick)

Promise == INSTANCE PriorityCpu WITH
  Urgency <- InitPriority,
  First   <- {Main, Idle},
  alive   <- {t \in Thread : k.stat[t] \notin {"INIT", "CLOSE"}},
  left    <- [t \in Thread |-> TicksLeft(t)],
  running <- IF ~isr /\ pc[k.current] = "user" THEN k.current ELSE Nobody,
  holder  <- IF k.lock > 0 THEN k.current ELSE Nobody

\* The kernel keeps the promise: user code is executed by a most urgent thread
\* that is awake, or one in a critical section, and a sleep of n ticks ends at
\* the n-th tick (of none: at the next), also when rt_tick wraps.
ImplementsPriorityCpu == Promise!Spec

\* The thread that is more urgent than all but main, asleep, gets the processor
\* back: nothing the less urgent ones do keeps it away for ever.
SleeperReturns ==
  \A t \in Thread :
    (\A u \in Thread \ {Main, t} : InitPriority[t] < InitPriority[u]) /\ t # Main =>
      (k.stat[t] = "SUSPEND" ~> InUser(t))
=============================================================================
