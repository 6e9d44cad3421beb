------------------------------ MODULE Scheduler ------------------------------
(***************************************************************************)
(* The scheduler and the timers of RT-Thread, as far as the threads of the *)
(* machine use them: one processor, fewer than 33 priorities, hard timers  *)
(* in one list.  Every function of the kernel is an operator from the      *)
(* kernel's state, a record, to the state it leaves; the state machines    *)
(* that use this module decide where interrupts may fall.  The fields are  *)
(*                                                                         *)
(*   current   rt_current_thread                                           *)
(*   stat      thread->stat, of every thread                               *)
(*   priority  thread->current_priority; 0 is the most urgent              *)
(*   table     rt_thread_priority_table: a ready list for every priority   *)
(*   group     rt_thread_ready_priority_group, as the set of its bits      *)
(*   lock      rt_scheduler_lock_nest                                      *)
(*   tick      rt_tick, a number that wraps                                *)
(*   timers    rt_timer_list: the running timers, in order, each with its  *)
(*             thread and its timeout_tick as `due'                        *)
(*                                                                         *)
(* The kernel looks at timeout_tick only while the timer is in the list.   *)
(* RT_TIMER_FLAG_ACTIVATED is set exactly then, except inside the timer's  *)
(* own timeout function, which does not look at it.                        *)
(***************************************************************************)
EXTENDS Integers, Sequences, FiniteSetsExt

CONSTANTS Thread,
          Priority,   \* the priorities in use, 0 .. RT_THREAD_PRIORITY_MAX - 1 in the code
          Ticks       \* how many values rt_tick_t has, 2^32 in the code

\* With fewer values a tick that has just gone by would be half the range away.
ASSUME SchedulerAssumption == /\ Priority \subseteq Nat
                              /\ Ticks \in Nat /\ Ticks >= 5

RT_TICK_MAX == Ticks - 1
Tick        == 0 .. RT_TICK_MAX

Stat == {"INIT", "READY", "RUNNING", "SUSPEND", "CLOSE"}

\* Of a list: a thread is in it, and none is in it twice.
In(list, t)   == \E i \in 1 .. Len(list) : list[i] = t
NoTwice(list) == \A i, j \in 1 .. Len(list) : list[i] = list[j] => i = j

\* rt_list_remove: a node leaves the list it is in.
WithoutAt(list, at) ==
  [i \in 1 .. Len(list) - 1 |-> IF i < at THEN list[i] ELSE list[i + 1]]

Without(list, t) ==
  IF \E i \in 1 .. Len(list) : list[i] = t
  THEN WithoutAt(list, CHOOSE i \in 1 .. Len(list) : list[i] = t)
  ELSE list

-----------------------------------------------------------------------------
(***************************************************************************)
(* scheduler.c                                                             *)
(***************************************************************************)
\* A slip: the bit of a list that has become empty stays set.
remove_keeps_bit(k, t) ==
  LET p == k.priority[t]
  IN [k EXCEPT !.table[p] = Without(k.table[p], t)]

rt_schedule_remove_thread(k, t) ==
  LET p    == k.priority[t]
      list == Without(k.table[p], t)
  IN [k EXCEPT !.table[p] = list,
               !.group = IF list = <<>> THEN k.group \ {p} ELSE k.group]

\* The current thread, resumed before it has switched away, simply goes on.
rt_schedule_insert_thread(k, t) ==
  LET p == k.priority[t]
  IN IF t = k.current
     THEN [k EXCEPT !.stat[t] = "RUNNING"]
     ELSE [k EXCEPT !.stat[t] = "READY",
                    !.table[p] = Append(k.table[p], t),
                    !.group = k.group \cup {p}]

HighestReady(k) == Min(k.group)

\* A slip: the current thread gives way whatever its priority.
KeepsProcessorNever(k) == FALSE

\* The current thread goes on when it still runs and is more urgent than the rest.
KeepsProcessor(k) == /\ k.stat[k.current] = "RUNNING"
                     /\ k.priority[k.current] < HighestReady(k)

\* A slip: a thread that has ended is queued like one that runs.
NeedInsertUnlessAsleep(k) == k.stat[k.current] # "SUSPEND"

NeedInsertFromThread(k) == k.stat[k.current] = "RUNNING"

\* Otherwise the processor goes to the first thread of the most urgent ready list,
\* and the current thread, if it still runs, to the end of its own.
SwitchThread(k) ==
  LET to == Head(k.table[HighestReady(k)])
      k1 == [k EXCEPT !.current = to]
      k2 == IF NeedInsertFromThread(k) THEN rt_schedule_insert_thread(k1, k.current) ELSE k1
  IN [rt_schedule_remove_thread(k2, to) EXCEPT !.stat[to] = "RUNNING"]

rt_schedule(k) ==
  IF k.lock # 0 \/ k.group = {} THEN k
  ELSE IF KeepsProcessor(k)
       THEN [rt_schedule_remove_thread(k, k.current) EXCEPT !.stat[k.current] = "RUNNING"]
  ELSE SwitchThread(k)

-----------------------------------------------------------------------------
(***************************************************************************)
(* timer.c                                                                 *)
(***************************************************************************)
\* now - then as unsigned numbers.  A point less than half the range ahead of
\* another one counts as later.
TicksPast(now, then) == (now - then) % Ticks

\* A slip: two points of time compared as numbers.
NotBeforeAsNumbers(now, then) == now >= then

NotBefore(now, then) == TicksPast(now, then) < RT_TICK_MAX \div 2

Timer(t, due) == [thread |-> t, due |-> due]
ThreadsOf(timers) == [i \in 1 .. Len(timers) |-> timers[i].thread]

rt_timer_stop(k, t) ==
  IF \E i \in 1 .. Len(k.timers) : k.timers[i].thread = t
  THEN [k EXCEPT !.timers =
          WithoutAt(k.timers, CHOOSE i \in 1 .. Len(k.timers) : k.timers[i].thread = t)]
  ELSE k

\* The timer goes before the first one that is due later, behind those that are
\* due at the same tick.
rt_timer_start(k, t, time) ==
  LET s     == rt_timer_stop(k, t)
      due   == (k.tick + time) % Ticks
      later == {i \in 1 .. Len(s.timers) :
                  s.timers[i].due # due /\ NotBefore(s.timers[i].due, due)}
      at    == IF later = {} THEN Len(s.timers) + 1 ELSE Min(later)
  IN [s EXCEPT !.timers = SubSeq(s.timers, 1, at - 1) \o <<Timer(t, due)>>
                            \o SubSeq(s.timers, at, Len(s.timers))]

\* rt_timer_check goes on as long as this holds of the first timer.
FirstTimerDue(k) == k.timers # <<>> /\ NotBefore(k.tick, Head(k.timers).due)

-----------------------------------------------------------------------------
(***************************************************************************)
(* thread.c                                                                *)
(***************************************************************************)
rt_thread_suspend(k, t) ==
  IF k.stat[t] \notin {"READY", "RUNNING"} THEN k
  ELSE rt_timer_stop([rt_schedule_remove_thread(k, t) EXCEPT !.stat[t] = "SUSPEND"], t)

\* A slip: the timer of the wait that is over goes on.
resume_keeps_timer(k, t) ==
  IF k.stat[t] # "SUSPEND" THEN k
  ELSE rt_schedule_insert_thread(k, t)

rt_thread_resume(k, t) ==
  IF k.stat[t] # "SUSPEND" THEN k
  ELSE rt_schedule_insert_thread(rt_timer_stop(k, t), t)

\* A slip: nobody is told that the thread is ready again.
timeout_without_schedule(k, t) == rt_schedule_insert_thread(rt_timer_stop(k, t), t)

\* What a thread's timer does when it is due, in the tick interrupt: rt_timer_check
\* takes it from the list first.
rt_thread_timeout(k, t) ==
  rt_schedule(rt_schedule_insert_thread(rt_timer_stop(k, t), t))

\* RT_THREAD_CTRL_CHANGE_PRIORITY: a ready thread changes lists.
ChangePriority(k, t, p) ==
  IF k.stat[t] = "READY"
  THEN rt_schedule_insert_thread(
         [rt_schedule_remove_thread(k, t) EXCEPT !.priority[t] = p], t)
  ELSE [k EXCEPT !.priority[t] = p]
=============================================================================
