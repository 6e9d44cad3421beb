------------------------------ MODULE IpcProofs ------------------------------
(***************************************************************************)
(* The semaphores, the mutex and the console of Ipc, for every set of      *)
(* threads, users, waiting times, priorities and orders of starts.         *)
(*                                                                         *)
(* The proofs see a kernel call only by what it does to the threads'       *)
(* states, priorities and timers (first section); that rt_schedule always  *)
(* finds a thread to run follows from the semaphores themselves, since     *)
(* idle, too, waits for the heap (AlwaysAble).                             *)
(***************************************************************************)
EXTENDS Ipc, KernelProofs

-----------------------------------------------------------------------------
(***************************************************************************)
(* The kernel's calls.                                                     *)
(***************************************************************************)
Ready == {"READY", "RUNNING"}

\* Lists and timers are where the threads' states say, the scheduler is not locked.
Well(r) == /\ r \in KState /\ r.lock = 0
           /\ ReadyLists(r) /\ CurrentOnly(r)
           /\ NoTwice(ThreadsOf(r.timers))
           /\ \A t \in Thread : Sleeps(r, t) => r.stat[t] = "SUSPEND"

\* There is a thread to give the processor to.
Able(r) == \E t \in Thread : r.stat[t] \in Ready

\* Nothing but who is ready and who runs is decided between two states.
Same(r, s) == /\ s.priority = r.priority
              /\ \A t \in Thread : /\ Sleeps(s, t) <=> Sleeps(r, t)
                                   /\ IF r.stat[t] \in Ready THEN s.stat[t] \in Ready
                                      ELSE s.stat[t] = r.stat[t]

\* rt_schedule gives the processor to a thread that runs.
LEMMA WellSchedule ==
  ASSUME NEW r, Well(r), Able(r)
  PROVE  LET s == rt_schedule(r)
         IN Well(s) /\ Same(r, s) /\ s.stat[s.current] = "RUNNING" /\ ~Below(s)
<1> DEFINE s == rt_schedule(r)
<1>1. r \in KState /\ ReadyLists(r) /\ CurrentOnly(r) /\ r.lock = 0 BY DEF Well
<1>2. /\ s \in KState /\ ReadyLists(s) /\ CurrentOnly(s) /\ Rest(s) = Rest(r)
      /\ \A t \in Thread : IF r.stat[t] \in {"READY", "RUNNING"}
                           THEN s.stat[t] \in {"READY", "RUNNING"}
                           ELSE s.stat[t] = r.stat[t]
      /\ r.lock = 0 /\ r.group # {} => s.stat[s.current] = "RUNNING"
  BY <1>1, ScheduleLemma
<1>3. r.group = {} => s = r BY DEF rt_schedule
<1>4. ~Below(s) BY ScheduleHighest DEF Well
<1> HIDE DEF s
<1>5. s.timers = r.timers /\ s.lock = 0 /\ s.priority = r.priority BY <1>1, <1>2 DEF Rest
<1>6. \A t \in Thread : Sleeps(s, t) <=> Sleeps(r, t) BY <1>5 DEF Sleeps
<1>7. Same(r, s) BY <1>2, <1>5, <1>6 DEF Same, Ready
<1>8. \A t \in Thread : Sleeps(s, t) => s.stat[t] = "SUSPEND"
  BY <1>2, <1>6 DEF Well
<1>9. Well(s) BY <1>2, <1>5, <1>8 DEF Well
<1>10. r.group = {} => r.stat[r.current] = "RUNNING"
  <2>1. PICK t \in Thread : r.stat[t] \in Ready BY DEF Able
  <2>2. r.stat[t] = "READY" => r.group # {}
    <3>1. r.priority[t] \in Priority /\ r.table[r.priority[t]] \in Seq(Thread)
      BY <1>1 DEF KState
    <3>2. r.stat[t] = "READY" => r.table[r.priority[t]] # <<>>
      BY <1>1, <3>1, EmptyOrHead DEF ReadyLists
    <3>3. QED BY <1>1, <3>1, <3>2 DEF ReadyLists
  <2>3. r.stat[t] = "RUNNING" => r.current = t BY <1>1 DEF CurrentOnly
  <2>4. QED BY <2>1, <2>2, <2>3 DEF Ready
<1>11. s.stat[s.current] = "RUNNING" BY <1>1, <1>2, <1>3, <1>10
<1>12. QED BY <1>4, <1>7, <1>9, <1>11 DEF s

\* The running thread is suspended, or ends.
LEMMA WellHalted ==
  ASSUME NEW r, Well(r), NEW t \in Thread, t = r.current, r.stat[t] = "RUNNING",
         NEW x \in Stat, x \notin Ready
  PROVE  LET s == Halted(r, t, x)
         IN /\ Well(s) /\ s.current = t /\ s.priority = r.priority
            /\ s.stat = [r.stat EXCEPT ![t] = x]
            /\ \A u \in Thread : Sleeps(s, u) <=> Sleeps(r, u)
<1> DEFINE a == [rt_schedule_remove_thread(r, t) EXCEPT !.stat[t] = x]
           s == Halted(r, t, x)
<1>1. s = rt_timer_stop(a, t) BY DEF Halted
<1>2. r \in KState /\ ReadyLists(r) BY DEF Well
<1>3. /\ a \in KState /\ ReadyLists(a) /\ a.stat = [r.stat EXCEPT ![t] = x]
      /\ a.current = r.current /\ Rest(a) = Rest(r)
  BY <1>2, Leave DEF Ready
<1> HIDE DEF a, s
<1>4. a.timers = r.timers /\ a.lock = 0 /\ a.priority = r.priority BY <1>3 DEF Rest, Well
<1>5. /\ s \in KState /\ NoTwice(ThreadsOf(s.timers))
      /\ \A u : Sleeps(s, u) <=> Sleeps(a, u) /\ u # t
      /\ AllButTimers(s) = AllButTimers(a)
  <2>1. NoTwice(ThreadsOf(a.timers)) BY <1>4 DEF Well
  <2>2. QED BY <1>1, <1>3, <2>1, Stop
<1>6. /\ s.stat = a.stat /\ s.current = t /\ s.lock = 0 /\ s.table = a.table
      /\ s.group = a.group /\ s.priority = r.priority
  BY <1>3, <1>4, <1>5 DEF AllButTimers
<1>7. ReadyLists(s) BY <1>3, <1>4, <1>6 DEF ReadyLists
<1>8. CurrentOnly(s) BY <1>2, <1>3, <1>6 DEF Well, CurrentOnly, KState, Ready
<1>9. \A u \in Thread : Sleeps(s, u) <=> Sleeps(r, u)
  <2>1. ~Sleeps(r, t) BY DEF Well
  <2>2. \A u : Sleeps(a, u) <=> Sleeps(r, u) BY <1>4 DEF Sleeps
  <2>3. QED BY <1>5, <2>1, <2>2
<1>10. \A u \in Thread : Sleeps(s, u) => s.stat[u] = "SUSPEND"
  BY <1>2, <1>3, <1>6, <1>9 DEF Well, KState
<1>11. Well(s) BY <1>5, <1>6, <1>7, <1>8, <1>10 DEF Well
<1>12. QED BY <1>3, <1>6, <1>9, <1>11 DEF s

\* A suspended thread is given a timer.
LEMMA WellTimer ==
  ASSUME NEW r, Well(r), NEW t \in Thread, r.stat[t] = "SUSPEND", NEW n \in Nat
  PROVE  LET s == rt_timer_start(r, t, n)
         IN /\ Well(s) /\ s.current = r.current /\ s.priority = r.priority /\ s.stat = r.stat
            /\ \A u \in Thread : Sleeps(s, u) <=> Sleeps(r, u) \/ u = t
<1> DEFINE s == rt_timer_start(r, t, n)
<1>1. /\ s \in KState /\ NoTwice(ThreadsOf(s.timers))
      /\ \A u : Sleeps(s, u) <=> Sleeps(r, u) \/ u = t
      /\ AllButTimers(s) = AllButTimers(r)
  BY Start DEF Well
<1> HIDE DEF s
<1>2. /\ s.stat = r.stat /\ s.current = r.current /\ s.lock = r.lock /\ s.table = r.table
      /\ s.group = r.group /\ s.priority = r.priority
  BY <1>1 DEF AllButTimers
<1>3. ReadyLists(s) /\ CurrentOnly(s) BY <1>2 DEF Well, ReadyLists, CurrentOnly
<1>4. \A u \in Thread : Sleeps(s, u) => s.stat[u] = "SUSPEND" BY <1>1, <1>2 DEF Well
<1>5. Well(s) BY <1>1, <1>2, <1>3, <1>4 DEF Well
<1>6. QED BY <1>1, <1>2, <1>5 DEF s

\* A suspended thread becomes ready, or goes on if it has not left the processor yet,
\* without a timer: what a resume and the expiry of the timer have in common.
LEMMA WellWake ==
  ASSUME NEW r, Well(r), NEW t \in Thread, r.stat[t] = "SUSPEND"
  PROVE  LET s == rt_schedule_insert_thread(rt_timer_stop(r, t), t)
         IN /\ Well(s) /\ s.current = r.current /\ s.priority = r.priority
            /\ s.stat = [r.stat EXCEPT ![t] = IF t = r.current THEN "RUNNING" ELSE "READY"]
            /\ \A u \in Thread : Sleeps(s, u) <=> Sleeps(r, u) /\ u # t
<1> DEFINE a == rt_timer_stop(r, t)
           s == rt_schedule_insert_thread(a, t)
<1>1. /\ a \in KState /\ NoTwice(ThreadsOf(a.timers))
      /\ \A u : Sleeps(a, u) <=> Sleeps(r, u) /\ u # t
      /\ AllButTimers(a) = AllButTimers(r)
  BY Stop DEF Well
<1> HIDE DEF a
<1>2. /\ a.stat = r.stat /\ a.current = r.current /\ a.lock = 0 /\ a.table = r.table
      /\ a.group = r.group /\ a.priority = r.priority
  BY <1>1 DEF AllButTimers, Well
<1>3. ReadyLists(a) /\ CurrentOnly(a) BY <1>2 DEF Well, ReadyLists, CurrentOnly
<1>4. /\ s \in KState /\ ReadyLists(s) /\ s.current = r.current /\ Rest(s) = Rest(a)
      /\ s.stat = [r.stat EXCEPT ![t] = IF t = r.current THEN "RUNNING" ELSE "READY"]
  <2>1. CASE t = a.current
    <3>1. s = rt_schedule_insert_thread(a, a.current) /\ a.stat[a.current] # "READY"
      BY <1>2, <2>1
    <3> HIDE DEF s
    <3>2. QED BY <1>1, <1>2, <1>3, <2>1, <3>1, GoesOn
  <2>2. CASE t # a.current
    <3>1. a.stat[t] # "READY" BY <1>2
    <3> HIDE DEF s
    <3>2. s = rt_schedule_insert_thread(a, t) BY DEF s
    <3>3. QED BY <1>1, <1>2, <1>3, <2>2, <3>1, <3>2, Join
  <2>3. QED BY <2>1, <2>2
<1> HIDE DEF s
<1>5. s.timers = a.timers /\ s.lock = 0 /\ s.priority = r.priority BY <1>2, <1>4 DEF Rest
<1>6. \A u \in Thread : Sleeps(s, u) <=> Sleeps(r, u) /\ u # t BY <1>1, <1>5 DEF Sleeps
<1>7. r.stat \in [Thread -> Stat] BY DEF Well, KState
<1>8. CurrentOnly(s) BY <1>4, <1>7 DEF Well, CurrentOnly
<1>9. \A u \in Thread : Sleeps(s, u) => s.stat[u] = "SUSPEND"
  BY <1>4, <1>6, <1>7 DEF Well
<1>10. NoTwice(ThreadsOf(s.timers)) BY <1>1, <1>5
<1>11. Well(s) BY <1>4, <1>5, <1>8, <1>9, <1>10 DEF Well
<1>12. QED BY <1>4, <1>5, <1>6, <1>11 DEF s, a

\* A thread gets another priority, and with it another ready list if it is ready.
LEMMA WellPriority ==
  ASSUME NEW r, Well(r), NEW t \in Thread, NEW p \in Priority
  PROVE  LET s == ChangePriority(r, t, p)
         IN /\ Well(s) /\ s.current = r.current /\ s.stat = r.stat
            /\ s.priority = [r.priority EXCEPT ![t] = p]
            /\ \A u \in Thread : Sleeps(s, u) <=> Sleeps(r, u)
<1> DEFINE s == ChangePriority(r, t, p)
<1>1. r \in KState /\ ReadyLists(r) /\ CurrentOnly(r) BY DEF Well
<1>2. CASE r.stat[t] # "READY"
  <2>1. s = [r EXCEPT !.priority[t] = p] BY <1>2 DEF ChangePriority
  <2> HIDE DEF s
  <2>2. /\ s \in KState /\ s.current = r.current /\ s.stat = r.stat
        /\ s.priority = [r.priority EXCEPT ![t] = p]
        /\ s.table = r.table /\ s.group = r.group /\ s.lock = r.lock /\ s.timers = r.timers
    BY <1>1, <2>1 DEF KState
  <2>3. \A u \in Thread, q \in Priority : s.stat[u] = "READY" /\ s.priority[u] = q
                                        <=> r.stat[u] = "READY" /\ r.priority[u] = q
    BY <1>1, <1>2, <2>2 DEF KState
  <2>4. ReadyLists(s) /\ CurrentOnly(s) BY <1>1, <2>2, <2>3 DEF ReadyLists, CurrentOnly
  <2>5. \A u \in Thread : Sleeps(s, u) <=> Sleeps(r, u) BY <2>2 DEF Sleeps
  <2>6. Well(s) BY <2>2, <2>4, <2>5 DEF Well
  <2>7. QED BY <2>2, <2>5, <2>6 DEF s
<1>3. CASE r.stat[t] = "READY"
  <2> DEFINE a == [rt_schedule_remove_thread(r, t) EXCEPT !.stat[t] = "SUSPEND"]
             b == [a EXCEPT !.priority[t] = p]
             c == rt_schedule_insert_thread(b, t)
  <2>1. /\ a \in KState /\ ReadyLists(a) /\ a.stat = [r.stat EXCEPT ![t] = "SUSPEND"]
        /\ a.current = r.current /\ Rest(a) = Rest(r)
    BY <1>1, Leave DEF Stat
  <2>2. t # r.current BY <1>1, <1>3 DEF CurrentOnly
  <2>3. s = c
    <3> DEFINE q == r.priority[t]
               list == Without(r.table[q], t)
               group == IF list = <<>> THEN r.group \ {q} ELSE r.group
               d == [rt_schedule_remove_thread(r, t) EXCEPT !.priority[t] = p]
    <3>1. s = rt_schedule_insert_thread(d, t) BY <1>3 DEF ChangePriority
    <3>2. /\ d = [r EXCEPT !.table[q] = list, !.group = group, !.priority[t] = p]
          /\ b = [r EXCEPT !.table[q] = list, !.group = group, !.stat[t] = "SUSPEND",
                           !.priority[t] = p]
      BY DEF rt_schedule_remove_thread
    <3> HIDE DEF s, list, group, q, a, b, d
    <3>3. /\ d.priority[t] = p /\ d.current = r.current
          /\ b.priority[t] = p /\ b.current = r.current
      BY <1>1, <3>2 DEF KState
    <3>4. /\ s = [d EXCEPT !.stat[t] = "READY", !.table[p] = Append(d.table[p], t),
                           !.group = d.group \cup {p}]
          /\ c = [b EXCEPT !.stat[t] = "READY", !.table[p] = Append(b.table[p], t),
                           !.group = b.group \cup {p}]
      BY <2>2, <3>1, <3>3 DEF rt_schedule_insert_thread
    <3>5. d.table = b.table /\ d.group = b.group BY <1>1, <3>2 DEF KState
    <3>6. [d EXCEPT !.stat[t] = "READY"] = [b EXCEPT !.stat[t] = "READY"]
      BY <1>1, <3>2, ZenonT(40) DEF KState
    <3> HIDE DEF c
    <3>7. QED BY <3>4, <3>5, <3>6, <1>1, <3>2 DEF KState
  <2> HIDE DEF s, a
  <2>4. a.priority = r.priority /\ a.timers = r.timers /\ a.lock = r.lock BY <2>1 DEF Rest
  <2>5. /\ b \in KState /\ b.current = r.current /\ b.stat = a.stat
        /\ b.priority = [r.priority EXCEPT ![t] = p]
        /\ b.table = a.table /\ b.group = a.group /\ b.lock = r.lock /\ b.timers = r.timers
    BY <2>1, <2>4 DEF KState
  <2> HIDE DEF b
  <2>6. b.stat[t] # "READY" BY <1>1, <2>1, <2>5 DEF KState
  <2>7. ReadyLists(b)
    <3>1. \A u \in Thread, q \in Priority : b.stat[u] = "READY" /\ b.priority[u] = q
                                          <=> a.stat[u] = "READY" /\ a.priority[u] = q
      BY <2>1, <2>4, <2>5, <2>6 DEF KState
    <3>2. QED BY <2>1, <2>5, <3>1 DEF ReadyLists
  <2>8. /\ c \in KState /\ ReadyLists(c) /\ c.stat = [b.stat EXCEPT ![t] = "READY"]
        /\ c.current = r.current /\ Rest(c) = Rest(b)
    BY <2>2, <2>5, <2>6, <2>7, Join
  <2> HIDE DEF c
  <2>9. c.stat = r.stat BY <1>1, <1>3, <2>1, <2>5, <2>8 DEF KState
  <2>10. c.priority = b.priority /\ c.timers = r.timers /\ c.lock = r.lock
    BY <2>5, <2>8 DEF Rest
  <2>11. \A u \in Thread : Sleeps(c, u) <=> Sleeps(r, u) BY <2>10 DEF Sleeps
  <2>12. CurrentOnly(c) BY <1>1, <2>8, <2>9 DEF CurrentOnly
  <2>13. Well(c) BY <2>8, <2>9, <2>10, <2>11, <2>12 DEF Well
  <2>14. QED BY <2>3, <2>5, <2>8, <2>9, <2>10, <2>11, <2>13 DEF s
<1>4. QED BY <1>2, <1>3

\* rt_thread_startup prepares a thread that no list holds.
LEMMA WellPrepared ==
  ASSUME NEW r, Well(r), NEW t \in Thread, r.stat[t] \notin Ready
  PROVE  LET s == [r EXCEPT !.stat[t] = "SUSPEND"]
         IN /\ Well(s) /\ s.current = r.current /\ s.priority = r.priority
            /\ s.stat = [r.stat EXCEPT ![t] = "SUSPEND"]
            /\ \A u \in Thread : Sleeps(s, u) <=> Sleeps(r, u)
<1> DEFINE s == [r EXCEPT !.stat[t] = "SUSPEND"]
<1>1. r \in KState /\ ReadyLists(r) /\ CurrentOnly(r) BY DEF Well
<1>2. /\ s \in KState /\ s.current = r.current /\ s.priority = r.priority
      /\ s.stat = [r.stat EXCEPT ![t] = "SUSPEND"]
      /\ s.table = r.table /\ s.group = r.group /\ s.lock = r.lock /\ s.timers = r.timers
  BY <1>1 DEF KState, Stat
<1> HIDE DEF s
<1>3. \A u \in Thread : /\ s.stat[u] = "READY" <=> r.stat[u] = "READY"
                        /\ s.stat[u] = "RUNNING" <=> r.stat[u] = "RUNNING"
  BY <1>1, <1>2 DEF KState, Ready
<1>4. ReadyLists(s) BY <1>1, <1>2, <1>3 DEF ReadyLists
<1>5. CurrentOnly(s)
  <2>1. r.current \in Thread BY <1>1 DEF KState
  <2>2. QED BY <1>1, <1>2, <1>3, <2>1 DEF CurrentOnly
<1>6. \A u \in Thread : Sleeps(s, u) <=> Sleeps(r, u) BY <1>2 DEF Sleeps
<1>7. \A u \in Thread : Sleeps(s, u) => s.stat[u] = "SUSPEND"
  BY <1>1, <1>2, <1>6 DEF Well, KState
<1>8. Well(s) BY <1>2, <1>4, <1>5, <1>6, <1>7 DEF Well
<1>9. QED BY <1>2, <1>6, <1>8 DEF s

\* The tick is no matter of the lists.
LEMMA WellTick ==
  ASSUME NEW r, Well(r)
  PROVE  LET s == [r EXCEPT !.tick = (r.tick + 1) % Ticks]
         IN /\ Well(s) /\ Same(r, s) /\ s.stat = r.stat /\ s.current = r.current
            /\ Below(s) <=> Below(r)
<1> DEFINE s == [r EXCEPT !.tick = (r.tick + 1) % Ticks]
<1>1. r \in KState BY DEF Well
<1>2. (r.tick + 1) % Ticks \in Tick
  <2>1. r.tick + 1 \in Int /\ Ticks \in Nat /\ Ticks >= 5
    BY <1>1, SchedulerAssumption DEF KState, Tick, RT_TICK_MAX
  <2>2. (r.tick + 1) % Ticks \in 0 .. Ticks - 1 BY <2>1
  <2>3. QED BY <2>2 DEF Tick, RT_TICK_MAX
<1>3. /\ s \in KState /\ s.current = r.current /\ s.stat = r.stat
      /\ s.priority = r.priority /\ s.table = r.table /\ s.group = r.group
      /\ s.lock = r.lock /\ s.timers = r.timers
  BY <1>1, <1>2 DEF KState
<1> HIDE DEF s
<1>4. Well(s) /\ Same(r, s)
  BY <1>3 DEF Well, Same, Ready, ReadyLists, CurrentOnly, Sleeps
<1>5. Below(s) <=> Below(r) BY <1>3 DEF Below, HighestReady
<1>6. QED BY <1>3, <1>4, <1>5 DEF s

-----------------------------------------------------------------------------
(***************************************************************************)
(* The inductive invariant.                                                *)
(***************************************************************************)
Types ==
  /\ at \in [Thread -> {"out", "call", "waits", "late", "in"}]
  /\ using \in [Thread -> Object \cup {Nobody}]
  /\ queue \in [Object -> Seq(Thread)]
  /\ value \in [Object -> Nat]
  /\ mutex \in [owner : Thread \cup {Nobody}, original : Nat, hold : Nat]
  /\ bytes \in Nat
  /\ pc \in [Thread -> {"user", "schedule", "gone"}]
  /\ started \in 0 .. Len(StartOrder)

\* Code is executed by a thread that runs; idle neither ends nor waits to be started.
Processor ==
  /\ Well(k)
  /\ k.stat[k.current] # "RUNNING" => pc[k.current] = "schedule"
  /\ NotYetStarted
  /\ k.stat[Idle] \notin {"INIT", "CLOSE"}

\* What a thread is doing, beside its state and its timer: a timer runs only where
\* a sleep or a take with a time has set it.
Place(t) ==
  /\ at[t] = "out" <=> using[t] = Nobody
  /\ at[t] = "call" => (t = Shell /\ using[t] = RxSem) \/ (t = Idle /\ using[t] = Heap)
  /\ using[t] = RxSem => t = Shell /\ at[t] \in {"call", "waits"}
  /\ t = Idle => using[t] # Lock /\ ~Sleeps(k, t)
  /\ k.stat[t] \in {"INIT", "CLOSE"} => at[t] = "out"
  /\ Sleeps(k, t) => \/ at[t] = "out"
                     \/ using[t] = Lock /\ (at[t] = "in" \/ In(queue[Lock], t))
  /\ k.stat[t] = "SUSPEND" => Sleeps(k, t) \/ \E o \in Object : In(queue[o], t)

Places == \A t \in Thread : Place(t)

\* Who is in a list waits for its object, asleep, and for no other.
Queues == \A o \in Object :
            /\ NoTwice(queue[o])
            /\ queue[o] # <<>> => value[o] = 0
            /\ \A t \in Thread : In(queue[o], t) =>
                 at[t] = "waits" /\ using[t] = o /\ k.stat[t] = "SUSPEND"

Holds(t, o) == using[t] = o /\ (at[t] = "in" \/ (at[t] = "waits" /\ ~In(queue[o], t)))

\* The one unit of o is with h, or in the value.
Held(o, h) == /\ h \in Thread \cup {Nobody}
              /\ value[o] = IF h = Nobody THEN 1 ELSE 0
              /\ \A t \in Thread : Holds(t, o) <=> t = h

Units == /\ \E h \in Thread \cup {Nobody} : Held(Heap, h)
         /\ Held(Lock, mutex.owner)
         /\ mutex.owner = Nobody => mutex = Free
         /\ mutex.owner # Nobody => /\ mutex.hold > 0
                                    /\ mutex.original = InitPriority[mutex.owner]

ByPriority(list) == \A i, j \in 1 .. Len(list) :
                      j <= i => InitPriority[list[j]] <= InitPriority[list[i]]

\* Only the owner of the lock has another priority than its own; the list is in order,
\* and nobody in it is more urgent than the owner.
Urgency ==
  /\ \A t \in Thread : t # mutex.owner => k.priority[t] = InitPriority[t]
  /\ Lock \in PrioFlag => /\ ByPriority(queue[Lock])
                         /\ \A t \in Thread : In(queue[Lock], t) =>
                              k.priority[mutex.owner] <= InitPriority[t]

\* What has come after the shell's last look at the buffer is counted.
Hears == /\ at[Shell] = "call" /\ bytes > 0 => value[RxSem] > 0
         /\ In(queue[RxSem], Shell) => bytes = 0

IpcInv == Types /\ Processor /\ Places /\ Queues /\ Units /\ Urgency /\ Hears

\* The constants, as the proofs use them.
LEMMA Constants ==
  /\ Heap # RxSem /\ RxSem # Lock /\ Heap # Lock
  /\ Nobody \notin Object /\ Nobody \notin Thread
  /\ Shell \in Thread /\ Shell # Main /\ Shell # Idle
  /\ Main \in Thread /\ Idle \in Thread /\ Main # Idle
  /\ InitPriority \in [Thread -> Priority] /\ Priority \subseteq Nat
  /\ \A t \in Thread : InitPriority[t] \in Nat
  /\ Object = {Heap, RxSem, Lock}
BY IpcAssumption, KernelAssumption, SchedulerAssumption DEF Object

\* Waiting's definition says the same of the lists as Places.
LEMMA HoldersAre ==
  ASSUME Queues, NEW o \in Object, NEW t \in Thread
  PROVE  t \in Holders(o) <=> Holds(t, o)
<1>1. using[t] = o /\ at[t] = "waits" => (Waiting(t) <=> In(queue[o], t))
  BY DEF Waiting, Queues
<1>2. QED BY <1>1 DEF Holders, Holds

\* There is always a thread for the processor: when idle itself waits for the heap,
\* the heap has a holder, which does not sleep.
LEMMA AlwaysAble == IpcInv => Able(k)
<1> SUFFICES ASSUME IpcInv
             PROVE  Able(k)
  OBVIOUS
<1>1. k.stat \in [Thread -> Stat] BY DEF IpcInv, Processor, Well, KState
<1>2. CASE k.stat[Idle] # "SUSPEND"
  BY <1>1, <1>2, Constants DEF IpcInv, Processor, Able, Ready, Stat
<1>3. CASE k.stat[Idle] = "SUSPEND"
  <2>1. PICK o \in Object : In(queue[o], Idle) BY <1>3, Constants DEF IpcInv, Places, Place
  <2>2. using[Idle] = o BY <2>1, Constants DEF IpcInv, Queues
  <2>3. o = Heap BY <2>2, Constants DEF IpcInv, Places, Place
  <2>4. value[Heap] = 0
    <3>1. queue[Heap] # <<>> BY <2>1, <2>3 DEF In
    <3>2. QED BY <3>1, Constants DEF IpcInv, Queues
  <2>5. PICK h \in Thread \cup {Nobody} : Held(Heap, h) BY DEF IpcInv, Units
  <2>6. h \in Thread /\ Holds(h, Heap) BY <2>4, <2>5 DEF Held
  <2>7. ~Sleeps(k, h) BY <2>6, Constants DEF IpcInv, Places, Place, Holds
  <2>8. \A p \in Object : ~In(queue[p], h)
    BY <2>6, Constants DEF IpcInv, Queues, Holds
  <2>9. k.stat[h] \notin {"INIT", "CLOSE", "SUSPEND"}
    BY <2>6, <2>7, <2>8 DEF IpcInv, Places, Place, Holds
  <2>10. QED BY <1>1, <2>6, <2>9 DEF Able, Ready, Stat
<1>4. QED BY <1>2, <1>3

\* The initial state.
LEMMA IpcInitHolds == IpcInit => IpcInv
<1> SUFFICES ASSUME IpcInit
             PROVE  IpcInv
  OBVIOUS
<1>1. /\ Init
      /\ at = [t \in Thread |-> "out"] /\ using = [t \in Thread |-> Nobody]
      /\ queue = [o \in Object |-> <<>>]
      /\ value = [o \in Object |-> IF o = RxSem THEN 0 ELSE 1]
      /\ mutex = Free /\ bytes = 0
  BY DEF IpcInit
<1>2. IInv BY <1>1, InitHolds
<1>3. /\ k.lock = 0 /\ k.priority = InitPriority
      /\ k.stat = [t \in Thread |-> IF t = Main THEN "RUNNING"
                                    ELSE IF t = Idle THEN "READY" ELSE "INIT"]
  BY <1>1 DEF Init
<1>4. Processor
  <2>1. Well(k) BY <1>2, <1>3 DEF IInv, Sound, Well
  <2>2. QED BY <1>2, <1>3, <2>1, Constants DEF IInv, Processor, RunsOrCalls
<1>5. \A u : ~In(<<>>, u) BY DEF In
<1>6. \A t \in Thread : ~Sleeps(k, t) /\ k.stat[t] # "SUSPEND"
  BY <1>3, <1>4 DEF Processor, Well
<1>7. Types
  <2>1. /\ at \in [Thread -> {"out", "call", "waits", "late", "in"}]
        /\ using \in [Thread -> Object \cup {Nobody}]
        /\ queue \in [Object -> Seq(Thread)] /\ value \in [Object -> Nat]
        /\ mutex \in [owner : Thread \cup {Nobody}, original : Nat, hold : Nat]
        /\ bytes \in Nat
    BY <1>1 DEF Free
  <2>2. QED BY <1>2, <2>1 DEF Types, IInv, TypeOK
<1>8. Places BY <1>1, <1>6, Constants DEF Places, Place
<1>9. Queues
  <2>1. NoTwice(<<>>) BY DEF NoTwice
  <2>2. QED BY <1>1, <1>5, <2>1 DEF Queues
<1>10. Units
  <2>1. /\ \A t \in Thread, o \in Object : ~Holds(t, o)
        /\ value[Heap] = 1 /\ value[Lock] = 1 /\ mutex.owner = Nobody
    BY <1>1, Constants DEF Holds, Free
  <2>2. Held(Heap, Nobody) /\ Held(Lock, mutex.owner)
    BY <2>1, Constants DEF Held
  <2>3. QED BY <1>1, <2>1, <2>2 DEF Units
<1>11. Urgency
  <2>1. Len(queue[Lock]) = 0 /\ \A t : ~In(queue[Lock], t) BY <1>1, <1>5, Constants
  <2>2. QED BY <1>3, <2>1 DEF Urgency, ByPriority
<1>12. Hears BY <1>1, <1>5, Constants DEF Hears
<1>13. QED BY <1>4, <1>7, <1>8, <1>9, <1>10, <1>11, <1>12 DEF IpcInv

-----------------------------------------------------------------------------
(***************************************************************************)
(* Steps of the kernel that leave the objects alone.                       *)
(***************************************************************************)
\* No thread is started or ends.
Steady == \A t \in Thread : /\ k.stat[t] \in {"INIT", "CLOSE"} => k'.stat[t] = k.stat[t]
                            /\ k'.stat[t] \in {"INIT", "CLOSE"} => k'.stat[t] = k.stat[t]

\* A step that starts nobody and leaves the processor to a thread that runs, or to one
\* that is about to call rt_schedule.
LEMMA ProcessorKept ==
  ASSUME IpcInv, Well(k'), Steady, started' = started,
         k'.stat[k'.current] = "RUNNING" \/ pc'[k'.current] = "schedule"
  PROVE  Processor'
<1>1. NotYetStarted'
  <2>1. \A i \in started + 1 .. Len(StartOrder) : StartOrder[i] \in Thread
    <3>1. StartOrder \in Seq(Thread \ {Main, Idle}) BY KernelAssumption
    <3>2. \A i \in 1 .. Len(StartOrder) : StartOrder[i] \in Thread BY <3>1
    <3>3. started \in Nat /\ Len(StartOrder) \in Nat BY <3>1 DEF IpcInv, Types
    <3>4. QED BY <3>2, <3>3
  <2>2. QED BY <2>1 DEF IpcInv, Processor, NotYetStarted, Steady
<1>2. k'.stat[Idle] \notin {"INIT", "CLOSE"} BY Constants DEF IpcInv, Processor, Steady
<1>3. QED BY <1>1, <1>2 DEF Processor

\* A thread may begin to sleep outside of all objects or with the lock.
MaySleep(t) == t # Idle /\ (at[t] = "out" \/ (at[t] = "in" /\ using[t] = Lock))

\* A step of the kernel in which threads at most begin to sleep.
LEMMA ObjectsKept ==
  ASSUME IpcInv, Processor', UNCHANGED ipcVars, k'.priority = k.priority,
         pc' \in [Thread -> {"user", "schedule", "gone"}],
         started' \in 0 .. Len(StartOrder),
         \A t \in Thread :
           /\ k.stat[t] = "SUSPEND" => k'.stat[t] = "SUSPEND"
           /\ k'.stat[t] = "SUSPEND" => k.stat[t] = "SUSPEND" \/ Sleeps(k', t)
           /\ Sleeps(k, t) => Sleeps(k', t)
           /\ Sleeps(k', t) => Sleeps(k, t) \/ MaySleep(t)
           /\ k'.stat[t] \in {"INIT", "CLOSE"} => k.stat[t] \in {"INIT", "CLOSE"} \/ at[t] = "out"
  PROVE  IpcInv'
<1>1. /\ at' = at /\ using' = using /\ queue' = queue /\ value' = value /\ mutex' = mutex
      /\ bytes' = bytes
  BY DEF ipcVars
<1>2. Types' BY <1>1 DEF IpcInv, Types
<1>3. Places' BY <1>1 DEF IpcInv, Places, Place, MaySleep
<1>4. Queues' BY <1>1 DEF IpcInv, Queues
<1>5. Units' BY <1>1 DEF IpcInv, Units, Held, Holds
<1>6. Urgency' BY <1>1 DEF IpcInv, Urgency
<1>7. Hears' BY <1>1 DEF IpcInv, Hears
<1>8. QED BY <1>2, <1>3, <1>4, <1>5, <1>6, <1>7 DEF IpcInv

\* The same with nothing decided but who is ready and who runs.
LEMMA OnlyScheduled ==
  ASSUME IpcInv, UNCHANGED ipcVars, UNCHANGED started, Well(k'), Same(k, k'),
         pc' \in [Thread -> {"user", "schedule", "gone"}],
         k'.stat[k'.current] = "RUNNING" \/ pc'[k'.current] = "schedule"
  PROVE  IpcInv'
<1>1. Steady BY DEF Same, Ready, Steady
<1>2. Processor' BY <1>1, ProcessorKept
<1>3. started' \in 0 .. Len(StartOrder) BY DEF IpcInv, Types
<1>4. \A t \in Thread : /\ k'.stat[t] = "SUSPEND" <=> k.stat[t] = "SUSPEND"
                        /\ Sleeps(k', t) <=> Sleeps(k, t)
                        /\ k'.stat[t] \in {"INIT", "CLOSE"} => k.stat[t] \in {"INIT", "CLOSE"}
  BY DEF Same, Ready
<1>5. k'.priority = k.priority BY DEF Same
<1>6. QED BY <1>2, <1>3, <1>4, <1>5, ObjectsKept

\* Code is executed only by a thread that runs.
LEMMA CodeRuns ==
  ASSUME IpcInv, NEW t, InUser(t)
  PROVE  /\ t \in Thread /\ k.current = t /\ pc[t] = "user" /\ k.stat[t] = "RUNNING"
         /\ ~Sleeps(k, t) /\ \A o \in Object : ~In(queue[o], t)
<1>1. k.current = t /\ pc[t] = "user" BY DEF InUser
<1>2. t \in Thread /\ k.stat[t] = "RUNNING" BY <1>1 DEF IpcInv, Processor, Well, KState
<1>3. ~Sleeps(k, t) BY <1>2 DEF IpcInv, Processor, Well
<1>4. \A o \in Object : ~In(queue[o], t) BY <1>2 DEF IpcInv, Queues
<1>5. QED BY <1>1, <1>2, <1>3, <1>4

\* The tick, with the end of a slice, and the end of its interrupt.
LEMMA ElapsesStep == IpcInv /\ Elapses => IpcInv' /\ (LessUrgentRuns' => LessUrgentRuns)
<1> SUFFICES ASSUME IpcInv, Elapses
             PROVE  IpcInv' /\ (LessUrgentRuns' => LessUrgentRuns)
  OBVIOUS
<1> DEFINE k1 == [k EXCEPT !.tick = (k.tick + 1) % Ticks]
<1>1. UNCHANGED ipcVars /\ UNCHANGED <<pc, started>>
  BY DEF Elapses, rt_tick_increase, TickEnds
<1>2. k' = k \/ k' = k1 \/ k' = rt_schedule(k1) BY DEF Elapses, rt_tick_increase, TickEnds
<1>3. Well(k) /\ Able(k) BY AlwaysAble DEF IpcInv, Processor
<1>4. /\ Well(k1) /\ Same(k, k1) /\ k1.stat = k.stat /\ k1.current = k.current
      /\ Below(k1) <=> Below(k)
  BY <1>3, WellTick
<1> HIDE DEF k1
<1>5. Able(k1) BY <1>3, <1>4 DEF Able
<1>6. /\ Well(rt_schedule(k1)) /\ Same(k1, rt_schedule(k1)) /\ ~Below(rt_schedule(k1))
      /\ rt_schedule(k1).stat[rt_schedule(k1).current] = "RUNNING"
  BY <1>4, <1>5, WellSchedule
<1>7. /\ Well(k') /\ Same(k, k')
      /\ k'.stat[k'.current] = "RUNNING" \/ pc'[k'.current] = "schedule"
  <2>1. CASE k' = k BY <1>1, <1>3, <2>1 DEF Same, Ready, IpcInv, Processor
  <2>2. CASE k' = k1 BY <1>1, <1>4, <2>2 DEF IpcInv, Processor
  <2>3. CASE k' = rt_schedule(k1) BY <1>4, <1>6, <2>3 DEF Same, Ready
  <2>4. QED BY <1>2, <2>1, <2>2, <2>3
<1>8. pc' \in [Thread -> {"user", "schedule", "gone"}] BY <1>1 DEF IpcInv, Types
<1>9. IpcInv' BY <1>1, <1>7, <1>8, OnlyScheduled
<1>10. LessUrgentRuns' => LessUrgentRuns
  <2>1. LessUrgentRuns <=> pc[k.current] = "user" /\ Below(k) BY DEF LessUrgentRuns, Below
  <2>2. LessUrgentRuns' <=> pc'[k'.current] = "user" /\ Below(k') BY DEF LessUrgentRuns, Below
  <2>3. QED BY <1>1, <1>2, <1>4, <1>6, <2>1, <2>2
<1>11. QED BY <1>9, <1>10

\* The call of rt_schedule.
LEMMA SwitchesStep == IpcInv /\ Switches => IpcInv' /\ ~Below(k')
<1> SUFFICES ASSUME IpcInv, Switches
             PROVE  IpcInv' /\ ~Below(k')
  OBVIOUS
<1>1. /\ k' = rt_schedule(k) /\ UNCHANGED ipcVars /\ UNCHANGED started
      /\ pc' = [pc EXCEPT ![k.current] = IF k.stat[k.current] = "CLOSE" THEN "gone" ELSE "user"]
  BY DEF Switches, Schedule
<1>2. /\ Well(k') /\ Same(k, k') /\ k'.stat[k'.current] = "RUNNING" /\ ~Below(k')
  BY <1>1, AlwaysAble, WellSchedule DEF IpcInv, Processor
<1>3. pc' \in [Thread -> {"user", "schedule", "gone"}] BY <1>1 DEF IpcInv, Types
<1>4. QED BY <1>1, <1>2, <1>3, OnlyScheduled

\* A thread that is started becomes ready, and only it.
LEMMA StartsStep == IpcInv /\ MainStarts /\ StartNext => IpcInv' /\ pc'[k'.current] = "schedule"
<1> SUFFICES ASSUME IpcInv, MainStarts, StartNext
             PROVE  IpcInv' /\ pc'[k'.current] = "schedule"
  OBVIOUS
<1> DEFINE t == StartOrder[started + 1]
           a == [k EXCEPT !.stat[t] = "SUSPEND"]
<1>1. /\ InUser(Main) /\ started < Len(StartOrder) /\ k' = rt_thread_startup(t)
      /\ started' = started + 1 /\ pc' = [pc EXCEPT ![Main] = "schedule"]
      /\ UNCHANGED ipcVars
  BY DEF MainStarts, StartNext, ThenSchedule
<1>2. /\ started \in Nat /\ Len(StartOrder) \in Nat
      /\ \A i \in 1 .. Len(StartOrder) : StartOrder[i] \in Thread \ {Main, Idle}
      /\ \A i, j \in 1 .. Len(StartOrder) : StartOrder[i] = StartOrder[j] => i = j
  <2>1. StartOrder \in Seq(Thread \ {Main, Idle}) BY KernelAssumption
  <2>2. started \in Nat BY DEF IpcInv, Types
  <2>3. QED BY <2>1, <2>2, KernelAssumption
<1>3. started + 1 \in 1 .. Len(StartOrder) BY <1>1, <1>2
<1>4. t \in Thread /\ t # Idle /\ k.stat[t] = "INIT"
  BY <1>2, <1>3 DEF IpcInv, Processor, NotYetStarted
<1>5. k.current = Main /\ k.stat[Main] = "RUNNING" /\ Well(k) /\ k.stat \in [Thread -> Stat]
  BY <1>1, CodeRuns DEF IpcInv, Processor, Well, KState
<1>6. t # Main BY <1>4, <1>5
<1> HIDE DEF t
<1>7. /\ Well(a) /\ a.current = Main /\ a.priority = k.priority
      /\ a.stat = [k.stat EXCEPT ![t] = "SUSPEND"]
      /\ \A u \in Thread : Sleeps(a, u) <=> Sleeps(k, u)
  BY <1>4, <1>5, WellPrepared DEF Ready
<1> HIDE DEF a
<1>8. a.stat[t] = "SUSPEND" BY <1>4, <1>5, <1>7
<1>9. k' = rt_schedule_insert_thread(rt_timer_stop(a, t), t)
  BY <1>1, <1>8 DEF rt_thread_startup, rt_thread_resume, a
<1>10. /\ Well(k') /\ k'.current = Main /\ k'.priority = k.priority
       /\ k'.stat = [a.stat EXCEPT ![t] = "READY"]
       /\ \A u \in Thread : Sleeps(k', u) <=> Sleeps(a, u) /\ u # t
  BY <1>4, <1>6, <1>7, <1>8, <1>9, WellWake
<1>11. k'.stat = [k.stat EXCEPT ![t] = "READY"] BY <1>5, <1>7, <1>10
<1>12. \A u \in Thread : Sleeps(k', u) <=> Sleeps(k, u)
  BY <1>4, <1>5, <1>7, <1>10 DEF Well
<1>13. pc' \in [Thread -> {"user", "schedule", "gone"}] /\ pc'[Main] = "schedule"
  BY <1>1, Constants DEF IpcInv, Types
<1>14. Processor'
  <2>1. ASSUME NEW i \in started' + 1 .. Len(StartOrder)
        PROVE  k'.stat[StartOrder[i]] = "INIT"
    <3>1. i \in started + 1 .. Len(StartOrder) /\ i # started + 1 /\ i \in 1 .. Len(StartOrder)
      BY <1>1, <1>2
    <3>2. StartOrder[i] # t BY <1>2, <1>3, <3>1 DEF t
    <3>3. k.stat[StartOrder[i]] = "INIT" BY <3>1 DEF IpcInv, Processor, NotYetStarted
    <3>4. StartOrder[i] \in Thread BY <1>2, <3>1
    <3>5. QED BY <1>5, <1>11, <3>2, <3>3, <3>4
  <2>2. NotYetStarted' BY <2>1 DEF NotYetStarted
  <2>3. k'.stat[Idle] \notin {"INIT", "CLOSE"}
    BY <1>4, <1>5, <1>11, Constants DEF IpcInv, Processor
  <2>4. QED BY <1>10, <1>13, <2>2, <2>3 DEF Processor
<1>15. started' \in 0 .. Len(StartOrder) BY <1>1, <1>2
<1>16. \A u \in Thread : /\ k'.stat[u] = "SUSPEND" <=> k.stat[u] = "SUSPEND"
                         /\ k'.stat[u] \in {"INIT", "CLOSE"} => k.stat[u] \in {"INIT", "CLOSE"}
  BY <1>4, <1>5, <1>11
<1>17. QED BY <1>1, <1>10, <1>12, <1>13, <1>14, <1>15, <1>16, ObjectsKept

\* main ends, with no object in its hands.
LEMMA ReturnsStep == IpcInv /\ MainStarts /\ MainReturns => IpcInv' /\ pc'[k'.current] = "schedule"
<1> SUFFICES ASSUME IpcInv, MainStarts, MainReturns
             PROVE  IpcInv' /\ pc'[k'.current] = "schedule"
  OBVIOUS
<1>1. /\ InUser(Main) /\ k' = Halted(k, Main, "CLOSE")
      /\ pc' = [pc EXCEPT ![Main] = "schedule"]
      /\ at[Main] = "out" /\ UNCHANGED ipcVars /\ UNCHANGED started
      /\ started = Len(StartOrder)
  BY DEF MainStarts, MainReturns, rt_thread_exit, ThenSchedule, Halted
<1>2. k.current = Main /\ k.stat[Main] = "RUNNING" /\ Well(k) /\ k.stat \in [Thread -> Stat]
  BY <1>1, CodeRuns DEF IpcInv, Processor, Well, KState
<1>3. /\ Well(k') /\ k'.current = Main /\ k'.priority = k.priority
      /\ k'.stat = [k.stat EXCEPT ![Main] = "CLOSE"]
      /\ \A u \in Thread : Sleeps(k', u) <=> Sleeps(k, u)
  <2>1. "CLOSE" \in Stat /\ "CLOSE" \notin Ready BY DEF Stat, Ready
  <2>2. QED BY <1>1, <1>2, <2>1, Constants, WellHalted
<1>4. pc' \in [Thread -> {"user", "schedule", "gone"}] /\ pc'[Main] = "schedule"
  BY <1>1, Constants DEF IpcInv, Types
<1>5. Processor'
  <2>1. started + 1 .. Len(StartOrder) = {}
    <3>1. Len(StartOrder) \in Nat
      <4>1. StartOrder \in Seq(Thread \ {Main, Idle}) BY KernelAssumption
      <4>2. QED BY <4>1
    <3>2. QED BY <1>1, <3>1
  <2>2. NotYetStarted' BY <1>1, <2>1 DEF NotYetStarted
  <2>3. k'.stat[Idle] \notin {"INIT", "CLOSE"}
    BY <1>2, <1>3, Constants DEF IpcInv, Processor
  <2>4. QED BY <1>3, <1>4, <2>2, <2>3 DEF Processor
<1>6. \A u \in Thread :
        /\ k'.stat[u] = "SUSPEND" <=> k.stat[u] = "SUSPEND"
        /\ k'.stat[u] \in {"INIT", "CLOSE"} => k.stat[u] \in {"INIT", "CLOSE"} \/ at[u] = "out"
  BY <1>1, <1>2, <1>3
<1>7. started' \in 0 .. Len(StartOrder) BY <1>1 DEF IpcInv, Types
<1>8. QED BY <1>1, <1>3, <1>4, <1>5, <1>6, <1>7, ObjectsKept

\* A thread sleeps outside of the heap.
LEMMA SleepsStep == IpcInv /\ SleepOutside => IpcInv' /\ pc'[k'.current] = "schedule"
<1> SUFFICES ASSUME IpcInv, SleepOutside
             PROVE  IpcInv' /\ pc'[k'.current] = "schedule"
  OBVIOUS
<1>1. PICK t \in Thread \ {Shell}, n \in Naps :
        (at[t] = "out" \/ (at[t] = "in" /\ using[t] = Lock)) /\ Sleep(t, n)
  BY DEF SleepOutside
<1>2. /\ InUser(t) /\ t # Idle
      /\ k' = rt_timer_start(rt_thread_suspend(k, t), t, n)
      /\ pc' = [pc EXCEPT ![t] = "schedule"]
      /\ UNCHANGED ipcVars /\ UNCHANGED started
  BY <1>1 DEF SleepOutside, Sleep, rt_thread_sleep, ThenSchedule
<1>3. k.current = t /\ k.stat[t] = "RUNNING" /\ Well(k) /\ k.stat \in [Thread -> Stat]
  BY <1>2, CodeRuns DEF IpcInv, Processor, Well, KState
<1> DEFINE a == Halted(k, t, "SUSPEND")
<1>4. k' = rt_timer_start(a, t, n) BY <1>2, <1>3 DEF rt_thread_suspend, Halted
<1>5. /\ Well(a) /\ a.current = t /\ a.priority = k.priority
      /\ a.stat = [k.stat EXCEPT ![t] = "SUSPEND"]
      /\ \A u \in Thread : Sleeps(a, u) <=> Sleeps(k, u)
  <2>1. "SUSPEND" \in Stat /\ "SUSPEND" \notin Ready BY DEF Stat, Ready
  <2>2. QED BY <1>3, <2>1, WellHalted
<1> HIDE DEF a
<1>6. n \in Nat BY KernelAssumption
<1>7. /\ Well(k') /\ k'.current = t /\ k'.priority = k.priority /\ k'.stat = a.stat
      /\ \A u \in Thread : Sleeps(k', u) <=> Sleeps(a, u) \/ u = t
  <2>1. Well(a) /\ t \in Thread /\ a.stat[t] = "SUSPEND" /\ n \in Nat BY <1>3, <1>5, <1>6
  <2> DEFINE s == rt_timer_start(a, t, n)
  <2>2. /\ Well(s) /\ s.current = a.current /\ s.priority = a.priority /\ s.stat = a.stat
        /\ \A u \in Thread : Sleeps(s, u) <=> Sleeps(a, u) \/ u = t
    BY <2>1, WellTimer
  <2>3. k' = s BY <1>4
  <2> HIDE DEF s
  <2>4. QED BY <1>5, <2>2, <2>3
<1>8. pc' \in [Thread -> {"user", "schedule", "gone"}] /\ pc'[t] = "schedule"
  BY <1>2 DEF IpcInv, Types
<1>9. Steady BY <1>3, <1>5, <1>7 DEF Steady
<1>10. Processor' BY <1>2, <1>7, <1>8, <1>9, ProcessorKept
<1>11. started' \in 0 .. Len(StartOrder) BY <1>2 DEF IpcInv, Types
<1>12. \A u \in Thread :
         /\ k.stat[u] = "SUSPEND" => k'.stat[u] = "SUSPEND"
         /\ k'.stat[u] = "SUSPEND" => k.stat[u] = "SUSPEND" \/ Sleeps(k', u)
         /\ Sleeps(k, u) => Sleeps(k', u)
         /\ Sleeps(k', u) => Sleeps(k, u) \/ MaySleep(u)
         /\ k'.stat[u] \in {"INIT", "CLOSE"} => k.stat[u] \in {"INIT", "CLOSE"}
  BY <1>1, <1>2, <1>3, <1>5, <1>7 DEF MaySleep
<1>13. QED BY <1>2, <1>7, <1>8, <1>10, <1>11, <1>12, ObjectsKept

-----------------------------------------------------------------------------
(***************************************************************************)
(* Lists of those that wait.                                               *)
(***************************************************************************)
\* The first leaves a list.
LEMMA TailOf ==
  ASSUME NEW list \in Seq(Thread), NoTwice(list), list # <<>>
  PROVE  /\ Head(list) \in Thread /\ In(list, Head(list))
         /\ Tail(list) \in Seq(Thread) /\ NoTwice(Tail(list))
         /\ \A u : In(Tail(list), u) <=> In(list, u) /\ u # Head(list)
         /\ ByPriority(list) =>
              /\ ByPriority(Tail(list))
              /\ \A u : In(list, u) => InitPriority[Head(list)] <= InitPriority[u]
<1> DEFINE n == Len(list)
           rest == Tail(list)
<1>1. /\ n \in Nat /\ n >= 1 /\ Head(list) = list[1] /\ 1 \in 1 .. n
      /\ rest \in Seq(Thread) /\ Len(rest) = n - 1
      /\ \A i \in 1 .. n - 1 : rest[i] = list[i + 1]
  OBVIOUS
<1>2. Head(list) \in Thread /\ In(list, Head(list)) BY EmptyOrHead
<1> HIDE DEF rest
<1>3. \A i \in 1 .. n - 1 : i + 1 \in 1 .. n /\ i + 1 # 1 BY <1>1
<1>4. NoTwice(rest)
  <2>1. ASSUME NEW i \in 1 .. n - 1, NEW j \in 1 .. n - 1, rest[i] = rest[j]
        PROVE  i = j
    <3>1. i + 1 = j + 1 BY <1>1, <1>3, <2>1 DEF NoTwice
    <3>2. QED BY <3>1
  <2>2. QED BY <1>1, <2>1 DEF NoTwice
<1>5. ASSUME NEW u
      PROVE  In(rest, u) <=> In(list, u) /\ u # Head(list)
  <2>1. In(rest, u) => In(list, u) /\ u # Head(list)
    BY <1>1, <1>3 DEF In, NoTwice
  <2>2. ASSUME NEW i \in 1 .. n, list[i] = u, u # Head(list)
        PROVE  In(rest, u)
    <3>1. i # 1 BY <1>1, <2>2
    <3>2. i - 1 \in 1 .. n - 1 /\ (i - 1) + 1 = i BY <1>1, <3>1
    <3>3. rest[i - 1] = u BY <1>1, <2>2, <3>2
    <3>4. QED BY <1>1, <3>2, <3>3 DEF In
  <2>3. QED BY <2>1, <2>2 DEF In
<1>6. ASSUME ByPriority(list)
      PROVE  /\ ByPriority(rest)
             /\ \A u : In(list, u) => InitPriority[Head(list)] <= InitPriority[u]
  <2>1. \A i, j \in 1 .. n - 1 : j <= i => j + 1 <= i + 1 OBVIOUS
  <2>2. ByPriority(rest) BY <1>1, <1>3, <1>6, <2>1 DEF ByPriority
  <2>3. \A i \in 1 .. n : InitPriority[list[1]] <= InitPriority[list[i]]
    BY <1>1, <1>6 DEF ByPriority
  <2>4. QED BY <1>1, <2>2, <2>3 DEF In
<1>7. QED BY <1>1, <1>2, <1>4, <1>5, <1>6 DEF rest

\* A thread leaves the list wherever it is in it.
LEMMA WithoutOf ==
  ASSUME NEW list \in Seq(Thread), NoTwice(list), NEW t, ByPriority(list)
  PROVE  ByPriority(Without(list, t))
<1>1. CASE In(list, t)
  <2> DEFINE place == CHOOSE i \in 1 .. Len(list) : list[i] = t
             less == WithoutAt(list, place)
             n == Len(list)
  <2>1. place \in 1 .. n /\ Without(list, t) = less BY <1>1 DEF In, Without
  <2> HIDE DEF place
  <2>2. /\ n \in Nat /\ Len(less) = n - 1
        /\ \A i \in 1 .. n - 1 : less[i] = IF i < place THEN list[i] ELSE list[i + 1]
    <3>1. n \in Nat OBVIOUS
    <3>2. /\ Len(WithoutAt(list, place)) = Len(list) - 1
          /\ \A i \in 1 .. Len(list) - 1 :
               WithoutAt(list, place)[i] = IF i < place THEN list[i] ELSE list[i + 1]
      BY <2>1, WithoutAtProperties
    <3>3. QED BY <3>1, <3>2
  <2> HIDE DEF less
  <2> DEFINE From(i) == IF i < place THEN i ELSE i + 1
  <2>3. \A i \in 1 .. n - 1 : From(i) \in 1 .. n /\ less[i] = list[From(i)] BY <2>2
  <2>4. \A i, j \in 1 .. n - 1 : j <= i => From(j) <= From(i) BY <2>1, <2>2
  <2> HIDE DEF From
  <2>5. ByPriority(less) BY <2>2, <2>3, <2>4 DEF ByPriority
  <2>6. QED BY <2>1, <2>5
<1>2. CASE ~In(list, t) BY <1>2 DEF In, Without
<1>3. QED BY <1>1, <1>2

\* A thread joins a list, at the end or before the first that is less urgent: where
\* all have their own priority the order is kept.
LEMMA QueuedOf ==
  ASSUME Types, k \in KState, NEW o \in Object, NEW t \in Thread,
         NoTwice(queue[o]), ~In(queue[o], t)
  PROVE  /\ Queued(o, t) \in Seq(Thread) /\ NoTwice(Queued(o, t))
         /\ \A u : In(Queued(o, t), u) <=> In(queue[o], u) \/ u = t
         /\ o \in PrioFlag /\ ByPriority(queue[o])
              /\ (\A u \in Thread : In(queue[o], u) \/ u = t => k.priority[u] = InitPriority[u])
              => ByPriority(Queued(o, t))
<1> DEFINE list == queue[o]
           n == Len(list)
           after == {i \in 1 .. n : k.priority[t] < k.priority[list[i]]}
           place == IF o \notin PrioFlag \/ after = {} THEN n + 1 ELSE Min(after)
           more == Inserted(list, place, t)
<1>1. list \in Seq(Thread) /\ n \in Nat BY DEF Types
<1>2. Queued(o, t) = more BY DEF Queued, Inserted
<1>3. /\ place \in 1 .. n + 1
      /\ o \in PrioFlag => /\ \A i \in 1 .. n : i < place => ~(k.priority[t] < k.priority[list[i]])
                           /\ place <= n => k.priority[t] < k.priority[list[place]]
  <2>1. CASE after = {} BY <1>1, <2>1
  <2>2. CASE after # {}
    <3>1. after \subseteq Nat /\ after \subseteq 1 .. n BY <1>1
    <3> HIDE DEF after
    <3>2. Min(after) \in after /\ \A i \in after : Min(after) <= i BY <2>2, <3>1, MinExists
    <3> DEFINE m == Min(after)
    <3> HIDE DEF m
    <3>3. m \in after /\ m \in 1 .. n /\ \A i \in after : m <= i BY <3>1, <3>2 DEF m
    <3>4. place = IF o \notin PrioFlag THEN n + 1 ELSE m BY <2>2 DEF m
    <3> HIDE DEF place, list, n
    <3>5. \A i \in 1 .. n : i < m => i \notin after BY <3>3, <1>1
    <3>6. QED BY <1>1, <3>3, <3>4, <3>5 DEF after
  <2>3. QED BY <2>1, <2>2
<1> HIDE DEF place, after
<1>4. /\ more \in Seq(Thread) /\ Len(more) = n + 1
      /\ \A i \in 1 .. n + 1 : more[i] = IF i < place THEN list[i] ELSE IF i = place THEN t ELSE list[i - 1]
  <2> HIDE DEF list, more
  <2>1. Inserted(list, place, t) \in Seq(Thread) BY <1>1, <1>3, InsertedProperties
  <2>2. /\ Len(Inserted(list, place, t)) = Len(list) + 1
        /\ \A i \in 1 .. Len(list) + 1 : Inserted(list, place, t)[i] =
             IF i < place THEN list[i] ELSE IF i = place THEN t ELSE list[i - 1]
    BY <1>1, <1>3, InsertedProperties
  <2>3. QED BY <2>1, <2>2 DEF more
<1> HIDE DEF more
<1> DEFINE Old(i) == IF i < place THEN i ELSE i - 1
           New(i) == IF i < place THEN i ELSE i + 1
<1>5. /\ place \in 1 .. n + 1 /\ more[place] = t
      /\ \A i \in 1 .. n + 1 : i # place => Old(i) \in 1 .. n /\ more[i] = list[Old(i)]
  BY <1>1, <1>3, <1>4
<1>6. \A i \in 1 .. n : New(i) \in 1 .. n + 1 /\ more[New(i)] = list[i]
  <2>1. ASSUME NEW i \in 1 .. n
        PROVE  New(i) \in 1 .. n + 1 /\ New(i) # place /\ Old(New(i)) = i
    BY <1>1, <1>3
  <2> HIDE DEF Old, New
  <2>2. QED BY <1>5, <2>1
<1>7. \A i, j \in 1 .. n + 1 : i # place /\ j # place =>
        /\ Old(i) = Old(j) => i = j
        /\ j <= i => Old(j) <= Old(i)
  BY <1>1, <1>3
<1>8. \A i \in 1 .. n + 1 : /\ i < place => Old(i) < place
                            /\ i > place => place <= Old(i) /\ place <= n
  BY <1>1, <1>3
<1> HIDE DEF Old, New
<1>9. NoTwice(more)
  <2>1. ASSUME NEW i \in 1 .. n + 1, NEW j \in 1 .. n + 1, more[i] = more[j]
        PROVE  i = j
    <3>1. CASE i # place /\ j # place BY <1>5, <1>7, <2>1, <3>1 DEF NoTwice
    <3>2. CASE i = place \/ j = place BY <1>5, <2>1, <3>2 DEF In
    <3>3. QED BY <3>1, <3>2
  <2>2. QED BY <1>4, <2>1 DEF NoTwice
<1>10. ASSUME NEW u
       PROVE  In(more, u) <=> In(list, u) \/ u = t
  <2>1. In(more, u) => In(list, u) \/ u = t BY <1>4, <1>5 DEF In
  <2>2. In(list, u) => In(more, u) BY <1>4, <1>6 DEF In
  <2>3. In(more, t) BY <1>4, <1>5 DEF In
  <2>4. QED BY <2>1, <2>2, <2>3
<1>11. ASSUME o \in PrioFlag, ByPriority(list),
              \A u \in Thread : In(list, u) \/ u = t => k.priority[u] = InitPriority[u]
       PROVE  ByPriority(more)
  <2>1. ASSUME NEW i \in 1 .. n
        PROVE  k.priority[list[i]] = InitPriority[list[i]] /\ InitPriority[list[i]] \in Nat
    <3>1. list[i] \in Thread /\ In(list, list[i]) BY <1>1 DEF In
    <3>2. QED BY <1>11, <3>1, Constants
  <2>2. k.priority[t] = InitPriority[t] /\ InitPriority[t] \in Nat BY <1>11, Constants
  <2>3. \A i, j \in 1 .. n : j <= i => InitPriority[list[j]] <= InitPriority[list[i]]
    BY <1>11 DEF ByPriority
  <2>4. \A i \in 1 .. n : i < place => InitPriority[list[i]] <= InitPriority[t]
    BY <1>3, <1>11, <2>1, <2>2
  <2>5. \A i \in 1 .. n : place <= i => InitPriority[t] <= InitPriority[list[i]]
    <3>1. ASSUME NEW i \in 1 .. n, place <= i
          PROVE  InitPriority[t] <= InitPriority[list[i]]
      <4>1. place \in 1 .. n /\ place <= n BY <1>1, <1>3, <3>1
      <4>2. k.priority[t] < k.priority[list[place]] BY <1>3, <1>11, <4>1
      <4>3. InitPriority[list[place]] <= InitPriority[list[i]] BY <2>3, <3>1, <4>1
      <4>4. InitPriority[t] < InitPriority[list[place]] BY <2>1, <2>2, <4>1, <4>2
      <4>5. InitPriority[list[place]] \in Nat /\ InitPriority[list[i]] \in Nat BY <2>1, <4>1
      <4>6. QED BY <2>2, <4>3, <4>4, <4>5
    <3>2. QED BY <3>1
  <2>6. ASSUME NEW i \in 1 .. n + 1, NEW j \in 1 .. n + 1, j <= i
        PROVE  InitPriority[more[j]] <= InitPriority[more[i]]
    <3>1. CASE i # place /\ j # place
      <4>1. Old(i) \in 1 .. n /\ Old(j) \in 1 .. n /\ Old(j) <= Old(i)
        BY <1>5, <1>7, <2>6, <3>1
      <4>2. QED BY <1>5, <2>3, <3>1, <4>1
    <3>2. CASE i = place /\ j = place BY <1>5, <2>2, <3>2
    <3>3. CASE i = place /\ j # place
      <4>1. j < place BY <1>1, <1>3, <2>6, <3>3
      <4>2. Old(j) \in 1 .. n /\ Old(j) < place BY <1>5, <1>8, <3>3, <4>1
      <4>3. QED BY <1>5, <2>4, <3>3, <4>2
    <3>4. CASE i # place /\ j = place
      <4>1. i > place BY <1>1, <1>3, <2>6, <3>4
      <4>2. Old(i) \in 1 .. n /\ place <= Old(i) BY <1>5, <1>8, <3>4, <4>1
      <4>3. QED BY <1>5, <2>5, <3>4, <4>2
    <3>5. QED BY <3>1, <3>2, <3>3, <3>4
  <2>7. QED BY <1>4, <2>6 DEF ByPriority
<1>12. QED BY <1>2, <1>4, <1>9, <1>10, <1>11

-----------------------------------------------------------------------------
(***************************************************************************)
(* Steps in which no unit changes hands.                                   *)
(***************************************************************************)
\* A thread whose timer expires has slept, or gives up waiting for the lock.
LEMMA TimeoutStep == IpcInv /\ Timeout => IpcInv' /\ ~Below(k')
<1> SUFFICES ASSUME IpcInv, Timeout
             PROVE  IpcInv' /\ ~Below(k')
  OBVIOUS
<1> DEFINE l == k.timers
           t == Head(l).thread
           a == rt_schedule_insert_thread(rt_timer_stop(k, t), t)
<1>1. /\ l # <<>> /\ k' = rt_thread_timeout(k, t)
      /\ UNCHANGED <<pc, started, using, value, mutex, bytes>>
      /\ queue' = [o \in Object |-> Without(queue[o], t)]
      /\ at' = [at EXCEPT ![t] = IF @ = "waits" THEN "late" ELSE @]
  BY DEF Timeout, TimerFires, FirstTimerDue
<1>2. Well(k) /\ k.stat \in [Thread -> Stat] /\ l \in Timers
  BY DEF IpcInv, Processor, Well, KState
<1>3. t \in Thread /\ Sleeps(k, t)
  <2>1. /\ Len(l) \in Nat /\ ThreadsOf(l) \in Seq(Thread) /\ Len(ThreadsOf(l)) = Len(l)
        /\ \A i \in 1 .. Len(l) : ThreadsOf(l)[i] = l[i].thread
    BY <1>2, ThreadsOfProperties
  <2>2. Len(l) >= 1 /\ Head(l) = l[1]
    <3>1. l \in Seq([thread : Thread, due : Tick]) BY <1>2 DEF Timers
    <3>2. QED BY <1>1, <3>1
  <2>3. ThreadsOf(l)[1] = t /\ 1 \in 1 .. Len(ThreadsOf(l)) BY <2>1, <2>2
  <2>4. QED BY <2>1, <2>3 DEF Sleeps, In
<1>4. k' = rt_schedule(a) BY <1>1 DEF rt_thread_timeout
<1> HIDE DEF t, l
<1>5. k.stat[t] = "SUSPEND" /\ t # Idle
      /\ (at[t] = "out" \/ (using[t] = Lock /\ (at[t] = "in" \/ In(queue[Lock], t))))
  BY <1>2, <1>3 DEF Well, IpcInv, Places, Place
<1>6. /\ Well(a) /\ a.current = k.current /\ a.priority = k.priority
      /\ a.stat = [k.stat EXCEPT ![t] = IF t = k.current THEN "RUNNING" ELSE "READY"]
      /\ \A u \in Thread : Sleeps(a, u) <=> Sleeps(k, u) /\ u # t
  BY <1>2, <1>3, <1>5, WellWake
<1> HIDE DEF a
<1>7. a.stat[t] \in Ready /\ Able(a) BY <1>2, <1>3, <1>6 DEF Able, Ready
<1>8. /\ Well(k') /\ Same(a, k') /\ k'.stat[k'.current] = "RUNNING" /\ ~Below(k')
  <2> DEFINE s == rt_schedule(a)
  <2>1. Well(s) /\ Same(a, s) /\ s.stat[s.current] = "RUNNING" /\ ~Below(s)
    BY <1>6, <1>7, WellSchedule
  <2>2. k' = s BY <1>4
  <2> HIDE DEF s
  <2>3. QED BY <2>1, <2>2
<1>9. /\ k'.priority = k.priority /\ k'.stat[t] \in Ready
      /\ \A u \in Thread : /\ Sleeps(k', u) <=> Sleeps(k, u) /\ u # t
                           /\ u # t => (k'.stat[u] = "SUSPEND" <=> k.stat[u] = "SUSPEND")
                           /\ k'.stat[u] \in {"INIT", "CLOSE"} => k'.stat[u] = k.stat[u]
                           /\ k.stat[u] \in {"INIT", "CLOSE"} => k'.stat[u] = k.stat[u]
  BY <1>2, <1>3, <1>5, <1>6, <1>7, <1>8 DEF Same, Ready
<1>10. Processor' BY <1>1, <1>8, <1>9, ProcessorKept DEF Steady
<1>11. \A o \in Object : /\ queue'[o] \in Seq(Thread) /\ NoTwice(queue'[o])
                         /\ \A u : In(queue'[o], u) <=> In(queue[o], u) /\ u # t
                         /\ queue[o] = <<>> => queue'[o] = <<>>
                         /\ ByPriority(queue[o]) => ByPriority(queue'[o])
  <2>1. ASSUME NEW o \in Object
        PROVE  /\ queue'[o] \in Seq(Thread) /\ NoTwice(queue'[o])
               /\ \A u : In(queue'[o], u) <=> In(queue[o], u) /\ u # t
               /\ queue[o] = <<>> => queue'[o] = <<>>
               /\ ByPriority(queue[o]) => ByPriority(queue'[o])
    <3>1. queue'[o] = Without(queue[o], t) BY <1>1
    <3>2. queue[o] \in Seq(Thread) /\ NoTwice(queue[o]) BY DEF IpcInv, Types, Queues
    <3>3. /\ Without(queue[o], t) \in Seq(Thread) /\ NoTwice(Without(queue[o], t))
          /\ \A u : In(Without(queue[o], t), u) <=> In(queue[o], u) /\ u # t
          /\ ~In(queue[o], t) => Without(queue[o], t) = queue[o]
      BY <3>2, WithoutProperties
    <3>4. queue[o] = <<>> => ~In(queue[o], t) BY DEF In
    <3>5. ByPriority(queue[o]) => ByPriority(Without(queue[o], t)) BY <3>2, WithoutOf
    <3>6. QED BY <3>1, <3>3, <3>4, <3>5
  <2>2. QED BY <2>1
<1>12. Types'
  <2>1. queue' \in [Object -> Seq(Thread)] BY <1>1, <1>11
  <2>2. at' \in [Thread -> {"out", "call", "waits", "late", "in"}]
    BY <1>1, <1>3 DEF IpcInv, Types
  <2>3. QED BY <1>1, <2>1, <2>2 DEF IpcInv, Types
<1>13. /\ \A u \in Thread : u # t => at'[u] = at[u]
       /\ at'[t] = IF at[t] = "waits" THEN "late" ELSE at[t]
  BY <1>1, <1>3 DEF IpcInv, Types
<1>14. In(queue[Lock], t) => at[t] = "waits" /\ using[t] = Lock
  BY <1>3, Constants DEF IpcInv, Queues
<1>15. at[t] = "waits" => In(queue[Lock], t) /\ using[t] = Lock BY <1>5, <1>14
<1>16. Places'
  <2>1. ASSUME NEW u \in Thread, u # t
        PROVE  /\ at'[u] = at[u] /\ using'[u] = using[u]
               /\ \A o \in Object : In(queue'[o], u) <=> In(queue[o], u)
               /\ Sleeps(k', u) <=> Sleeps(k, u)
               /\ k'.stat[u] = "SUSPEND" <=> k.stat[u] = "SUSPEND"
               /\ k'.stat[u] \in {"INIT", "CLOSE"} => k.stat[u] \in {"INIT", "CLOSE"}
    BY <1>1, <1>9, <1>11, <1>13, <2>1
  <2>2. /\ at'[t] = "out" <=> using'[t] = Nobody
        /\ at'[t] # "call" /\ using'[t] # RxSem
    BY <1>1, <1>3, <1>5, <1>13, <1>14, Constants DEF IpcInv, Places, Place
  <2>3. k'.stat[t] \notin {"INIT", "CLOSE", "SUSPEND"} /\ ~Sleeps(k', t)
    BY <1>3, <1>9 DEF Ready
  <2>4. Lock \in Object BY Constants
  <2> QED BY <1>5, <2>1, <2>2, <2>3, <2>4 DEF IpcInv, Places, Place
<1>17. Queues'
  <2>1. \A o \in Object : queue'[o] # <<>> => value'[o] = 0
    BY <1>1, <1>11 DEF IpcInv, Queues
  <2>2. \A o \in Object, u \in Thread : In(queue'[o], u) =>
           at'[u] = "waits" /\ using'[u] = o /\ k'.stat[u] = "SUSPEND"
    <3>1. ASSUME NEW o \in Object, NEW u \in Thread, In(queue'[o], u)
          PROVE  at'[u] = "waits" /\ using'[u] = o /\ k'.stat[u] = "SUSPEND"
      <4>1. In(queue[o], u) /\ u # t BY <1>11, <3>1
      <4>2. at[u] = "waits" /\ using[u] = o /\ k.stat[u] = "SUSPEND"
        BY <4>1 DEF IpcInv, Queues
      <4>3. QED BY <1>1, <1>9, <1>13, <4>1, <4>2
    <3>2. QED BY <3>1
  <2>3. QED BY <1>11, <2>1, <2>2 DEF Queues
<1>18. Units'
  <2>1. ASSUME NEW o \in Object, NEW u \in Thread
        PROVE  Holds(u, o)' <=> Holds(u, o)
    <3>1. CASE u = t
      <4>1. at[t] = "waits" => using[t] = Lock /\ In(queue[Lock], t) BY <1>15
      <4>2. using'[u] = using[u] BY <1>1
      <4>3. Holds(u, o) <=> using[u] = o /\ at[u] = "in" BY <3>1, <4>1 DEF Holds
      <4>4. Holds(u, o)' <=> using[u] = o /\ at[u] = "in" BY <1>13, <3>1, <4>2 DEF Holds
      <4>5. QED BY <4>3, <4>4
    <3>2. CASE u # t
      <4>1. at'[u] = at[u] /\ using'[u] = using[u] /\ (In(queue'[o], u) <=> In(queue[o], u))
        BY <1>1, <1>11, <1>13, <3>2
      <4>2. QED BY <4>1 DEF Holds
    <3>3. QED BY <3>1, <3>2
  <2>2. Heap \in Object /\ Lock \in Object BY Constants
  <2>3. QED BY <1>1, <2>1, <2>2 DEF IpcInv, Units, Held
<1>19. Urgency' BY <1>1, <1>9, <1>11, Constants DEF IpcInv, Urgency
<1>20. Hears'
  <2>1. at'[Shell] = "call" => at[Shell] = "call" BY <1>13, Constants
  <2>2. QED BY <1>1, <1>11, <2>1, Constants DEF IpcInv, Hears
<1>21. QED BY <1>8, <1>10, <1>12, <1>16, <1>17, <1>18, <1>19, <1>20 DEF IpcInv

\* What a thread's place in the lists asks of it.
Listed(t) == \A o \in Object : In(queue[o], t) =>
               at[t] = "waits" /\ using[t] = o /\ k.stat[t] = "SUSPEND"

\* A step that is nothing to thread u.
Untouched(u) ==
  /\ at'[u] = at[u] /\ using'[u] = using[u]
  /\ Sleeps(k', u) <=> Sleeps(k, u)
  /\ k'.stat[u] = "SUSPEND" <=> k.stat[u] = "SUSPEND"
  /\ k'.stat[u] \in {"INIT", "CLOSE"} => k.stat[u] \in {"INIT", "CLOSE"}
  /\ \A p \in Object : In(queue'[p], u) <=> In(queue[p], u)

\* A step has to be looked at for the threads that it is about, and for no other.
LEMMA OthersKept ==
  ASSUME IpcInv, NEW M, \A u \in Thread : u \notin M => Untouched(u),
         \A u \in Thread : u \in M => Place(u)' /\ Listed(u)',
         \A p \in Object : NoTwice(queue'[p]) /\ (queue'[p] # <<>> => value'[p] = 0)
  PROVE  /\ Places' /\ Queues'
         /\ \A u \in Thread, p \in Object : u \notin M => (Holds(u, p)' <=> Holds(u, p))
<1>1. ASSUME NEW u \in Thread, u \notin M
      PROVE  Place(u)' /\ Listed(u)' /\ \A p \in Object : Holds(u, p)' <=> Holds(u, p)
  <2>1. Untouched(u) BY <1>1
  <2>2. Place(u)'
    <3>1. Place(u) BY DEF IpcInv, Places
    <3>2. In(queue'[Lock], u) <=> In(queue[Lock], u) BY <2>1, Constants DEF Untouched
    <3>3. QED BY <2>1, <3>1, <3>2 DEF Untouched, Place
  <2>3. Listed(u)' BY <2>1 DEF IpcInv, Queues, Untouched, Listed
  <2>4. \A p \in Object : Holds(u, p)' <=> Holds(u, p) BY <2>1 DEF Untouched, Holds
  <2>5. QED BY <2>2, <2>3, <2>4
<1>2. \A u \in Thread : Place(u)' /\ Listed(u)' BY <1>1
<1>3. Places' BY <1>2 DEF Places
<1>4. Queues' BY <1>2 DEF Queues, Listed
<1>5. QED BY <1>1, <1>3, <1>4

\* A running thread goes to another place, a, with the object o, and holds what it
\* has held.
MovesTo(t, a, o) ==
  /\ a \in {"out", "call", "in"} /\ o \in Object \cup {Nobody}
  /\ at' = [at EXCEPT ![t] = a] /\ using' = [using EXCEPT ![t] = o]
  /\ a = "out" <=> o = Nobody
  /\ a = "call" => (t = Shell /\ o = RxSem) \/ (t = Idle /\ o = Heap)
  /\ o = RxSem => a = "call"
  /\ t = Idle => o # Lock
  /\ \A p \in {Heap, Lock} : Holds(t, p) <=> a = "in" /\ o = p

\* The kernel, too, at most schedules.
KernelSame ==
  /\ Well(k') /\ Same(k, k') /\ started' = started /\ pc' = pc
  /\ k'.stat[k'.current] = "RUNNING" \/ pc'[k'.current] = "schedule"

\* The unit stays where it is, whoever goes where.
LEMMA Moves ==
  ASSUME IpcInv, NEW t \in Thread, k.stat[t] = "RUNNING", NEW a, NEW o, MovesTo(t, a, o),
         KernelSame, queue' = queue, value' = value, mutex' = mutex,
         bytes' \in Nat, Hears'
  PROVE  IpcInv'
<1>1. /\ at \in [Thread -> {"out", "call", "waits", "late", "in"}]
      /\ using \in [Thread -> Object \cup {Nobody}]
  BY DEF IpcInv, Types
<1>2. /\ at'[t] = a /\ using'[t] = o
      /\ \A u \in Thread : u # t => at'[u] = at[u] /\ using'[u] = using[u]
  BY <1>1 DEF MovesTo
<1>3. Types'
  <2>1. /\ at' \in [Thread -> {"out", "call", "waits", "late", "in"}]
        /\ using' \in [Thread -> Object \cup {Nobody}]
    BY <1>1 DEF MovesTo
  <2>2. QED BY <2>1 DEF IpcInv, Types, KernelSame
<1>4. Steady BY DEF KernelSame, Same, Ready, Steady
<1>5. Processor' BY <1>4, ProcessorKept DEF KernelSame
<1>6. /\ k'.priority = k.priority
      /\ \A u \in Thread : /\ Sleeps(k', u) <=> Sleeps(k, u)
                           /\ k'.stat[u] = "SUSPEND" <=> k.stat[u] = "SUSPEND"
                           /\ k'.stat[u] \in {"INIT", "CLOSE"} => k.stat[u] \in {"INIT", "CLOSE"}
  BY DEF KernelSame, Same, Ready
<1>7. ~Sleeps(k, t) /\ \A p \in Object : ~In(queue[p], t)
  BY DEF IpcInv, Processor, Well, Queues
<1>8. Place(t)' /\ Listed(t)'
  BY <1>2, <1>6, <1>7, Constants DEF MovesTo, Place, Listed
<1>9. /\ Places' /\ Queues'
      /\ \A u \in Thread, p \in Object : u \notin {t} => (Holds(u, p)' <=> Holds(u, p))
  <2>1. \A u \in Thread : u \notin {t} => Untouched(u) BY <1>2, <1>6 DEF Untouched
  <2>2. \A u \in Thread : u \in {t} => Place(u)' /\ Listed(u)' BY <1>8
  <2>3. \A p \in Object : NoTwice(queue'[p]) /\ (queue'[p] # <<>> => value'[p] = 0)
    BY DEF IpcInv, Queues
  <2>4. QED BY <2>1, <2>2, <2>3, OthersKept
<1>10. Units'
  <2>1. ASSUME NEW p \in {Heap, Lock}, NEW u \in Thread
        PROVE  Holds(u, p)' <=> Holds(u, p)
    <3>1. p \in Object BY <2>1, Constants
    <3>2. CASE u # t BY <1>9, <3>1, <3>2
    <3>3. CASE u = t BY <1>2, <1>7, <3>1, <3>3 DEF MovesTo, Holds
    <3>4. QED BY <3>2, <3>3
  <2>2. QED BY <2>1 DEF IpcInv, Units, Held
<1>11. Urgency' BY <1>6 DEF IpcInv, Urgency
<1>12. QED BY <1>3, <1>5, <1>9, <1>10, <1>11 DEF IpcInv

\* Idle, about to free memory, calls for the heap.
LEMMA IdleFreesStep == IpcInv /\ IdleFrees => IpcInv' /\ ~Below(k')
<1> SUFFICES ASSUME IpcInv, IdleFrees
             PROVE  IpcInv' /\ ~Below(k')
  OBVIOUS
<1>1. /\ InUser(Idle) /\ at[Idle] = "out" /\ k' = rt_schedule(k)
      /\ at' = [at EXCEPT ![Idle] = "call"] /\ using' = [using EXCEPT ![Idle] = Heap]
      /\ UNCHANGED <<pc, started, queue, value, mutex, bytes>>
  BY DEF IdleFrees, rt_thread_idle_excute
<1>2. k.stat[Idle] = "RUNNING" BY <1>1, CodeRuns
<1>3. KernelSame /\ ~Below(k')
  BY <1>1, AlwaysAble, WellSchedule DEF IpcInv, Processor, KernelSame
<1>4. Hears' BY <1>1, Constants DEF IpcInv, Hears, Types
<1>5. MovesTo(Idle, "call", Heap) BY <1>1, Constants DEF MovesTo, Holds
<1>6. bytes' \in Nat BY <1>1 DEF IpcInv, Types
<1>7. IpcInv' BY <1>1, <1>2, <1>3, <1>4, <1>5, <1>6, Constants, Moves
<1>8. QED BY <1>3, <1>7

\* A step that leaves the kernel alone.
LEMMA KernelKept == IpcInv /\ UNCHANGED vars => KernelSame
BY DEF vars, IpcInv, Processor, Same, Ready, KernelSame

\* The shell looks for a byte.
LEMMA GetcharStep == IpcInv /\ finsh_getchar => IpcInv' /\ k' = k
<1> SUFFICES ASSUME IpcInv, finsh_getchar
             PROVE  IpcInv' /\ k' = k
  OBVIOUS
<1>1. /\ InUser(Shell) /\ at[Shell] = "out" /\ UNCHANGED vars
      /\ queue' = queue /\ value' = value /\ mutex' = mutex
      /\ \/ bytes > 0 /\ bytes' = bytes - 1 /\ UNCHANGED <<at, using>>
         \/ /\ ~(bytes > 0) /\ bytes' = bytes
            /\ at' = [at EXCEPT ![Shell] = "call"]
            /\ using' = [using EXCEPT ![Shell] = RxSem]
  BY DEF finsh_getchar
<1>2. /\ k.stat[Shell] = "RUNNING" /\ ~In(queue[RxSem], Shell)
  BY <1>1, CodeRuns, Constants
<1>3. KernelSame /\ k' = k BY <1>1, KernelKept DEF vars
<1>4. \A p \in {Heap, Lock} : ~Holds(Shell, p) BY <1>1 DEF Holds
<1>5. bytes \in Nat /\ using[Shell] = Nobody
      /\ at \in [Thread -> {"out", "call", "waits", "late", "in"}]
      /\ using \in [Thread -> Object \cup {Nobody}]
  BY <1>1, Constants DEF IpcInv, Types, Places, Place
<1>6. CASE bytes > 0 /\ bytes' = bytes - 1 /\ UNCHANGED <<at, using>>
  <2>1. MovesTo(Shell, "out", Nobody)
    <3>1. at' = [at EXCEPT ![Shell] = "out"] /\ using' = [using EXCEPT ![Shell] = Nobody]
      BY <1>1, <1>5, <1>6
    <3>2. QED BY <1>4, <3>1, Constants DEF MovesTo
  <2>2. bytes' \in Nat BY <1>5, <1>6
  <2>3. Hears' BY <1>1, <1>2, <1>6 DEF Hears
  <2>4. QED BY <1>1, <1>2, <1>3, <2>1, <2>2, <2>3, Constants, Moves
<1>7. CASE /\ ~(bytes > 0) /\ bytes' = bytes
           /\ at' = [at EXCEPT ![Shell] = "call"] /\ using' = [using EXCEPT ![Shell] = RxSem]
  <2>1. Hears' BY <1>1, <1>2, <1>7 DEF Hears
  <2>2. MovesTo(Shell, "call", RxSem) BY <1>4, <1>7, Constants DEF MovesTo
  <2>3. bytes' \in Nat BY <1>5, <1>7
  <2>4. QED BY <1>1, <1>2, <1>3, <2>1, <2>2, <2>3, Constants, Moves
<1>8. QED BY <1>1, <1>6, <1>7

\* A take that has waited returns: with the unit it has been given, or with an error.
LEMMA TakeReturnsStep ==
  ASSUME IpcInv, NEW t \in Thread, TakeReturns(t)
  PROVE  IpcInv' /\ k' = k
<1>1. /\ InUser(t) /\ UNCHANGED vars
      /\ queue' = queue /\ value' = value /\ mutex' = mutex /\ bytes' = bytes
      /\ \/ at[t] = "waits" /\ Entered(t, using[t])
         \/ at[t] = "late" /\ Leaves(t)
  BY DEF TakeReturns
<1>2. k.stat[t] = "RUNNING" /\ \A o \in Object : ~In(queue[o], t) BY <1>1, CodeRuns
<1>3. KernelSame /\ k' = k BY <1>1, KernelKept DEF vars
<1>4. using[t] \in Object /\ (t = Idle => using[t] # Lock)
  BY <1>1 DEF IpcInv, Types, Places, Place
<1>5. at'[Shell] = "call" => at[Shell] = "call"
  BY <1>1, Constants DEF Entered, Leaves, IpcInv, Types
<1>6. bytes' \in Nat /\ Hears' BY <1>1, <1>5 DEF IpcInv, Types, Hears
<1>7. CASE at[t] = "waits" /\ using[t] # RxSem
  <2>1. at' = [at EXCEPT ![t] = "in"] /\ using' = [using EXCEPT ![t] = using[t]]
    BY <1>1, <1>7 DEF Entered
  <2>2. \A p \in {Heap, Lock} : Holds(t, p) <=> using[t] = p
    BY <1>2, <1>7, Constants DEF Holds
  <2>3. MovesTo(t, "in", using[t]) BY <1>4, <1>7, <2>1, <2>2, Constants DEF MovesTo
  <2>4. QED BY <1>1, <1>2, <1>3, <1>6, <2>3, Moves
<1>8. CASE (at[t] = "waits" /\ using[t] = RxSem) \/ at[t] = "late"
  <2>1. at' = [at EXCEPT ![t] = "out"] /\ using' = [using EXCEPT ![t] = Nobody]
    BY <1>1, <1>8 DEF Entered, Leaves
  <2>2. \A p \in {Heap, Lock} : ~Holds(t, p) BY <1>8, Constants DEF Holds
  <2>3. MovesTo(t, "out", Nobody) BY <2>1, <2>2, Constants DEF MovesTo
  <2>4. QED BY <1>1, <1>2, <1>3, <1>6, <2>3, Moves
<1>9. QED BY <1>1, <1>7, <1>8

-----------------------------------------------------------------------------
(***************************************************************************)
(* Steps in which a unit is taken, given or waited for: what is common to  *)
(* the semaphores and the mutex.                                           *)
(***************************************************************************)
\* The types of what belongs to the objects, the mutex apart.
Typed == /\ at \in [Thread -> {"out", "call", "waits", "late", "in"}]
         /\ using \in [Thread -> Object \cup {Nobody}]
         /\ queue \in [Object -> Seq(Thread)]
         /\ value \in [Object -> Nat]
         /\ pc \in [Thread -> {"user", "schedule", "gone"}]
         /\ started \in 0 .. Len(StartOrder)

\* All of the invariant that does not say who holds what.
Arranged == Typed /\ Processor /\ Places /\ Queues

\* A thread that is suspended is resumed.
LEMMA WellResume ==
  ASSUME NEW r, Well(r), NEW t \in Thread, r.stat[t] = "SUSPEND"
  PROVE  LET s == rt_thread_resume(r, t)
         IN /\ Well(s) /\ s.current = r.current /\ s.priority = r.priority
            /\ s.stat = [r.stat EXCEPT ![t] = IF t = r.current THEN "RUNNING" ELSE "READY"]
            /\ \A u \in Thread : Sleeps(s, u) <=> Sleeps(r, u) /\ u # t
BY WellWake DEF rt_thread_resume

\* Who takes, and where from.
LEMMA TakesFrom ==
  ASSUME IpcInv, NEW t, NEW o \in Object, Takes(t, o)
  PROVE  /\ t \in Thread /\ k.current = t /\ k.stat[t] = "RUNNING" /\ ~Sleeps(k, t)
         /\ pc[t] = "user" /\ \A p \in Object : ~In(queue[p], t) /\ ~Holds(t, p)
         /\ o = RxSem => t = Shell /\ at[t] = "call"
         /\ t = Idle => o = Heap
<1>1. InUser(t) /\ (\/ at[t] = "call" /\ using[t] = o
                    \/ at[t] = "out" /\ o # RxSem /\ t \in Users[o])
  BY DEF Takes
<1>2. /\ t \in Thread /\ k.current = t /\ k.stat[t] = "RUNNING" /\ ~Sleeps(k, t)
      /\ pc[t] = "user" /\ \A p \in Object : ~In(queue[p], t)
  BY <1>1, CodeRuns
<1>3. \A p \in Object : ~Holds(t, p) BY <1>1 DEF Holds
<1>4. CASE at[t] = "call" /\ using[t] = o
  BY <1>2, <1>3, <1>4, Constants DEF IpcInv, Places, Place
<1>5. CASE at[t] = "out" /\ o # RxSem /\ t \in Users[o]
  <2>1. o \in {Heap, Lock} BY <1>5, Constants
  <2>2. Users[o] \subseteq Thread \ {Idle} BY <2>1, IpcAssumption
  <2>3. QED BY <1>2, <1>3, <1>5, <2>2
<1>6. QED BY <1>1, <1>4, <1>5

\* A take that finds a unit.
LEMMA Enters ==
  ASSUME IpcInv, NEW t, NEW o \in Object, Takes(t, o), value[o] > 0, Entered(t, o),
         value' = [value EXCEPT ![o] = @ - 1], UNCHANGED <<k, pc, started, queue, bytes>>
  PROVE  /\ Arranged' /\ Hears' /\ t \in Thread
         /\ \A u \in Thread : Holds(u, o)' <=> Holds(u, o) \/ (u = t /\ o # RxSem)
         /\ \A u \in Thread, p \in Object : p # o => (Holds(u, p)' <=> Holds(u, p))
<1>1. /\ t \in Thread /\ k.current = t /\ k.stat[t] = "RUNNING" /\ ~Sleeps(k, t)
      /\ \A p \in Object : ~In(queue[p], t) /\ ~Holds(t, p)
      /\ o = RxSem => t = Shell
      /\ t = Idle => o = Heap
  BY TakesFrom
<1> DEFINE a == IF o = RxSem THEN "out" ELSE "in"
           g == IF o = RxSem THEN Nobody ELSE o
<1>2. at' = [at EXCEPT ![t] = a] /\ using' = [using EXCEPT ![t] = g] BY DEF Entered
<1>3. Types BY DEF IpcInv
<1>4. Typed'
  <2>1. at' \in [Thread -> {"out", "call", "waits", "late", "in"}] BY <1>2, <1>3 DEF Types
  <2>2. using' \in [Thread -> Object \cup {Nobody}] BY <1>2, <1>3 DEF Types
  <2>3. value[o] - 1 \in Nat BY <1>3 DEF Types
  <2>4. value' \in [Object -> Nat] BY <1>3, <2>3 DEF Types
  <2>5. QED BY <1>3, <2>1, <2>2, <2>4 DEF Types, Typed
<1>5. /\ at'[t] = a /\ using'[t] = g
      /\ \A u \in Thread : u # t => at'[u] = at[u] /\ using'[u] = using[u]
  BY <1>1, <1>2, <1>3 DEF Types
<1>6. Place(t)' /\ Listed(t)' BY <1>1, <1>5, Constants DEF Place, Listed
<1>7. Processor' BY DEF IpcInv, Processor, NotYetStarted
<1>8. \A u \in Thread : u \notin {t} => Untouched(u) BY <1>5 DEF Untouched
<1>9. \A p \in Object : NoTwice(queue'[p]) /\ (queue'[p] # <<>> => value'[p] = 0)
  <2>1. queue[o] = <<>> BY <1>3 DEF IpcInv, Queues, Types
  <2>2. \A p \in Object : p # o => value'[p] = value[p] BY <1>3 DEF Types
  <2>3. QED BY <2>1, <2>2 DEF IpcInv, Queues
<1>10. /\ Places' /\ Queues'
       /\ \A u \in Thread, p \in Object : u \notin {t} => (Holds(u, p)' <=> Holds(u, p))
  <2>1. \A u \in Thread : u \in {t} => Place(u)' /\ Listed(u)' BY <1>6
  <2>2. QED BY <1>8, <1>9, <2>1, OthersKept
<1>11. \A p \in Object : Holds(t, p)' <=> p = o /\ o # RxSem
  BY <1>1, <1>5, Constants DEF Holds
<1>12. Hears'
  <2>1. at'[Shell] = "call" => at[Shell] = "call" /\ t # Shell BY <1>5, Constants
  <2>2. t # Shell => o # RxSem BY <1>1
  <2>3. o # RxSem => value'[RxSem] = value[RxSem] BY <1>3, Constants DEF Types
  <2>4. QED BY <2>1, <2>2, <2>3 DEF IpcInv, Hears
<1>13. QED BY <1>1, <1>4, <1>7, <1>10, <1>11, <1>12 DEF Arranged

\* A take that does not: k1 differs from k by priorities at most.
LEMMA Waits ==
  ASSUME IpcInv, NEW t, NEW o \in Object, Takes(t, o), value[o] = 0,
         NEW k1, Well(k1), k1.current = t, k1.stat = k.stat,
         \A u \in Thread : Sleeps(k1, u) <=> Sleeps(k, u),
         NEW time, time = FOREVER \/ (time \in Nat /\ o = Lock),
         Wait(t, o, k1, time), UNCHANGED <<value, started, bytes>>
  PROVE  /\ Arranged' /\ Hears' /\ t \in Thread
         /\ \A u \in Thread, p \in Object : Holds(u, p)' <=> Holds(u, p)
         /\ k'.priority = k1.priority /\ pc'[k'.current] = "schedule"
         /\ queue' = [queue EXCEPT ![o] = Queued(o, t)]
<1>1. /\ t \in Thread /\ k.current = t /\ k.stat[t] = "RUNNING" /\ ~Sleeps(k, t)
      /\ \A p \in Object : ~In(queue[p], t) /\ ~Holds(t, p)
      /\ o = RxSem => t = Shell /\ at[t] = "call"
      /\ t = Idle => o = Heap
  BY TakesFrom
<1> DEFINE k2 == rt_thread_suspend(k1, t)
<1>2. /\ k' = IF time = FOREVER THEN k2 ELSE rt_timer_start(k2, t, time)
      /\ queue' = [queue EXCEPT ![o] = Queued(o, t)]
      /\ at' = [at EXCEPT ![t] = "waits"] /\ using' = [using EXCEPT ![t] = o]
      /\ pc' = [pc EXCEPT ![t] = "schedule"]
  BY DEF Wait, ThenSchedule
<1>3. Types /\ k.stat \in [Thread -> Stat] /\ k \in KState
  BY DEF IpcInv, Processor, Well, KState
<1>4. k2 = Halted(k1, t, "SUSPEND") BY <1>1 DEF rt_thread_suspend, Halted
<1>5. /\ Well(k2) /\ k2.current = t /\ k2.priority = k1.priority
      /\ k2.stat = [k.stat EXCEPT ![t] = "SUSPEND"]
      /\ \A u \in Thread : Sleeps(k2, u) <=> Sleeps(k, u)
  <2>1. "SUSPEND" \in Stat /\ "SUSPEND" \notin Ready BY DEF Stat, Ready
  <2> DEFINE s == Halted(k1, t, "SUSPEND")
  <2>2. /\ Well(s) /\ s.current = t /\ s.priority = k1.priority
        /\ s.stat = [k1.stat EXCEPT ![t] = "SUSPEND"]
        /\ \A u \in Thread : Sleeps(s, u) <=> Sleeps(k1, u)
    BY <1>1, <2>1, WellHalted
  <2> HIDE DEF s, k2
  <2>3. k2 = s BY <1>4 DEF s
  <2>4. QED BY <2>2, <2>3
<1> HIDE DEF k2
<1>6. /\ Well(k') /\ k'.current = t /\ k'.priority = k1.priority
      /\ k'.stat = [k.stat EXCEPT ![t] = "SUSPEND"]
      /\ \A u \in Thread : Sleeps(k', u) <=> Sleeps(k, u) \/ (u = t /\ time # FOREVER)
  <2>1. CASE time = FOREVER BY <1>2, <1>5, <2>1
  <2>2. CASE time # FOREVER
    <3> DEFINE s == rt_timer_start(k2, t, time)
    <3>1. k2.stat[t] = "SUSPEND" /\ time \in Nat BY <1>1, <1>3, <1>5, <2>2
    <3>2. /\ Well(s) /\ s.current = k2.current /\ s.priority = k2.priority /\ s.stat = k2.stat
          /\ \A u \in Thread : Sleeps(s, u) <=> Sleeps(k2, u) \/ u = t
      BY <1>1, <1>5, <3>1, WellTimer
    <3>3. k' = s BY <1>2, <2>2
    <3> HIDE DEF s
    <3>4. QED BY <1>5, <2>2, <3>2, <3>3
  <2>3. QED BY <2>1, <2>2
<1>7. /\ Queued(o, t) \in Seq(Thread) /\ NoTwice(Queued(o, t))
      /\ \A u : In(Queued(o, t), u) <=> In(queue[o], u) \/ u = t
  <2>1. NoTwice(queue[o]) /\ ~In(queue[o], t) BY <1>1 DEF IpcInv, Queues
  <2>2. QED BY <1>1, <1>3, <2>1, QueuedOf
<1>8. /\ queue'[o] = Queued(o, t) /\ \A p \in Object : p # o => queue'[p] = queue[p]
      /\ queue' \in [Object -> Seq(Thread)]
  BY <1>2, <1>3, <1>7 DEF Types
<1>9. Typed'
  <2>1. at' \in [Thread -> {"out", "call", "waits", "late", "in"}] BY <1>2, <1>3 DEF Types
  <2>2. using' \in [Thread -> Object \cup {Nobody}] BY <1>2, <1>3 DEF Types
  <2>3. pc' \in [Thread -> {"user", "schedule", "gone"}] BY <1>2, <1>3 DEF Types
  <2>4. QED BY <1>3, <1>8, <2>1, <2>2, <2>3 DEF Types, Typed
<1>10. /\ at'[t] = "waits" /\ using'[t] = o /\ pc'[t] = "schedule"
       /\ \A u \in Thread : u # t => at'[u] = at[u] /\ using'[u] = using[u]
  BY <1>1, <1>2, <1>3 DEF Types
<1>11. /\ \A p \in Object : In(queue'[p], t) <=> p = o
       /\ \A p \in Object, u \in Thread : u # t => (In(queue'[p], u) <=> In(queue[p], u))
  BY <1>1, <1>7, <1>8
<1>12. /\ k'.stat[t] = "SUSPEND" /\ \A u \in Thread : u # t => k'.stat[u] = k.stat[u]
  BY <1>1, <1>3, <1>6
<1>13. Place(t)' /\ Listed(t)'
  BY <1>1, <1>6, <1>10, <1>11, <1>12, Constants DEF Place, Listed
<1>14. Steady BY <1>1, <1>12 DEF Steady
<1>15. Processor' BY <1>6, <1>10, <1>14, ProcessorKept
<1>16. \A u \in Thread : u \notin {t} => Untouched(u)
  BY <1>6, <1>10, <1>11, <1>12 DEF Untouched
<1>17. \A p \in Object : NoTwice(queue'[p]) /\ (queue'[p] # <<>> => value'[p] = 0)
  BY <1>7, <1>8 DEF IpcInv, Queues
<1>18. /\ Places' /\ Queues'
       /\ \A u \in Thread, p \in Object : u \notin {t} => (Holds(u, p)' <=> Holds(u, p))
  <2>1. \A u \in Thread : u \in {t} => Place(u)' /\ Listed(u)' BY <1>13
  <2>2. QED BY <1>16, <1>17, <2>1, OthersKept
<1>19. \A p \in Object : ~Holds(t, p)' BY <1>10, <1>11 DEF Holds
<1>20. Hears'
  <2>1. at'[Shell] = "call" => at[Shell] = "call" BY <1>10, Constants
  <2>2. In(queue'[RxSem], Shell) => bytes = 0
    <3>1. CASE t = Shell /\ o = RxSem BY <1>1, <1>3, <3>1, Constants DEF IpcInv, Hears, Types
    <3>2. CASE t # Shell \/ o # RxSem
      <4>1. In(queue'[RxSem], Shell) => In(queue[RxSem], Shell)
        BY <1>8, <1>11, <3>2, Constants
      <4>2. QED BY <4>1 DEF IpcInv, Hears
    <3>3. QED BY <3>1, <3>2
  <2>3. QED BY <2>1, <2>2 DEF IpcInv, Hears
<1>21. QED BY <1>1, <1>2, <1>6, <1>9, <1>10, <1>15, <1>18, <1>19, <1>20 DEF Arranged

\* The unit of the heap, or of the lock, is with a thread or in the value.
LEMMA HolderExists ==
  ASSUME IpcInv, NEW o \in {Heap, Lock}
  PROVE  \E h \in Thread \cup {Nobody} : Held(o, h)
<1>1. mutex.owner \in Thread \cup {Nobody} BY DEF IpcInv, Types
<1>2. QED BY <1>1 DEF IpcInv, Units

\* The first that waits is a thread that has gone to sleep there.
LEMMA FirstWaits ==
  ASSUME IpcInv, NEW o \in Object, queue[o] # <<>>
  PROVE  LET next == Head(queue[o])
         IN /\ next \in Thread /\ In(queue[o], next) /\ value[o] = 0
            /\ at[next] = "waits" /\ using[next] = o /\ k.stat[next] = "SUSPEND"
            /\ \A p \in Object : In(queue[p], next) => p = o
            /\ Tail(queue[o]) \in Seq(Thread) /\ NoTwice(Tail(queue[o]))
            /\ \A u : In(Tail(queue[o]), u) <=> In(queue[o], u) /\ u # next
            /\ ByPriority(queue[o]) =>
                 /\ ByPriority(Tail(queue[o]))
                 /\ \A u : In(queue[o], u) => InitPriority[next] <= InitPriority[u]
<1>1. queue[o] \in Seq(Thread) /\ NoTwice(queue[o]) /\ value[o] = 0
  BY DEF IpcInv, Types, Queues
<1>2. /\ Head(queue[o]) \in Thread /\ In(queue[o], Head(queue[o]))
      /\ Tail(queue[o]) \in Seq(Thread) /\ NoTwice(Tail(queue[o]))
      /\ \A u : In(Tail(queue[o]), u) <=> In(queue[o], u) /\ u # Head(queue[o])
      /\ ByPriority(queue[o]) =>
           /\ ByPriority(Tail(queue[o]))
           /\ \A u : In(queue[o], u) => InitPriority[Head(queue[o])] <= InitPriority[u]
  BY <1>1, TailOf
<1> DEFINE next == Head(queue[o])
<1> HIDE DEF next
<1>3. next \in Thread /\ In(queue[o], next) BY <1>2 DEF next
<1>4. at[next] = "waits" /\ using[next] = o /\ k.stat[next] = "SUSPEND"
  BY <1>3 DEF IpcInv, Queues
<1>5. \A p \in Object : In(queue[p], next) => p = o BY <1>3, <1>4 DEF IpcInv, Queues
<1>6. QED BY <1>1, <1>2, <1>3, <1>4, <1>5 DEF next

\* A release that hands the unit to the first that waits: k1 differs from k by
\* priorities at most.
LEMMA Hands ==
  ASSUME IpcInv, NEW t, NEW o \in {Heap, Lock}, InUser(t), at[t] = "in", using[t] = o,
         queue[o] # <<>>,
         NEW k1, Well(k1), k1.current = t, k1.stat = k.stat,
         \A u \in Thread : Sleeps(k1, u) <=> Sleeps(k, u),
         k' = rt_thread_resume(k1, Head(queue[o])),
         queue' = [queue EXCEPT ![o] = Tail(@)], Leaves(t), ThenSchedule(t),
         UNCHANGED <<value, started, bytes>>
  PROVE  /\ Arranged' /\ Hears' /\ Head(queue[o]) \in Thread
         /\ \A u \in Thread : Holds(u, o)' <=> u = Head(queue[o])
         /\ \A u \in Thread, p \in Object : p # o => (Holds(u, p)' <=> Holds(u, p))
         /\ k'.priority = k1.priority /\ pc'[k'.current] = "schedule"
<1>0. o \in Object /\ o # RxSem BY Constants
<1>1. /\ t \in Thread /\ k.current = t /\ k.stat[t] = "RUNNING" /\ ~Sleeps(k, t)
      /\ \A p \in Object : ~In(queue[p], t)
  BY CodeRuns
<1>2. PICK next \in Thread : next = Head(queue[o]) BY <1>0, FirstWaits
<1>3. /\ In(queue[o], next) /\ value[o] = 0
      /\ at[next] = "waits" /\ using[next] = o /\ k.stat[next] = "SUSPEND"
      /\ \A p \in Object : In(queue[p], next) => p = o
      /\ Tail(queue[o]) \in Seq(Thread) /\ NoTwice(Tail(queue[o]))
      /\ \A u : In(Tail(queue[o]), u) <=> In(queue[o], u) /\ u # next
  BY <1>0, <1>2, FirstWaits
<1>4. k' = rt_thread_resume(k1, next) BY <1>2
<1>5. next # t BY <1>1, <1>3
<1>6. Types /\ k.stat \in [Thread -> Stat] BY DEF IpcInv, Processor, Well, KState
<1>7. /\ Well(k') /\ k'.current = t /\ k'.priority = k1.priority
      /\ k'.stat = [k.stat EXCEPT ![next] = "READY"]
      /\ \A u \in Thread : Sleeps(k', u) <=> Sleeps(k, u) /\ u # next
  <2> DEFINE s == rt_thread_resume(k1, next)
  <2>1. k1.stat[next] = "SUSPEND" /\ next # k1.current BY <1>3, <1>5
  <2>2. /\ Well(s) /\ s.current = k1.current /\ s.priority = k1.priority
        /\ s.stat = [k1.stat EXCEPT ![next] = IF next = k1.current THEN "RUNNING" ELSE "READY"]
        /\ \A u \in Thread : Sleeps(s, u) <=> Sleeps(k1, u) /\ u # next
    BY <1>3, <2>1, WellResume
  <2>3. k' = s BY <1>4
  <2> HIDE DEF s
  <2>4. QED BY <2>1, <2>2, <2>3
<1>8. /\ at' = [at EXCEPT ![t] = "out"] /\ using' = [using EXCEPT ![t] = Nobody]
      /\ pc' = [pc EXCEPT ![t] = "schedule"]
  BY DEF Leaves, ThenSchedule
<1>9. /\ queue'[o] = Tail(queue[o]) /\ \A p \in Object : p # o => queue'[p] = queue[p]
      /\ queue' \in [Object -> Seq(Thread)]
  BY <1>0, <1>3, <1>6, <1>2 DEF Types
<1>10. Typed'
  <2>1. at' \in [Thread -> {"out", "call", "waits", "late", "in"}] BY <1>6, <1>8 DEF Types
  <2>2. using' \in [Thread -> Object \cup {Nobody}] BY <1>6, <1>8 DEF Types
  <2>3. pc' \in [Thread -> {"user", "schedule", "gone"}] BY <1>6, <1>8 DEF Types
  <2>4. QED BY <1>6, <1>9, <2>1, <2>2, <2>3 DEF Types, Typed
<1>11. /\ at'[t] = "out" /\ using'[t] = Nobody /\ pc'[t] = "schedule"
       /\ \A u \in Thread : u # t => at'[u] = at[u] /\ using'[u] = using[u]
  BY <1>1, <1>6, <1>8 DEF Types
<1>12. \A p \in Object, u \in Thread :
         In(queue'[p], u) <=> In(queue[p], u) /\ ~(p = o /\ u = next)
  BY <1>3, <1>9
<1>13. /\ k'.stat[next] = "READY" /\ k'.stat[t] = "RUNNING"
       /\ \A u \in Thread : u # next => k'.stat[u] = k.stat[u]
  BY <1>1, <1>3, <1>5, <1>6, <1>7
<1>14. Place(t)' /\ Listed(t)'
  BY <1>1, <1>7, <1>11, <1>12, <1>13, Constants DEF Place, Listed
<1>15. Place(next)' /\ Listed(next)'
  <2>1. Place(next) BY <1>3 DEF IpcInv, Places
  <2>2. at'[next] = "waits" /\ using'[next] = o BY <1>3, <1>5, <1>11
  <2>3. \A p \in Object : ~In(queue'[p], next) BY <1>3, <1>12
  <2>4. ~Sleeps(k', next) BY <1>3, <1>7
  <2>5. QED BY <1>0, <1>3, <1>13, <2>1, <2>2, <2>3, <2>4, Constants DEF Place, Listed
<1>16. Steady BY <1>3, <1>13 DEF Steady
<1>17. Processor' BY <1>7, <1>11, <1>16, ProcessorKept
<1>18. \A u \in Thread : u \notin {t, next} => Untouched(u)
  BY <1>7, <1>11, <1>12, <1>13 DEF Untouched
<1>19. \A p \in Object : NoTwice(queue'[p]) /\ (queue'[p] # <<>> => value'[p] = 0)
  BY <1>3, <1>9 DEF IpcInv, Queues
<1>20. /\ Places' /\ Queues'
       /\ \A u \in Thread, p \in Object : u \notin {t, next} => (Holds(u, p)' <=> Holds(u, p))
  <2>1. \A u \in Thread : u \in {t, next} => Place(u)' /\ Listed(u)' BY <1>14, <1>15
  <2>2. QED BY <1>18, <1>19, <2>1, OthersKept
<1>21. \A u \in Thread : Holds(u, o) => u = t
  <2>1. Holds(t, o) BY DEF Holds
  <2>2. PICK h \in Thread \cup {Nobody} : Held(o, h) BY HolderExists
  <2>3. QED BY <1>1, <2>1, <2>2 DEF Held
<1>22. \A p \in Object : ~Holds(t, p)' /\ (Holds(next, p)' <=> p = o)
  <2>1. \A p \in Object : ~Holds(t, p)' BY <1>11, Constants DEF Holds
  <2>2. at'[next] = "waits" /\ using'[next] = o BY <1>3, <1>5, <1>11
  <2>3. \A p \in Object : ~In(queue'[p], next) BY <1>3, <1>12
  <2>4. QED BY <2>1, <2>2, <2>3 DEF Holds
<1>23. \A p \in Object : p # o => ~Holds(t, p) /\ ~Holds(next, p) BY <1>3 DEF Holds
<1>24. Hears'
  <2>1. at'[Shell] = "call" => at[Shell] = "call" BY <1>11, Constants
  <2>2. In(queue'[RxSem], Shell) => In(queue[RxSem], Shell) BY <1>12, Constants
  <2>3. QED BY <2>1, <2>2 DEF IpcInv, Hears
<1>25. /\ \A u \in Thread : Holds(u, o)' <=> u = next
       /\ \A u \in Thread, p \in Object : p # o => (Holds(u, p)' <=> Holds(u, p))
  BY <1>0, <1>5, <1>20, <1>21, <1>22, <1>23
<1>26. QED BY <1>2, <1>7, <1>10, <1>11, <1>17, <1>20, <1>24, <1>25 DEF Arranged

\* A release for which nobody waits.
LEMMA Frees ==
  ASSUME IpcInv, NEW t, NEW o \in {Heap, Lock}, InUser(t), at[t] = "in", using[t] = o,
         queue[o] = <<>>,
         Well(k'), k'.current = t, k'.stat = k.stat,
         \A u \in Thread : Sleeps(k', u) <=> Sleeps(k, u),
         value' = [value EXCEPT ![o] = @ + 1], Leaves(t),
         UNCHANGED <<pc, queue, started, bytes>>
  PROVE  /\ Arranged' /\ Hears' /\ t \in Thread /\ value[o] = 0
         /\ \A u \in Thread : ~Holds(u, o)'
         /\ \A u \in Thread, p \in Object : p # o => (Holds(u, p)' <=> Holds(u, p))
<1>0. o \in Object /\ o # RxSem BY Constants
<1>1. /\ t \in Thread /\ k.current = t /\ k.stat[t] = "RUNNING" /\ ~Sleeps(k, t)
      /\ \A p \in Object : ~In(queue[p], t)
  BY CodeRuns
<1>2. Types BY DEF IpcInv
<1>3. at' = [at EXCEPT ![t] = "out"] /\ using' = [using EXCEPT ![t] = Nobody] BY DEF Leaves
<1>4. Holds(t, o) BY DEF Holds
<1>5. value[o] = 0 /\ \A u \in Thread : Holds(u, o) => u = t
  <2>1. PICK h \in Thread \cup {Nobody} : Held(o, h)
    BY HolderExists
  <2>2. h = t BY <1>1, <1>4, <2>1 DEF Held
  <2>3. QED BY <1>1, <2>1, <2>2, Constants DEF Held
<1>6. Typed'
  <2>1. at' \in [Thread -> {"out", "call", "waits", "late", "in"}] BY <1>2, <1>3 DEF Types
  <2>2. using' \in [Thread -> Object \cup {Nobody}] BY <1>2, <1>3 DEF Types
  <2>3. value[o] + 1 \in Nat BY <1>0, <1>2 DEF Types
  <2>4. value' \in [Object -> Nat] BY <1>2, <2>3 DEF Types
  <2>5. QED BY <1>2, <2>1, <2>2, <2>4 DEF Types, Typed
<1>7. /\ at'[t] = "out" /\ using'[t] = Nobody
      /\ \A u \in Thread : u # t => at'[u] = at[u] /\ using'[u] = using[u]
  BY <1>1, <1>2, <1>3 DEF Types
<1>8. Place(t)' /\ Listed(t)' BY <1>1, <1>7, Constants DEF Place, Listed
<1>9. Steady BY DEF Steady
<1>10. Processor' BY <1>1, <1>9, ProcessorKept
<1>11. \A u \in Thread : u \notin {t} => Untouched(u) BY <1>7 DEF Untouched
<1>12. \A p \in Object : NoTwice(queue'[p]) /\ (queue'[p] # <<>> => value'[p] = 0)
  BY <1>2 DEF IpcInv, Queues, Types
<1>13. /\ Places' /\ Queues'
       /\ \A u \in Thread, p \in Object : u \notin {t} => (Holds(u, p)' <=> Holds(u, p))
  <2>1. \A u \in Thread : u \in {t} => Place(u)' /\ Listed(u)' BY <1>8
  <2>2. QED BY <1>11, <1>12, <2>1, OthersKept
<1>14. \A p \in Object : ~Holds(t, p)' /\ (p # o => ~Holds(t, p))
  BY <1>7, Constants DEF Holds
<1>15. Hears'
  <2>1. at'[Shell] = "call" => at[Shell] = "call" BY <1>7, Constants
  <2>2. value'[RxSem] = value[RxSem] BY <1>0, <1>2, Constants DEF Types
  <2>3. QED BY <2>1, <2>2 DEF IpcInv, Hears
<1>16. /\ \A u \in Thread : ~Holds(u, o)'
       /\ \A u \in Thread, p \in Object : p # o => (Holds(u, p)' <=> Holds(u, p))
  BY <1>0, <1>5, <1>13, <1>14
<1>17. QED BY <1>1, <1>5, <1>6, <1>10, <1>13, <1>15, <1>16 DEF Arranged

-----------------------------------------------------------------------------
(***************************************************************************)
(* The semaphores, the console's interrupt and the mutex.                  *)
(***************************************************************************)
\* What the invariant consists of.
LEMMA Closing ==
  ASSUME Arranged', Units', Urgency', Hears', bytes' \in Nat,
         mutex' \in [owner : Thread \cup {Nobody}, original : Nat, hold : Nat]
  PROVE  IpcInv'
BY DEF Arranged, Typed, Types, IpcInv

\* Who holds an object that the step is not about is not changed by it.
LEMMA HeldKept ==
  ASSUME NEW o \in Object, NEW h, Held(o, h), value'[o] = value[o],
         \A u \in Thread : Holds(u, o)' <=> Holds(u, o)
  PROVE  Held(o, h)'
BY DEF Held

\* A unit of a semaphore is taken, or waited for without a limit (rt_sem_take).
LEMMA SemTakeStep ==
  ASSUME IpcInv, NEW t, NEW s \in {Heap, RxSem}, rt_sem_take(t, s)
  PROVE  IpcInv' /\ (UNCHANGED <<k, pc>> \/ pc'[k'.current] = "schedule")
<1>1. /\ Takes(t, s) /\ UNCHANGED <<started, mutex, bytes>>
      /\ \/ /\ value[s] > 0 /\ value' = [value EXCEPT ![s] = @ - 1] /\ Entered(t, s)
            /\ UNCHANGED <<k, pc, queue>>
         \/ value[s] = 0 /\ Wait(t, s, k, FOREVER) /\ UNCHANGED value
  BY DEF rt_sem_take
<1>2. s \in Object /\ s # Lock BY Constants
<1>3. Types /\ Well(k) BY DEF IpcInv, Processor
<1>4. PICK h \in Thread \cup {Nobody} : Held(Heap, h) BY HolderExists
<1>5. Held(Lock, mutex.owner) BY DEF IpcInv, Units
<1>6. /\ bytes' \in Nat
      /\ mutex' \in [owner : Thread \cup {Nobody}, original : Nat, hold : Nat]
  BY <1>1, <1>3 DEF Types
<1>7. CASE /\ value[s] > 0 /\ value' = [value EXCEPT ![s] = @ - 1] /\ Entered(t, s)
           /\ UNCHANGED <<k, pc, queue>>
  <2>1. /\ Arranged' /\ Hears' /\ t \in Thread
        /\ \A u \in Thread : Holds(u, s)' <=> Holds(u, s) \/ (u = t /\ s # RxSem)
        /\ \A u \in Thread, p \in Object : p # s => (Holds(u, p)' <=> Holds(u, p))
    BY <1>1, <1>2, <1>7, Enters
  <2>2. \A p \in Object : p # s => value'[p] = value[p] BY <1>3, <1>7 DEF Types
  <2>3. Held(Lock, mutex.owner)'
    <3>1. mutex' = mutex /\ Lock \in Object BY <1>1, Constants
    <3>2. value'[Lock] = value[Lock] /\ \A u \in Thread : Holds(u, Lock)' <=> Holds(u, Lock)
      BY <1>2, <2>1, <2>2, <3>1
    <3>3. QED BY <1>5, <3>1, <3>2 DEF Held
  <2>4. \E g \in Thread \cup {Nobody} : Held(Heap, g)'
    <3>1. CASE s = RxSem
      <4>1. Heap \in Object /\ Heap # s BY <3>1, Constants
      <4>2. Held(Heap, h)' BY <1>4, <2>1, <2>2, <4>1, HeldKept
      <4>3. QED BY <4>2
    <3>2. CASE s = Heap
      <4>1. value[Heap] = 1 /\ h = Nobody BY <1>4, <1>7, <3>2 DEF Held
      <4>2. value'[Heap] = 0 BY <1>2, <1>3, <1>7, <3>2, <4>1 DEF Types
      <4>3. \A u \in Thread : ~Holds(u, Heap) BY <1>4, <4>1, Constants DEF Held
      <4>4. Held(Heap, t)' BY <2>1, <3>2, <4>2, <4>3, Constants DEF Held
      <4>5. QED BY <2>1, <4>4
    <3>3. QED BY <3>1, <3>2
  <2>5. Units' BY <1>1, <2>3, <2>4 DEF IpcInv, Units
  <2>6. Urgency' BY <1>1, <1>7 DEF IpcInv, Urgency
  <2>7. IpcInv' BY <1>6, <2>1, <2>5, <2>6, Closing
  <2>8. QED BY <1>7, <2>7
<1>8. CASE value[s] = 0 /\ Wait(t, s, k, FOREVER) /\ UNCHANGED value
  <2>1. k.current = t BY <1>1, <1>2, TakesFrom
  <2>2. /\ Arranged' /\ Hears' /\ t \in Thread
        /\ \A u \in Thread, p \in Object : Holds(u, p)' <=> Holds(u, p)
        /\ k'.priority = k.priority /\ pc'[k'.current] = "schedule"
        /\ queue' = [queue EXCEPT ![s] = Queued(s, t)]
    <3>1. UNCHANGED <<value, started, bytes>> BY <1>1, <1>8
    <3>2. QED BY <1>1, <1>2, <1>3, <1>8, <2>1, <3>1, Waits
  <2>3. Held(Heap, h)' /\ Held(Lock, mutex.owner)'
    BY <1>1, <1>4, <1>5, <1>8, <2>2, Constants DEF Held
  <2>4. Units' BY <1>1, <2>3 DEF IpcInv, Units
  <2>5. queue'[Lock] = queue[Lock] BY <1>2, <1>3, <2>2, Constants DEF Types
  <2>6. Urgency' BY <1>1, <2>2, <2>5 DEF IpcInv, Urgency
  <2>7. QED BY <1>6, <2>2, <2>4, <2>6, Closing
<1>9. QED BY <1>1, <1>7, <1>8

\* The heap is given to the first that waits, or is free (rt_sem_release).
LEMMA SemReleaseStep ==
  ASSUME IpcInv, NEW t, rt_sem_release(t, Heap)
  PROVE  IpcInv' /\ (UNCHANGED <<k, pc>> \/ pc'[k'.current] = "schedule")
<1>1. /\ InUser(t) /\ at[t] = "in" /\ using[t] = Heap /\ Leaves(t)
      /\ UNCHANGED <<started, mutex, bytes>>
  BY DEF rt_sem_release
<1>2. Types /\ Well(k) BY DEF IpcInv, Processor
<1>3. k.current = t BY <1>1, CodeRuns
<1>4. Held(Lock, mutex.owner) BY DEF IpcInv, Units
<1>5. /\ bytes' \in Nat
      /\ mutex' \in [owner : Thread \cup {Nobody}, original : Nat, hold : Nat]
  BY <1>1, <1>2 DEF Types
<1>6. Heap \in Object /\ Lock \in Object /\ Heap # Lock BY Constants
<1>7. CASE queue[Heap] # <<>>
  <2>1. /\ k' = rt_thread_resume(k, Head(queue[Heap])) /\ ThenSchedule(t)
        /\ queue' = [queue EXCEPT ![Heap] = Tail(@)] /\ UNCHANGED value
    BY <1>7 DEF rt_sem_release, Release
  <2>2. /\ Arranged' /\ Hears' /\ Head(queue[Heap]) \in Thread
        /\ \A u \in Thread : Holds(u, Heap)' <=> u = Head(queue[Heap])
        /\ \A u \in Thread, p \in Object : p # Heap => (Holds(u, p)' <=> Holds(u, p))
        /\ k'.priority = k.priority /\ pc'[k'.current] = "schedule"
    <3>1. UNCHANGED <<value, started, bytes>> BY <1>1, <2>1
    <3>2. QED BY <1>1, <1>2, <1>3, <1>7, <2>1, <3>1, Hands
  <2>3. PICK next \in Thread : next = Head(queue[Heap]) BY <2>2
  <2>4. value[Heap] = 0 BY <1>6, <1>7 DEF IpcInv, Queues
  <2>5. Held(Heap, next)' BY <2>1, <2>2, <2>3, <2>4, Constants DEF Held
  <2>6. Held(Lock, mutex.owner)' BY <1>1, <1>4, <1>6, <2>1, <2>2 DEF Held
  <2>7. Units' BY <1>1, <2>5, <2>6 DEF IpcInv, Units
  <2>8. queue'[Lock] = queue[Lock] BY <1>2, <1>6, <2>1 DEF Types
  <2>9. Urgency' BY <1>1, <2>2, <2>8 DEF IpcInv, Urgency
  <2>10. QED BY <1>5, <2>2, <2>7, <2>9, Closing
<1>8. CASE queue[Heap] = <<>>
  <2>1. /\ UNCHANGED <<k, pc, queue>> /\ value' = [value EXCEPT ![Heap] = @ + 1]
    BY <1>8 DEF rt_sem_release, Release
  <2>2. /\ Arranged' /\ Hears' /\ t \in Thread /\ value[Heap] = 0
        /\ \A u \in Thread : ~Holds(u, Heap)'
        /\ \A u \in Thread, p \in Object : p # Heap => (Holds(u, p)' <=> Holds(u, p))
    <3>1. UNCHANGED <<pc, queue, started, bytes>> BY <1>1, <2>1
    <3>2. /\ Well(k') /\ k'.current = t /\ k'.stat = k.stat
          /\ \A u \in Thread : Sleeps(k', u) <=> Sleeps(k, u)
      BY <1>2, <1>3, <2>1
    <3>3. QED BY <1>1, <1>8, <2>1, <3>1, <3>2, Frees
  <2>3. value'[Heap] = 1 /\ value'[Lock] = value[Lock] BY <1>2, <1>6, <2>1, <2>2 DEF Types
  <2>4. Held(Heap, Nobody)' BY <2>2, <2>3, Constants DEF Held
  <2>5. Held(Lock, mutex.owner)' BY <1>1, <1>4, <1>6, <2>2, <2>3 DEF Held
  <2>6. Units' BY <1>1, <2>4, <2>5 DEF IpcInv, Units
  <2>7. Urgency' BY <1>1, <2>1 DEF IpcInv, Urgency
  <2>8. IpcInv' BY <1>5, <2>2, <2>6, <2>7, Closing
  <2>9. QED BY <2>1, <2>8
<1>9. QED BY <1>7, <1>8

\* Bytes arrive: the shell is woken, or finds the unit when it comes to wait.
LEMMA SerialStep == IpcInv /\ rt_hw_serial_isr => IpcInv' /\ (UNCHANGED <<k, pc>> \/ ~Below(k'))
<1> SUFFICES ASSUME IpcInv, rt_hw_serial_isr
             PROVE  IpcInv' /\ (UNCHANGED <<k, pc>> \/ ~Below(k'))
  OBVIOUS
<1>1. UNCHANGED <<pc, started, at, using, mutex>> BY DEF rt_hw_serial_isr
<1>2. Types /\ Well(k) /\ k.stat \in [Thread -> Stat] BY DEF IpcInv, Processor, Well, KState
<1>3. bytes' \in Nat
  <2>1. PICK n \in 1 .. Room : bytes' = Min({bytes + n, Room}) BY DEF rt_hw_serial_isr
  <2>2. {bytes + n, Room} \subseteq Nat /\ {bytes + n, Room} # {}
    BY <1>2, IpcAssumption DEF Types
  <2>3. Min({bytes + n, Room}) \in {bytes + n, Room} BY <2>2, MinExists
  <2>4. QED BY <2>1, <2>2, <2>3
<1>4. mutex' \in [owner : Thread \cup {Nobody}, original : Nat, hold : Nat]
  BY <1>1, <1>2 DEF Types
<1>5. RxSem \in Object /\ Heap \in Object /\ Lock \in Object /\ RxSem # Heap /\ RxSem # Lock
  BY Constants
<1>6. PICK h \in Thread \cup {Nobody} : Held(Heap, h) BY HolderExists
<1>7. Held(Lock, mutex.owner) BY DEF IpcInv, Units
<1>8. CASE queue[RxSem] = <<>>
  <2>1. k' = k /\ queue' = queue /\ value' = [value EXCEPT ![RxSem] = @ + 1]
    BY <1>8 DEF rt_hw_serial_isr, Release
  <2>2. value[RxSem] + 1 \in Nat /\ value[RxSem] + 1 > 0 BY <1>2, <1>5 DEF Types
  <2>3. /\ value' \in [Object -> Nat] /\ value'[RxSem] > 0
        /\ \A p \in Object : p # RxSem => value'[p] = value[p]
    BY <1>2, <1>5, <2>1, <2>2 DEF Types
  <2>4. Arranged'
    <3>1. Typed' BY <1>1, <1>2, <2>1, <2>3 DEF Types, Typed
    <3>2. Processor' BY <1>1, <2>1 DEF IpcInv, Processor, NotYetStarted
    <3>3. Places' BY <1>1, <2>1 DEF IpcInv, Places, Place
    <3>4. Queues' BY <1>1, <1>8, <2>1, <2>3 DEF IpcInv, Queues
    <3>5. QED BY <3>1, <3>2, <3>3, <3>4 DEF Arranged
  <2>5. Held(Heap, h)' /\ Held(Lock, mutex.owner)'
    BY <1>1, <1>5, <1>6, <1>7, <2>1, <2>3 DEF Held, Holds
  <2>6. Units' BY <1>1, <2>5 DEF IpcInv, Units
  <2>7. Urgency' BY <1>1, <2>1 DEF IpcInv, Urgency
  <2>8. Hears' BY <1>8, <2>1, <2>3 DEF Hears, In
  <2>9. IpcInv' BY <1>3, <1>4, <2>4, <2>6, <2>7, <2>8, Closing
  <2>10. QED BY <1>1, <2>1, <2>9
<1>9. CASE queue[RxSem] # <<>>
  <2>1. PICK next \in Thread : next = Head(queue[RxSem]) BY <1>5, <1>9, FirstWaits
  <2>2. /\ k' = rt_schedule(rt_thread_resume(k, next)) /\ value' = value
        /\ queue' = [queue EXCEPT ![RxSem] = Tail(@)]
    BY <1>9, <2>1 DEF rt_hw_serial_isr, Release
  <2>3. /\ In(queue[RxSem], next) /\ value[RxSem] = 0
        /\ at[next] = "waits" /\ using[next] = RxSem /\ k.stat[next] = "SUSPEND"
        /\ \A p \in Object : In(queue[p], next) => p = RxSem
        /\ Tail(queue[RxSem]) \in Seq(Thread) /\ NoTwice(Tail(queue[RxSem]))
        /\ \A u : In(Tail(queue[RxSem]), u) <=> In(queue[RxSem], u) /\ u # next
    BY <1>5, <1>9, <2>1, FirstWaits
  <2>4. next = Shell BY <2>1, <2>3 DEF IpcInv, Places, Place
  <2> DEFINE a == rt_thread_resume(k, next)
  <2>5. /\ Well(a) /\ a.current = k.current /\ a.priority = k.priority
        /\ a.stat = [k.stat EXCEPT ![next] = IF next = k.current THEN "RUNNING" ELSE "READY"]
        /\ \A u \in Thread : Sleeps(a, u) <=> Sleeps(k, u) /\ u # next
    BY <1>2, <2>1, <2>3, WellResume
  <2>6. k' = rt_schedule(a) BY <2>2
  <2> HIDE DEF a
  <2>7. a.stat[next] \in Ready /\ Able(a) BY <1>2, <2>1, <2>5 DEF Able, Ready
  <2>8. /\ Well(k') /\ Same(a, k') /\ k'.stat[k'.current] = "RUNNING" /\ ~Below(k')
    <3> DEFINE s == rt_schedule(a)
    <3>1. Well(s) /\ Same(a, s) /\ s.stat[s.current] = "RUNNING" /\ ~Below(s)
      BY <2>5, <2>7, WellSchedule
    <3>2. k' = s BY <2>6
    <3> HIDE DEF s
    <3>3. QED BY <3>1, <3>2
  <2>9. /\ k'.priority = k.priority /\ k'.stat[next] \in Ready
        /\ \A u \in Thread : /\ Sleeps(k', u) <=> Sleeps(k, u) /\ u # next
                             /\ u # next => (k'.stat[u] = "SUSPEND" <=> k.stat[u] = "SUSPEND")
                             /\ k'.stat[u] \in {"INIT", "CLOSE"} => k'.stat[u] = k.stat[u]
                             /\ k.stat[u] \in {"INIT", "CLOSE"} => k'.stat[u] = k.stat[u]
    BY <1>2, <2>1, <2>3, <2>5, <2>7, <2>8 DEF Same, Ready
  <2>10. Processor' BY <1>1, <2>8, <2>9, ProcessorKept DEF Steady
  <2>11. /\ queue' \in [Object -> Seq(Thread)]
         /\ queue'[RxSem] = Tail(queue[RxSem])
         /\ \A p \in Object : p # RxSem => queue'[p] = queue[p]
    BY <1>2, <1>5, <2>2, <2>3 DEF Types
  <2>12. \A p \in Object, u \in Thread :
           In(queue'[p], u) <=> In(queue[p], u) /\ ~(p = RxSem /\ u = next)
    BY <2>3, <2>11
  <2>13. Typed' BY <1>1, <1>2, <2>2, <2>11 DEF Types, Typed
  <2>14. \A p \in Object : ~In(queue'[p], next) BY <2>1, <2>3, <2>12
  <2>15. Place(next)' /\ Listed(next)'
    <3>1. Place(next) BY <2>1 DEF IpcInv, Places
    <3>2. at'[next] = "waits" /\ using'[next] = RxSem BY <1>1, <2>3
    <3>3. ~Sleeps(k', next) BY <2>1, <2>9
    <3>4. QED BY <1>5, <2>3, <2>9, <2>14, <3>1, <3>2, <3>3, Constants DEF Place, Listed, Ready
  <2>16. Places' /\ Queues'
    <3>1. \A u \in Thread : u \notin {next} => Untouched(u)
      BY <1>1, <2>9, <2>12 DEF Untouched
    <3>2. \A u \in Thread : u \in {next} => Place(u)' /\ Listed(u)' BY <2>15
    <3>3. \A p \in Object : NoTwice(queue'[p]) /\ (queue'[p] # <<>> => value'[p] = 0)
      BY <2>2, <2>3, <2>11 DEF IpcInv, Queues
    <3>4. QED BY <3>1, <3>2, <3>3, OthersKept
  <2>17. Arranged' BY <2>10, <2>13, <2>16 DEF Arranged
  <2>18. Held(Heap, h)' /\ Held(Lock, mutex.owner)'
    BY <1>1, <1>5, <1>6, <1>7, <2>2, <2>11 DEF Held, Holds
  <2>19. Units' BY <1>1, <2>18 DEF IpcInv, Units
  <2>20. Urgency' BY <1>1, <1>5, <2>9, <2>11 DEF IpcInv, Urgency
  <2>21. Hears' BY <1>1, <1>5, <2>3, <2>4, <2>14 DEF Hears
  <2>22. IpcInv' BY <1>3, <1>4, <2>17, <2>19, <2>20, <2>21, Closing
  <2>23. QED BY <2>8, <2>22
<1>10. QED BY <1>8, <1>9

\* The owner is the one that holds the lock.
LEMMA OwnerIs ==
  ASSUME IpcInv, NEW t \in Thread
  PROVE  /\ Holds(t, Lock) <=> t = mutex.owner
         /\ mutex.owner \in Thread \cup {Nobody}
         /\ value[Lock] = IF mutex.owner = Nobody THEN 1 ELSE 0
         /\ mutex.owner = t => mutex.original = InitPriority[t]
BY Constants DEF IpcInv, Units, Held

\* One more take or release of a lock that is held several times changes its count only.
LEMMA Nested ==
  ASSUME IpcInv, NEW n \in Nat, n > 0, mutex.owner # Nobody, mutex' = [mutex EXCEPT !.hold = n],
         UNCHANGED <<k, pc, started, at, using, queue, value, bytes>>
  PROVE  IpcInv'
<1>1. Types BY DEF IpcInv
<1>2. /\ mutex' \in [owner : Thread \cup {Nobody}, original : Nat, hold : Nat]
      /\ mutex'.owner = mutex.owner /\ mutex'.original = mutex.original /\ mutex'.hold = n
  BY <1>1 DEF Types
<1>3. Types' BY <1>1, <1>2 DEF Types
<1>4. Processor' BY DEF IpcInv, Processor, NotYetStarted
<1>5. Places' BY DEF IpcInv, Places, Place
<1>6. Queues' BY DEF IpcInv, Queues
<1>7. Units' BY <1>2 DEF IpcInv, Units, Held, Holds
<1>8. Urgency' BY <1>2 DEF IpcInv, Urgency
<1>9. Hears' BY DEF IpcInv, Hears
<1>10. QED BY <1>3, <1>4, <1>5, <1>6, <1>7, <1>8, <1>9 DEF IpcInv

\* The lock is taken once more, taken, or waited for; its owner inherits (rt_mutex_take).
LEMMA MutexTakeStep ==
  ASSUME IpcInv, NEW t \in Thread, NEW time \in Times, rt_mutex_take(t, time)
  PROVE  IpcInv' /\ (UNCHANGED <<k, pc>> \/ pc'[k'.current] = "schedule")
<1>1. Types /\ Well(k) /\ k.priority \in [Thread -> Priority] /\ k \in KState
  BY DEF IpcInv, Processor, Well, KState
<1>2. UNCHANGED <<started, bytes>> BY DEF rt_mutex_take
<1>3. \/ Takes(t, Lock)
      \/ InUser(t) /\ at[t] = "in" /\ using[t] = Lock /\ mutex.hold < MaxHold
  BY DEF rt_mutex_take
<1>4. mutex.owner # t => Takes(t, Lock) BY <1>3, OwnerIs DEF Holds
<1>5. Lock \in Object /\ Heap \in Object /\ Lock # RxSem /\ Lock # Heap /\ Nobody \notin Thread
  BY Constants
<1>6. PICK h \in Thread \cup {Nobody} : Held(Heap, h) BY HolderExists
<1>7. bytes' \in Nat BY <1>1, <1>2 DEF Types
<1>8. CASE /\ mutex.owner = t /\ mutex' = [mutex EXCEPT !.hold = @ + 1]
           /\ UNCHANGED <<k, pc, at, using, queue, value>>
  <2>1. mutex.hold + 1 \in Nat /\ mutex.hold + 1 > 0 BY <1>1 DEF Types
  <2>2. mutex' = [mutex EXCEPT !.hold = mutex.hold + 1] BY <1>8
  <2>3. mutex.owner # Nobody BY <1>5, <1>8
  <2>4. UNCHANGED <<k, pc, started, at, using, queue, value, bytes>> BY <1>2, <1>8
  <2>5. IpcInv' BY <2>1, <2>2, <2>3, <2>4, Nested
  <2>6. QED BY <1>8, <2>5
<1>9. CASE /\ mutex.owner # t /\ value[Lock] > 0 /\ value' = [value EXCEPT ![Lock] = @ - 1]
           /\ mutex' = [owner |-> t, original |-> k.priority[t], hold |-> mutex.hold + 1]
           /\ Entered(t, Lock) /\ UNCHANGED <<k, pc, queue>>
  <2>1. /\ Arranged' /\ Hears' /\ t \in Thread
        /\ \A u \in Thread : Holds(u, Lock)' <=> Holds(u, Lock) \/ (u = t /\ Lock # RxSem)
        /\ \A u \in Thread, p \in Object : p # Lock => (Holds(u, p)' <=> Holds(u, p))
    <3>1. UNCHANGED <<k, pc, started, queue, bytes>> BY <1>2, <1>9
    <3>2. Takes(t, Lock) /\ value[Lock] > 0 BY <1>4, <1>9
    <3>3. QED BY <1>5, <1>9, <3>1, <3>2, Enters
  <2>2. mutex.owner = Nobody /\ value[Lock] = 1 BY <1>9, OwnerIs
  <2>3. mutex = Free BY <2>2 DEF IpcInv, Units
  <2>4. mutex' = [owner |-> t, original |-> InitPriority[t], hold |-> 1]
    <3>1. mutex.hold + 1 = 1 BY <2>3 DEF Free
    <3>2. k.priority[t] = InitPriority[t] BY <1>5, <2>2 DEF IpcInv, Urgency
    <3>3. QED BY <1>9, <3>1, <3>2
  <2>5. InitPriority[t] \in Nat BY Constants
  <2>6. /\ mutex' \in [owner : Thread \cup {Nobody}, original : Nat, hold : Nat]
        /\ mutex'.owner = t /\ mutex'.original = InitPriority[t] /\ mutex'.hold = 1
    BY <2>4, <2>5
  <2>7. value'[Lock] = 0 /\ value'[Heap] = value[Heap] BY <1>1, <1>5, <1>9, <2>2 DEF Types
  <2>8. Held(Heap, h)' BY <1>5, <1>6, <2>1, <2>7, HeldKept
  <2>9. Held(Lock, t)'
    <3>1. \A u \in Thread : Holds(u, Lock)' <=> u = t BY <1>5, <2>1, <2>2, OwnerIs
    <3>2. QED BY <1>5, <2>7, <3>1 DEF Held
  <2>10. Held(Lock, mutex.owner)'
    <3>1. mutex'.owner = t BY <2>6
    <3>2. QED BY <2>9, <3>1 DEF Held
  <2>11. Units' BY <1>5, <2>6, <2>8, <2>10 DEF Units
  <2>12. Urgency'
    <3>1. queue[Lock] = <<>>
      <4>1. value[Lock] # 0 BY <2>2
      <4>2. QED BY <1>5, <4>1 DEF IpcInv, Queues
    <3>2. ByPriority(queue'[Lock]) /\ \A u : ~In(queue'[Lock], u)
      BY <1>9, <3>1 DEF ByPriority, In
    <3>3. \A u \in Thread : k'.priority[u] = InitPriority[u]
      BY <1>5, <1>9, <2>2 DEF IpcInv, Urgency
    <3>4. QED BY <3>2, <3>3 DEF Urgency
  <2>13. IpcInv' BY <1>7, <2>1, <2>6, <2>11, <2>12, Closing
  <2>14. QED BY <1>9, <2>13
<1>10. CASE /\ mutex.owner # t /\ value[Lock] = 0 /\ Wait(t, Lock, Inherit(t), time)
            /\ UNCHANGED <<value, mutex>>
  <2>1. PICK w \in Thread : w = mutex.owner BY <1>10, OwnerIs
  <2>2. w # t /\ Holds(w, Lock) /\ Takes(t, Lock) BY <1>4, <1>10, <2>1, OwnerIs
  <2>3. k.current = t BY <1>5, <2>2, TakesFrom
  <2>4. /\ k.priority[t] = InitPriority[t] /\ InitPriority[t] \in Nat
        /\ k.priority[w] \in Nat
    BY <1>1, <2>1, <2>2, SchedulerAssumption, Constants DEF IpcInv, Urgency
  <2> DEFINE k1 == Inherit(t)
  <2>5. /\ Well(k1) /\ k1.current = t /\ k1.stat = k.stat
        /\ \A u \in Thread : Sleeps(k1, u) <=> Sleeps(k, u)
        /\ k1.priority[w] <= k.priority[w] /\ k1.priority[w] <= k.priority[t]
        /\ k1.priority[w] \in Nat
        /\ \A u \in Thread : u # w => k1.priority[u] = k.priority[u]
    <3>1. CASE k.priority[t] < k.priority[w]
      <4> DEFINE s == ChangePriority(k, w, k.priority[t])
      <4>1. k.priority[t] \in Priority BY <1>1
      <4>2. /\ Well(s) /\ s.current = k.current /\ s.stat = k.stat
            /\ s.priority = [k.priority EXCEPT ![w] = k.priority[t]]
            /\ \A u \in Thread : Sleeps(s, u) <=> Sleeps(k, u)
        BY <1>1, <4>1, WellPriority
      <4>3. k1 = s BY <2>1, <3>1 DEF Inherit
      <4> HIDE DEF s, k1
      <4>4. s.priority[w] = k.priority[t] /\ \A u \in Thread : u # w => s.priority[u] = k.priority[u]
        BY <1>1, <4>2
      <4>5. /\ Well(k1) /\ k1.current = t /\ k1.stat = k.stat
            /\ \A u \in Thread : Sleeps(k1, u) <=> Sleeps(k, u)
        BY <2>3, <4>2, <4>3
      <4>6. /\ k1.priority[w] = k.priority[t]
            /\ \A u \in Thread : u # w => k1.priority[u] = k.priority[u]
        BY <4>3, <4>4
      <4>7. k.priority[t] \in Nat /\ k.priority[w] \in Nat BY <2>4
      <4>8. /\ k1.priority[w] <= k.priority[w] /\ k1.priority[w] <= k.priority[t]
            /\ k1.priority[w] \in Nat
        BY <3>1, <4>6, <4>7
      <4>9. QED BY <4>5, <4>6, <4>8
    <3>2. CASE ~(k.priority[t] < k.priority[w])
      <4>1. k1 = k BY <2>1, <3>2 DEF Inherit
      <4> HIDE DEF k1
      <4>2. QED BY <1>1, <2>3, <2>4, <3>2, <4>1
    <3>3. QED BY <3>1, <3>2
  <2> HIDE DEF k1
  <2>6. time = FOREVER \/ (time \in Nat /\ Lock = Lock)
    <3>1. Times \subseteq (1 .. RT_TICK_MAX \div 2 - 1) \cup {FOREVER} BY IpcAssumption
    <3>2. time \in 1 .. RT_TICK_MAX \div 2 - 1 => time \in Nat
      <4>1. RT_TICK_MAX \div 2 - 1 \in Int
        <5>1. RT_TICK_MAX \in Int BY SchedulerAssumption DEF RT_TICK_MAX
        <5>2. RT_TICK_MAX \div 2 \in Int BY <5>1
        <5>3. QED BY <5>2
      <4>2. QED BY <4>1
    <3>3. QED BY <3>1, <3>2
  <2>7. /\ Arranged' /\ Hears' /\ t \in Thread
        /\ \A u \in Thread, p \in Object : Holds(u, p)' <=> Holds(u, p)
        /\ k'.priority = k1.priority /\ pc'[k'.current] = "schedule"
        /\ queue' = [queue EXCEPT ![Lock] = Queued(Lock, t)]
    <3>1. UNCHANGED <<value, started, bytes>> BY <1>2, <1>10
    <3>2. Wait(t, Lock, k1, time) BY <1>10 DEF k1
    <3>3. QED BY <1>5, <1>10, <2>2, <2>5, <2>6, <3>1, <3>2, Waits
  <2>8. Held(Heap, h)' BY <1>5, <1>6, <1>10, <2>7, HeldKept
  <2>9. Held(Lock, w)'
    <3>1. Held(Lock, w) BY <2>1 DEF IpcInv, Units
    <3>2. QED BY <1>5, <1>10, <2>7, <3>1, HeldKept
  <2>10. Units' BY <1>5, <1>10, <2>1, <2>8, <2>9 DEF IpcInv, Units, Held
  <2>11. Urgency'
    <3>1. \A u \in Thread : u # w => k'.priority[u] = InitPriority[u]
      BY <2>1, <2>5, <2>7 DEF IpcInv, Urgency
    <3>2. NoTwice(queue[Lock]) /\ ~In(queue[Lock], t) /\ ~In(queue[Lock], w)
      <4>1. ~In(queue[Lock], t) BY <1>5, <2>2, TakesFrom
      <4>2. ~In(queue[Lock], w) BY <1>5, <2>2 DEF IpcInv, Queues, Holds
      <4>3. QED BY <1>5, <4>1, <4>2 DEF IpcInv, Queues
    <3>3. queue'[Lock] = Queued(Lock, t) BY <1>1, <1>5, <2>7 DEF Types
    <3>4. /\ \A u : In(Queued(Lock, t), u) <=> In(queue[Lock], u) \/ u = t
          /\ Lock \in PrioFlag /\ ByPriority(queue[Lock])
               /\ (\A u \in Thread : In(queue[Lock], u) \/ u = t => k.priority[u] = InitPriority[u])
               => ByPriority(Queued(Lock, t))
      BY <1>1, <1>5, <3>2, QueuedOf
    <3>5. ASSUME Lock \in PrioFlag
          PROVE  ByPriority(queue'[Lock])
      <4>1. ByPriority(queue[Lock]) BY <3>5 DEF IpcInv, Urgency
      <4>2. \A u \in Thread : In(queue[Lock], u) \/ u = t => k.priority[u] = InitPriority[u]
        BY <2>1, <2>2, <3>2 DEF IpcInv, Urgency
      <4>3. QED BY <3>3, <3>4, <3>5, <4>1, <4>2
    <3>6. ASSUME Lock \in PrioFlag, NEW u \in Thread, In(queue'[Lock], u)
          PROVE  k'.priority[w] <= InitPriority[u]
      <4>1. InitPriority[u] \in Nat BY Constants
      <4>2. CASE u = t BY <2>4, <2>5, <2>7, <4>2
      <4>3. CASE In(queue[Lock], u)
        <5>1. k.priority[w] <= InitPriority[u] BY <2>1, <3>6, <4>3 DEF IpcInv, Urgency
        <5>2. QED BY <2>4, <2>5, <2>7, <4>1, <5>1
      <4>4. QED BY <3>3, <3>4, <3>6, <4>2, <4>3
    <3>7. mutex'.owner = w BY <1>10, <2>1
    <3>8. QED BY <3>1, <3>5, <3>6, <3>7 DEF Urgency
  <2>12. mutex' \in [owner : Thread \cup {Nobody}, original : Nat, hold : Nat]
    BY <1>1, <1>10 DEF Types
  <2>13. QED BY <1>7, <2>7, <2>10, <2>11, <2>12, Closing
<1>11. QED BY <1>8, <1>9, <1>10 DEF rt_mutex_take

\* The owner gives its inherited priority back, and the lock on (rt_mutex_release).
LEMMA MutexReleaseStep ==
  ASSUME IpcInv, NEW t \in Thread, rt_mutex_release(t)
  PROVE  IpcInv'
<1> DEFINE k1 == ChangePriority(k, t, mutex.original)
<1>1. /\ InUser(t) /\ at[t] = "in" /\ using[t] = Lock /\ UNCHANGED <<started, bytes>>
  BY DEF rt_mutex_release
<1>2. Types /\ Well(k) /\ k.priority \in [Thread -> Priority]
  BY DEF IpcInv, Processor, Well, KState
<1>3. Holds(t, Lock) BY <1>1 DEF Holds
<1>4. /\ mutex.owner = t /\ value[Lock] = 0 /\ mutex.original = InitPriority[t]
  BY <1>3, OwnerIs, Constants
<1>5. Lock \in Object /\ Heap \in Object /\ Lock # Heap /\ Nobody \notin Thread BY Constants
<1>6. PICK h \in Thread \cup {Nobody} : Held(Heap, h) BY HolderExists
<1>7. bytes' \in Nat BY <1>1, <1>2 DEF Types
<1>8. /\ Well(k1) /\ k1.current = t /\ k1.stat = k.stat
      /\ \A u \in Thread : Sleeps(k1, u) <=> Sleeps(k, u)
      /\ \A u \in Thread : k1.priority[u] = InitPriority[u]
  <2> DEFINE s == ChangePriority(k, t, InitPriority[t])
  <2>1. InitPriority[t] \in Priority BY Constants
  <2>2. /\ Well(s) /\ s.current = k.current /\ s.stat = k.stat
        /\ s.priority = [k.priority EXCEPT ![t] = InitPriority[t]]
        /\ \A u \in Thread : Sleeps(s, u) <=> Sleeps(k, u)
    BY <1>2, <2>1, WellPriority
  <2>3. k1 = s BY <1>4
  <2>4. k.current = t BY <1>1, CodeRuns
  <2> HIDE DEF s, k1
  <2>5. \A u \in Thread : s.priority[u] = InitPriority[u]
    BY <1>2, <1>4, <2>2 DEF IpcInv, Urgency
  <2>6. QED BY <2>2, <2>3, <2>4, <2>5
<1>9. CASE /\ mutex.hold > 1 /\ mutex' = [mutex EXCEPT !.hold = @ - 1]
           /\ UNCHANGED <<k, pc, at, using, queue, value>>
  <2> HIDE DEF k1
  <2>1. mutex.hold - 1 \in Nat /\ mutex.hold - 1 > 0 BY <1>2, <1>9 DEF Types
  <2>2. mutex' = [mutex EXCEPT !.hold = mutex.hold - 1] BY <1>9
  <2>3. mutex.owner # Nobody BY <1>4, <1>5
  <2>4. UNCHANGED <<k, pc, started, at, using, queue, value, bytes>> BY <1>1, <1>9
  <2>5. QED BY <2>1, <2>2, <2>3, <2>4, Nested
<1>10. CASE /\ queue[Lock] # <<>>
            /\ mutex' = [owner |-> Head(queue[Lock]),
                         original |-> k1.priority[Head(queue[Lock])], hold |-> 1]
            /\ queue' = [queue EXCEPT ![Lock] = Tail(@)]
            /\ k' = rt_thread_resume(k1, Head(queue[Lock]))
            /\ Leaves(t) /\ ThenSchedule(t) /\ UNCHANGED value
  <2> HIDE DEF k1
  <2>1. /\ Arranged' /\ Hears' /\ Head(queue[Lock]) \in Thread
        /\ \A u \in Thread : Holds(u, Lock)' <=> u = Head(queue[Lock])
        /\ \A u \in Thread, p \in Object : p # Lock => (Holds(u, p)' <=> Holds(u, p))
        /\ k'.priority = k1.priority
    <3>1. UNCHANGED <<value, started, bytes>> BY <1>1, <1>10
    <3>2. QED BY <1>1, <1>8, <1>10, <3>1, Hands
  <2>2. PICK next \in Thread : next = Head(queue[Lock]) BY <2>1
  <2>3. mutex' = [owner |-> next, original |-> InitPriority[next], hold |-> 1]
    BY <1>8, <1>10, <2>2
  <2>4. InitPriority[next] \in Nat BY Constants
  <2>5. /\ mutex' \in [owner : Thread \cup {Nobody}, original : Nat, hold : Nat]
        /\ mutex'.owner = next /\ mutex'.original = InitPriority[next] /\ mutex'.hold = 1
    BY <2>3, <2>4
  <2>6. Held(Heap, h)' BY <1>5, <1>6, <1>10, <2>1, HeldKept
  <2>7. Held(Lock, next)' BY <1>4, <1>5, <1>10, <2>1, <2>2 DEF Held
  <2>8. Held(Lock, mutex.owner)' BY <2>5, <2>7 DEF Held
  <2>9. Units' BY <1>5, <2>5, <2>6, <2>8 DEF Units
  <2>10. Urgency'
    <3>1. queue'[Lock] = Tail(queue[Lock]) BY <1>2, <1>5, <1>10 DEF Types
    <3>2. /\ \A u : In(Tail(queue[Lock]), u) <=> In(queue[Lock], u) /\ u # next
          /\ ByPriority(queue[Lock]) =>
               /\ ByPriority(Tail(queue[Lock]))
               /\ \A u : In(queue[Lock], u) => InitPriority[next] <= InitPriority[u]
      BY <1>5, <1>10, <2>2, FirstWaits
    <3>3. \A u \in Thread : k'.priority[u] = InitPriority[u] BY <1>8, <2>1
    <3>4. Lock \in PrioFlag => ByPriority(queue[Lock]) BY DEF IpcInv, Urgency
    <3>5. Lock \in PrioFlag => /\ ByPriority(queue'[Lock])
                               /\ \A u \in Thread : In(queue'[Lock], u) =>
                                    k'.priority[next] <= InitPriority[u]
      BY <3>1, <3>2, <3>3, <3>4
    <3>6. QED BY <2>5, <3>3, <3>5 DEF Urgency, ByPriority
  <2>11. QED BY <1>7, <2>1, <2>5, <2>9, <2>10, Closing
<1>11. CASE /\ queue[Lock] = <<>> /\ mutex' = Free
            /\ value' = [value EXCEPT ![Lock] = @ + 1]
            /\ k' = k1 /\ Leaves(t) /\ UNCHANGED <<pc, queue>>
  <2> HIDE DEF k1
  <2>1. /\ Arranged' /\ Hears' /\ t \in Thread /\ value[Lock] = 0
        /\ \A u \in Thread : ~Holds(u, Lock)'
        /\ \A u \in Thread, p \in Object : p # Lock => (Holds(u, p)' <=> Holds(u, p))
    <3>1. UNCHANGED <<pc, queue, started, bytes>> BY <1>1, <1>11
    <3>2. /\ Well(k') /\ k'.current = t /\ k'.stat = k.stat
          /\ \A u \in Thread : Sleeps(k', u) <=> Sleeps(k, u)
      BY <1>8, <1>11
    <3>3. QED BY <1>1, <1>11, <3>1, <3>2, Frees
  <2>2. value'[Lock] = 1 /\ value'[Heap] = value[Heap] BY <1>2, <1>4, <1>5, <1>11 DEF Types
  <2>3. /\ mutex' \in [owner : Thread \cup {Nobody}, original : Nat, hold : Nat]
        /\ mutex'.owner = Nobody
    BY <1>11 DEF Free
  <2>4. Held(Heap, h)' BY <1>5, <1>6, <2>1, <2>2, HeldKept
  <2>5. Held(Lock, mutex.owner)' BY <1>5, <2>1, <2>2, <2>3 DEF Held
  <2>6. Units' BY <1>11, <2>3, <2>4, <2>5 DEF Units, Free
  <2>7. Urgency'
    <3>1. ByPriority(queue'[Lock]) /\ \A u : ~In(queue'[Lock], u)
      BY <1>11 DEF ByPriority, In
    <3>2. \A u \in Thread : k'.priority[u] = InitPriority[u] BY <1>8, <1>11
    <3>3. QED BY <3>1, <3>2 DEF Urgency
  <2>8. QED BY <1>7, <2>1, <2>3, <2>6, <2>7, Closing
<1>12. QED BY <1>9, <1>10, <1>11 DEF rt_mutex_release

-----------------------------------------------------------------------------
(***************************************************************************)
(* The step and the theorems.                                              *)
(***************************************************************************)
\* What every step does to the invariant, and to a thread that goes on although a
\* more urgent one is ready.
LEMMA IpcNextHolds ==
  IpcInv /\ [IpcNext]_allVars =>
    /\ IpcInv'
    /\ LessUrgentRuns' => LessUrgentRuns \/ \E t \in Thread : rt_mutex_release(t)
<1> SUFFICES ASSUME IpcInv, [IpcNext]_allVars
             PROVE  /\ IpcInv'
                    /\ LessUrgentRuns' => LessUrgentRuns \/ \E t \in Thread : rt_mutex_release(t)
  OBVIOUS
<1>1. LessUrgentRuns <=> pc[k.current] = "user" /\ Below(k) BY DEF LessUrgentRuns, Below
<1>2. LessUrgentRuns' <=> pc'[k'.current] = "user" /\ Below(k') BY DEF LessUrgentRuns, Below
<1>3. UNCHANGED <<k, pc>> => (LessUrgentRuns' => LessUrgentRuns) BY <1>1, <1>2
<1>4. pc'[k'.current] = "schedule" \/ ~Below(k') => ~LessUrgentRuns' BY <1>2
<1>5. CASE Elapses BY <1>5, ElapsesStep
<1>6. CASE Timeout BY <1>4, <1>6, TimeoutStep
<1>7. CASE Switches BY <1>4, <1>7, SwitchesStep
<1>8. CASE MainStarts BY <1>4, <1>8, StartsStep, ReturnsStep DEF MainStarts, MainGoesOn
<1>9. CASE SleepOutside BY <1>4, <1>9, SleepsStep
<1>10. CASE IdleFrees BY <1>4, <1>10, IdleFreesStep
<1>11. CASE rt_hw_serial_isr BY <1>3, <1>4, <1>11, SerialStep
<1>12. CASE finsh_getchar
  <2>1. UNCHANGED <<k, pc>> BY <1>12 DEF finsh_getchar, vars
  <2>2. QED BY <1>3, <1>12, <2>1, GetcharStep
<1>13. ASSUME NEW t \in Thread, NEW s \in {Heap, RxSem}, rt_sem_take(t, s)
       PROVE  IpcInv' /\ (LessUrgentRuns' => LessUrgentRuns)
  BY <1>3, <1>4, <1>13, SemTakeStep
<1>14. ASSUME NEW t \in Thread, TakeReturns(t)
       PROVE  IpcInv' /\ (LessUrgentRuns' => LessUrgentRuns)
  <2>1. UNCHANGED <<k, pc>> BY <1>14 DEF TakeReturns, vars
  <2>2. QED BY <1>3, <1>14, <2>1, TakeReturnsStep
<1>15. ASSUME NEW t \in Thread, rt_sem_release(t, Heap)
       PROVE  IpcInv' /\ (LessUrgentRuns' => LessUrgentRuns)
  BY <1>3, <1>4, <1>15, SemReleaseStep
<1>16. ASSUME NEW t \in Thread, rt_mutex_release(t)
       PROVE  IpcInv'
  BY <1>16, MutexReleaseStep
<1>17. ASSUME NEW t \in Thread, NEW time \in Times, rt_mutex_take(t, time)
       PROVE  IpcInv' /\ (LessUrgentRuns' => LessUrgentRuns)
  BY <1>3, <1>4, <1>17, MutexTakeStep
<1>18. CASE ShellGoesOn BY <1>12, <1>13, <1>14, <1>18, Constants DEF ShellGoesOn
<1>19. CASE UNCHANGED allVars
  <2>1. UNCHANGED ipcVars /\ UNCHANGED vars BY <1>19 DEF allVars
  <2>2. KernelSame BY <2>1, KernelKept
  <2>3. UNCHANGED <<k, pc, started>> BY <2>1 DEF vars
  <2>4. pc' \in [Thread -> {"user", "schedule", "gone"}] BY <2>3 DEF IpcInv, Types
  <2>5. IpcInv' BY <2>1, <2>2, <2>4, OnlyScheduled DEF KernelSame
  <2>6. QED BY <1>3, <2>3, <2>5
<1>20. QED
  BY <1>5, <1>6, <1>7, <1>8, <1>9, <1>10, <1>11, <1>13, <1>14, <1>15, <1>16, <1>17, <1>18, <1>19
  DEF IpcNext

\* The inductive invariant holds in every state.
THEOREM IpcInvariance == IpcSpec => []IpcInv
<1>1. IpcInv /\ [IpcNext]_allVars => IpcInv' BY IpcNextHolds
<1>2. QED BY IpcInitHolds, <1>1, PTL DEF IpcSpec

\* A unit is with one thread or in the value, never lost and never in two places, so
\* that the heap and the lock have one holder at most (ipc.c's semaphores and mutex,
\* against rt_thread_timeout).
THEOREM UnitsNeverLost == IpcSpec => []UnitsAccountedFor
<1>1. IpcInv => UnitsAccountedFor
  <2> SUFFICES ASSUME IpcInv
               PROVE  UnitsAccountedFor
    OBVIOUS
  <2>1. Heap \in Object /\ Lock \in Object /\ Nobody \notin Thread BY Constants
  <2>2. \A o \in Object, t \in Thread : t \in Holders(o) <=> Holds(t, o)
    BY HoldersAre DEF IpcInv
  <2>3. ASSUME NEW o \in {Heap, Lock}, NEW h \in Thread \cup {Nobody}, Held(o, h)
        PROVE  /\ Holders(o) = IF h = Nobody THEN {} ELSE {h}
               /\ Cardinality(Holders(o)) + value[o] = 1
    <3>1. Holders(o) \subseteq Thread BY DEF Holders
    <3>2. \A t \in Thread : t \in Holders(o) <=> t = h BY <2>1, <2>2, <2>3 DEF Held
    <3>3. CASE h = Nobody
      <4>1. Holders(o) = {} BY <2>1, <3>1, <3>2, <3>3
      <4>2. value[o] = 1 BY <2>3, <3>3 DEF Held
      <4>3. Cardinality(Holders(o)) = 0 BY <4>1, FS_EmptySet
      <4>4. QED BY <3>3, <4>1, <4>2, <4>3
    <3>4. CASE h # Nobody
      <4>1. Holders(o) = {h} BY <3>1, <3>2, <3>4
      <4>2. value[o] = 0 BY <2>3, <3>4 DEF Held
      <4>3. Cardinality(Holders(o)) = 1 BY <4>1, FS_Singleton
      <4>4. QED BY <3>4, <4>1, <4>2, <4>3
    <3>5. QED BY <3>3, <3>4
  <2>4. \A o \in {Heap, Lock} : Cardinality(Holders(o)) + value[o] = 1
    <3>1. ASSUME NEW o \in {Heap, Lock}
          PROVE  Cardinality(Holders(o)) + value[o] = 1
      <4>1. PICK h \in Thread \cup {Nobody} : Held(o, h) BY HolderExists
      <4>2. QED BY <2>3, <4>1
    <3>2. QED BY <3>1
  <2>5. \A o \in Object : queue[o] # <<>> => value[o] = 0 BY DEF IpcInv, Queues
  <2>6. /\ Holders(Lock) = IF mutex.owner = Nobody THEN {} ELSE {mutex.owner}
        /\ mutex.owner = Nobody => mutex = Free
        /\ mutex.owner # Nobody => mutex.hold > 0
    <3>1. mutex.owner \in Thread \cup {Nobody} /\ Held(Lock, mutex.owner)
      BY DEF IpcInv, Types, Units
    <3>2. QED BY <2>3, <3>1 DEF IpcInv, Units
  <2>7. QED BY <2>4, <2>5, <2>6 DEF UnitsAccountedFor
<1>2. QED BY IpcInvariance, <1>1, PTL

\* Who is in a list waits there, asleep, and who is asleep is in a list or has a timer
\* (rt_ipc_list_suspend, rt_ipc_list_resume, rt_thread_timeout).
THEOREM WakersKnow == IpcSpec => []NobodyForgotten
<1>1. IpcInv => NobodyForgotten
  <2> SUFFICES ASSUME IpcInv
               PROVE  NobodyForgotten
    OBVIOUS
  <2>1. \A t \in Thread : Waiting(t) => k.stat[t] = "SUSPEND" BY DEF IpcInv, Queues, Waiting
  <2>2. \A t \in Thread : k.stat[t] = "SUSPEND" => Waiting(t) \/ Sleeps(k, t)
    BY DEF IpcInv, Places, Place, Waiting
  <2>3. \A t \in Thread : Sleeps(k, t) <=> In(Sleepers, t) BY DEF Sleeps, Sleepers
  <2>4. QED BY <2>1, <2>2, <2>3 DEF IpcInv, Queues, NobodyForgotten
<1>2. QED BY IpcInvariance, <1>1, PTL

\* rt_schedule always finds a thread for the processor, also while idle waits for the
\* heap: code is executed by running threads only.
THEOREM CodeIsRun == IpcSpec => []OnlyRunningRuns
<1>1. IpcInv => OnlyRunningRuns BY CodeRuns DEF OnlyRunningRuns
<1>2. QED BY IpcInvariance, <1>1, PTL

\* The owner of a priority-ordered lock is as urgent as whoever waits for it, and who
\* has no lock has its own priority (rt_mutex_take, rt_mutex_release).
THEOREM OwnerIsUrgent == IpcSpec => []PriorityInherited
<1>1. IpcInv => PriorityInherited
  <2> SUFFICES ASSUME IpcInv
               PROVE  PriorityInherited
    OBVIOUS
  <2>1. ASSUME Lock \in PrioFlag, NEW i \in 1 .. Len(queue[Lock])
        PROVE  k.priority[mutex.owner] <= k.priority[queue[Lock][i]]
    <3>1. queue[Lock] \in Seq(Thread) BY Constants DEF IpcInv, Types
    <3>2. PICK u \in Thread : u = queue[Lock][i] BY <3>1
    <3>3. In(queue[Lock], u) BY <3>2 DEF In
    <3>4. at[u] = "waits" BY <3>3, Constants DEF IpcInv, Queues
    <3>5. u # mutex.owner
      <4>1. ~Holds(u, Lock) BY <3>3, <3>4 DEF Holds
      <4>2. QED BY <4>1, OwnerIs
    <3>6. QED BY <2>1, <3>2, <3>3, <3>5 DEF IpcInv, Urgency
  <2>2. \A t \in Thread \ {mutex.owner} : k.priority[t] = InitPriority[t]
    BY DEF IpcInv, Urgency
  <2>3. QED BY <2>1, <2>2 DEF PriorityInherited
<1>2. QED BY IpcInvariance, <1>1, PTL

\* The shell is not asleep while a byte waits in the console's buffer
\* (rt_hw_serial_isr, finsh_rx_ind, finsh_getchar).
THEOREM ShellAlwaysHears == IpcSpec => []ShellHears
<1>1. IpcInv => ShellHears BY DEF IpcInv, Hears, ShellHears
<1>2. QED BY IpcInvariance, <1>1, PTL

\* Only rt_mutex_release lets a thread go on while a more urgent one is ready.
THEOREM InversionNamed == IpcSpec => InversionOnlyByRelease
<1>1. IpcInv /\ [IpcNext]_allVars =>
        [LessUrgentRuns' => LessUrgentRuns \/ \E t \in Thread : rt_mutex_release(t)]_allVars
  BY IpcNextHolds
<1>2. QED BY IpcInvariance, <1>1, PTL DEF IpcSpec, InversionOnlyByRelease
=============================================================================
