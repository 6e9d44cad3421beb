---------------------------- MODULE KernelProofs ----------------------------
(***************************************************************************)
(* Kernel's lists, and what the idle thread frees, for every set of        *)
(* threads, priority, slice and order of starts, every range of the tick,  *)
(* every depth of critical sections and every length of sleep.  IInv adds  *)
(* to the properties what makes them inductive: idle can always be given   *)
(* the processor, a current thread that no longer runs is about to call    *)
(* rt_schedule, and a thread is INIT until it is started and CLOSE for     *)
(* ever once it has ended.                                                 *)
(*                                                                         *)
(* The first part is about the operators of Scheduler: a list loses or     *)
(* gains one node, and nothing else changes.  The last one proves that     *)
(* Kernel implements PriorityCpu, from a second invariant, Prompt: the     *)
(* timers are in the order of how far ahead their points are, and nothing  *)
(* ready is more urgent than the thread whose code is executed.            *)
(***************************************************************************)
EXTENDS Kernel, SequenceTheorems, FiniteSetTheorems, WellFoundedInduction, TLAPS

-----------------------------------------------------------------------------
(***************************************************************************)
(* Lists.                                                                  *)
(***************************************************************************)
\* The least of a set of numbers, which CHOOSE may be asked for.
LEMMA MinExists ==
  ASSUME NEW S, S \subseteq Nat, S # {}
  PROVE  Min(S) \in S /\ \A n \in S : Min(S) <= n
<1> DEFINE T == {0 .. n : n \in S}
<1>1. T \subseteq FiniteSubsetsOf(Nat)
  <2>1. ASSUME NEW n \in S
        PROVE  0 .. n \subseteq Nat /\ IsFiniteSet(0 .. n)
    <3>1. n \in Int /\ 0 \in Int OBVIOUS
    <3>2. QED BY <3>1, FS_Interval
  <2>2. QED BY <2>1 DEF FiniteSubsetsOf
<1>2. T # {} OBVIOUS
<1>3. PICK X \in T : \A Y \in T : ~(<<Y, X>> \in StrictSubsetOrdering(Nat))
  BY <1>1, <1>2, FS_StrictSubsetOrderingWellFounded, WFMin
<1>4. PICK m \in S : X = 0 .. m OBVIOUS
<1>5. ASSUME NEW n \in S, n < m
      PROVE  FALSE
  <2>1. 0 .. n \in T OBVIOUS
  <2>2. 0 .. n \subseteq 0 .. m /\ 0 .. n # 0 .. m
    <3>1. m \in 0 .. m /\ m \notin 0 .. n BY <1>5
    <3>2. QED BY <3>1, <1>5
  <2>3. <<0 .. n, 0 .. m>> \in StrictSubsetOrdering(Nat) BY <2>2 DEF StrictSubsetOrdering
  <2>4. QED BY <1>3, <1>4, <2>1, <2>3
<1>6. \A n \in S : m <= n BY <1>5
<1>7. QED BY <1>6 DEF Min

\* A list without the node at one place.
LEMMA WithoutAtProperties ==
  ASSUME NEW T, NEW list \in Seq(T), NEW at \in 1 .. Len(list)
  PROVE  /\ WithoutAt(list, at) \in Seq(T)
         /\ Len(WithoutAt(list, at)) = Len(list) - 1
         /\ \A i \in 1 .. Len(list) - 1 :
              WithoutAt(list, at)[i] = IF i < at THEN list[i] ELSE list[i + 1]
<1>1. Len(list) \in Nat /\ Len(list) - 1 \in Nat OBVIOUS
<1>2. \A i \in 1 .. Len(list) - 1 : (IF i < at THEN list[i] ELSE list[i + 1]) \in T OBVIOUS
<1>3. WithoutAt(list, at) \in [1 .. Len(list) - 1 -> T] BY <1>2 DEF WithoutAt
<1>4. QED BY <1>1, <1>3 DEF WithoutAt

\* It loses that node and no other.
LEMMA WithoutAtMembers ==
  ASSUME NEW T, NEW list \in Seq(T), NEW at \in 1 .. Len(list), NoTwice(list), NEW u
  PROVE  In(WithoutAt(list, at), u) <=> In(list, u) /\ u # list[at]
<1> DEFINE less == WithoutAt(list, at)
           n == Len(list)
<1>1. /\ n \in Nat /\ Len(less) = n - 1
      /\ \A i \in 1 .. n - 1 : less[i] = IF i < at THEN list[i] ELSE list[i + 1]
  BY WithoutAtProperties
<1> HIDE DEF less
<1>2. ASSUME NEW i \in 1 .. n - 1
      PROVE  In(list, less[i]) /\ less[i] # list[at]
  <2>1. CASE i < at BY <1>1, <2>1 DEF In, NoTwice
  <2>2. CASE ~(i < at)
    <3>1. i + 1 \in 1 .. n /\ i + 1 # at /\ less[i] = list[i + 1] BY <1>1, <2>2
    <3>2. QED BY <3>1 DEF In, NoTwice
  <2>3. QED BY <2>1, <2>2
<1>3. ASSUME NEW i \in 1 .. n, list[i] # list[at]
      PROVE  In(less, list[i])
  <2>1. CASE i < at
    <3>1. i \in 1 .. n - 1 /\ less[i] = list[i] BY <1>1, <2>1
    <3>2. QED BY <1>1, <3>1 DEF In
  <2>2. CASE ~(i < at)
    <3>1. i # at BY <1>3
    <3>2. i - 1 \in 1 .. n - 1 /\ ~(i - 1 < at) /\ i - 1 + 1 = i BY <1>1, <2>2, <3>1
    <3>3. less[i - 1] = list[i] BY <1>1, <3>2
    <3>4. QED BY <1>1, <3>2, <3>3 DEF In
  <2>3. QED BY <2>1, <2>2
<1>4. In(less, u) => In(list, u) /\ u # list[at] BY <1>1, <1>2 DEF In
<1>5. In(list, u) /\ u # list[at] => In(less, u) BY <1>3 DEF In
<1>6. QED BY <1>4, <1>5 DEF less

\* It still holds none twice.
LEMMA WithoutAtNoTwice ==
  ASSUME NEW T, NEW list \in Seq(T), NEW at \in 1 .. Len(list), NoTwice(list)
  PROVE  NoTwice(WithoutAt(list, at))
<1> DEFINE less == WithoutAt(list, at)
           n == Len(list)
           Place(i) == IF i < at THEN i ELSE i + 1
<1>1. /\ n \in Nat /\ Len(less) = n - 1
      /\ \A i \in 1 .. n - 1 : less[i] = IF i < at THEN list[i] ELSE list[i + 1]
  BY WithoutAtProperties
<1>2. \A i \in 1 .. n - 1 : Place(i) \in 1 .. n /\ less[i] = list[Place(i)] BY <1>1
<1>3. \A i, j \in 1 .. n - 1 : Place(i) = Place(j) => i = j OBVIOUS
<1> HIDE DEF less, Place
<1>4. \A i, j \in 1 .. n - 1 : less[i] = less[j] => i = j BY <1>2, <1>3 DEF NoTwice
<1>5. QED BY <1>1, <1>4 DEF NoTwice, less

\* rt_list_remove of a thread.
LEMMA WithoutProperties ==
  ASSUME NEW T, NEW list \in Seq(T), NoTwice(list), NEW t
  PROVE  /\ Without(list, t) \in Seq(T) /\ NoTwice(Without(list, t))
         /\ \A u : In(Without(list, t), u) <=> In(list, u) /\ u # t
         /\ ~In(list, t) => Without(list, t) = list
<1>1. CASE In(list, t)
  <2> DEFINE at == CHOOSE i \in 1 .. Len(list) : list[i] = t
  <2>1. at \in 1 .. Len(list) /\ list[at] = t BY <1>1 DEF In
  <2>2. Without(list, t) = WithoutAt(list, at) BY <1>1 DEF In, Without
  <2> HIDE DEF at
  <2>3. WithoutAt(list, at) \in Seq(T) BY <2>1, WithoutAtProperties
  <2>4. NoTwice(WithoutAt(list, at)) BY <2>1, WithoutAtNoTwice
  <2>5. \A u : In(WithoutAt(list, at), u) <=> In(list, u) /\ u # t BY <2>1, WithoutAtMembers
  <2>6. QED BY <1>1, <2>2, <2>3, <2>4, <2>5
<1>2. CASE ~In(list, t)
  <2>1. Without(list, t) = list BY <1>2 DEF In, Without
  <2>2. QED BY <1>2, <2>1
<1>3. QED BY <1>1, <1>2

\* A list with one more node at its end.
LEMMA AppendMembers ==
  ASSUME NEW T, NEW list \in Seq(T), NoTwice(list), NEW t \in T, ~In(list, t)
  PROVE  /\ Append(list, t) \in Seq(T) /\ NoTwice(Append(list, t))
         /\ \A u : In(Append(list, t), u) <=> In(list, u) \/ u = t
         /\ Append(list, t) # <<>>
<1> DEFINE more == Append(list, t)
           n == Len(list)
<1>1. /\ n \in Nat /\ more \in Seq(T) /\ Len(more) = n + 1
      /\ more[n + 1] = t /\ \A i \in 1 .. n : more[i] = list[i]
  BY AppendProperties
<1> HIDE DEF more
<1>2. \A i, j \in 1 .. n + 1 : more[i] = more[j] => i = j BY <1>1 DEF NoTwice, In
<1>3. \A u : In(more, u) => In(list, u) \/ u = t BY <1>1 DEF In
<1>4. \A u : In(list, u) => In(more, u)
  <2>1. \A i \in 1 .. n : i \in 1 .. n + 1 BY <1>1
  <2>2. QED BY <1>1, <2>1 DEF In
<1>5. In(more, t)
  <2>1. n + 1 \in 1 .. n + 1 BY <1>1
  <2>2. QED BY <1>1, <2>1 DEF In
<1>6. more # <<>> BY <1>1
<1>7. QED BY <1>1, <1>2, <1>3, <1>4, <1>5, <1>6 DEF NoTwice, more

\* A list is empty when nothing is in it; otherwise its head is.
LEMMA EmptyOrHead ==
  ASSUME NEW T, NEW list \in Seq(T)
  PROVE  /\ list = <<>> <=> \A u \in T : ~In(list, u)
         /\ list # <<>> => Head(list) \in T /\ In(list, Head(list))
<1>1. list # <<>> => Len(list) >= 1 /\ Head(list) = list[1] /\ 1 \in 1 .. Len(list) OBVIOUS
<1>2. list # <<>> => Head(list) \in T /\ In(list, Head(list)) BY <1>1 DEF In
<1>3. list = <<>> => \A u : ~In(list, u) BY DEF In
<1>4. QED BY <1>2, <1>3

-----------------------------------------------------------------------------
(***************************************************************************)
(* The timer list.                                                         *)
(***************************************************************************)
Timers == Seq([thread : Thread, due : Tick])

\* The threads of the timers, in order.
LEMMA ThreadsOfProperties ==
  ASSUME NEW timers \in Timers
  PROVE  /\ Len(timers) \in Nat
         /\ ThreadsOf(timers) \in Seq(Thread) /\ Len(ThreadsOf(timers)) = Len(timers)
         /\ \A i \in 1 .. Len(timers) : ThreadsOf(timers)[i] = timers[i].thread
<1>1. ASSUME NEW i \in 1 .. Len(timers)
      PROVE  timers[i].thread \in Thread
  <2>1. timers[i] \in [thread : Thread, due : Tick] BY ElementOfSeq DEF Timers
  <2>2. QED BY <2>1
<1>2. ThreadsOf(timers) \in [1 .. Len(timers) -> Thread] BY <1>1 DEF ThreadsOf
<1>3. Len(timers) \in Nat BY LenProperties DEF Timers
<1>4. ThreadsOf(timers) \in Seq(Thread) /\ Len(ThreadsOf(timers)) = Len(timers) BY <1>2, <1>3
<1>5. QED BY <1>3, <1>4 DEF ThreadsOf

\* A timer taken from the list: its thread, and no other, is no longer there.
LEMMA TimerTaken ==
  ASSUME NEW l \in Timers, NoTwice(ThreadsOf(l)), NEW at \in 1 .. Len(l)
  PROVE  /\ WithoutAt(l, at) \in Timers /\ NoTwice(ThreadsOf(WithoutAt(l, at)))
         /\ \A u : In(ThreadsOf(WithoutAt(l, at)), u)
                     <=> In(ThreadsOf(l), u) /\ u # l[at].thread
<1> DEFINE n == Len(l)
           less == WithoutAt(l, at)
<1>1. /\ n \in Nat /\ ThreadsOf(l) \in Seq(Thread) /\ Len(ThreadsOf(l)) = n
      /\ \A i \in 1 .. n : ThreadsOf(l)[i] = l[i].thread
  BY ThreadsOfProperties
<1>2. /\ less \in Timers /\ Len(less) = n - 1
      /\ \A i \in 1 .. n - 1 : less[i] = IF i < at THEN l[i] ELSE l[i + 1]
  BY WithoutAtProperties DEF Timers
<1> HIDE DEF less
<1>3. ThreadsOf(less) = WithoutAt(ThreadsOf(l), at)
  <2>1. ASSUME NEW i \in 1 .. n - 1
        PROVE  less[i].thread = IF i < at THEN ThreadsOf(l)[i] ELSE ThreadsOf(l)[i + 1]
    <3>1. i \in 1 .. n /\ i + 1 \in 1 .. n BY <1>1
    <3>2. QED BY <1>1, <1>2, <3>1
  <2>2. QED BY <1>1, <1>2, <2>1 DEF ThreadsOf, WithoutAt
<1>4. ThreadsOf(l)[at] = l[at].thread BY <1>1
<1>5. NoTwice(ThreadsOf(less)) BY <1>1, <1>3, WithoutAtNoTwice
<1>6. \A u : In(ThreadsOf(less), u) <=> In(ThreadsOf(l), u) /\ u # l[at].thread
  BY <1>1, <1>3, <1>4, WithoutAtMembers
<1>7. QED BY <1>2, <1>5, <1>6 DEF less

\* A timer put into the list at any place.
Inserted(l, at, x) == SubSeq(l, 1, at - 1) \o <<x>> \o SubSeq(l, at, Len(l))

\* The old nodes keep their order around the new one.
LEMMA InsertedProperties ==
  ASSUME NEW T, NEW l \in Seq(T), NEW x \in T, NEW at \in 1 .. Len(l) + 1
  PROVE  /\ Inserted(l, at, x) \in Seq(T) /\ Len(Inserted(l, at, x)) = Len(l) + 1
         /\ \A i \in 1 .. Len(l) + 1 : Inserted(l, at, x)[i] =
              IF i < at THEN l[i] ELSE IF i = at THEN x ELSE l[i - 1]
<1> DEFINE n == Len(l)
           a == SubSeq(l, 1, at - 1)
           b == <<x>>
           c == SubSeq(l, at, n)
<1>1. n \in Nat /\ at \in Nat /\ at >= 1 /\ at <= n + 1 OBVIOUS
<1>2. a \in Seq(T) /\ Len(a) = at - 1 /\ \A i \in 1 .. at - 1 : a[i] = l[i] BY <1>1
<1>3. c \in Seq(T) /\ Len(c) = n + 1 - at /\ \A i \in 1 .. n + 1 - at : c[i] = l[at + i - 1] BY <1>1
<1>4. b \in Seq(T) /\ Len(b) = 1 /\ b[1] = x OBVIOUS
<1> HIDE DEF n, a, b, c
<1>5. /\ a \o b \in Seq(T) /\ Len(a \o b) = at
      /\ \A i \in 1 .. at : (a \o b)[i] = IF i <= at - 1 THEN a[i] ELSE b[i - (at - 1)]
  <2>1. /\ a \o b \in Seq(T) /\ Len(a \o b) = Len(a) + Len(b)
        /\ \A i \in 1 .. Len(a) + Len(b) :
             (a \o b)[i] = IF i <= Len(a) THEN a[i] ELSE b[i - Len(a)]
    BY <1>2, <1>4, ConcatProperties
  <2>2. Len(a) = at - 1 /\ Len(a) + Len(b) = at BY <1>1, <1>2, <1>4
  <2>3. QED BY <2>1, <2>2
<1> DEFINE d == a \o b
<1> HIDE DEF d
<1>6. d \in Seq(T) /\ Len(d) = at BY <1>5 DEF d
<1>7. \A i \in 1 .. at : d[i] = IF i < at THEN l[i] ELSE x
  <2>1. ASSUME NEW i \in 1 .. at
        PROVE  d[i] = IF i < at THEN l[i] ELSE x
    <3>1. CASE i < at
      <4>1. i \in 1 .. at - 1 /\ i <= at - 1 BY <1>1, <3>1
      <4>2. QED BY <1>2, <1>5, <3>1, <4>1 DEF d
    <3>2. CASE i = at
      <4>1. i - (at - 1) = 1 /\ ~(i <= at - 1) BY <1>1, <3>2
      <4>2. QED BY <1>4, <1>5, <3>2, <4>1 DEF d
    <3>3. QED BY <1>1, <3>1, <3>2
  <2>2. QED BY <2>1
<1>8. /\ d \o c \in Seq(T) /\ Len(d \o c) = n + 1
      /\ \A i \in 1 .. n + 1 : (d \o c)[i] = IF i <= at THEN d[i] ELSE c[i - at]
  <2>1. /\ d \o c \in Seq(T) /\ Len(d \o c) = Len(d) + Len(c)
        /\ \A i \in 1 .. Len(d) + Len(c) :
             (d \o c)[i] = IF i <= Len(d) THEN d[i] ELSE c[i - Len(d)]
    BY <1>3, <1>6, ConcatProperties
  <2>2. Len(d) = at /\ Len(d) + Len(c) = n + 1 BY <1>1, <1>3, <1>6
  <2>3. QED BY <2>1, <2>2
<1>9. ASSUME NEW i \in 1 .. n + 1
      PROVE  (d \o c)[i] = IF i < at THEN l[i] ELSE IF i = at THEN x ELSE l[i - 1]
  <2>0. i \in Int /\ at \in Int BY <1>1
  <2>1. CASE i <= at
    <3>1. i \in 1 .. at BY <1>1, <2>0, <2>1
    <3>2. (d \o c)[i] = d[i] BY <1>8, <2>1
    <3>3. d[i] = IF i < at THEN l[i] ELSE x BY <1>7, <3>1
    <3>4. ~(i < at) => i = at BY <2>0, <2>1
    <3>5. QED BY <3>2, <3>3, <3>4
  <2>2. CASE ~(i <= at)
    <3>1. i - at \in 1 .. n + 1 - at /\ at + (i - at) - 1 = i - 1 BY <1>1, <2>2
    <3>2. ~(i <= at) /\ ~(i < at) /\ i # at BY <2>0, <2>2
    <3>3. (d \o c)[i] = c[i - at] BY <1>8, <3>2
    <3>4. c[i - at] = l[i - 1] BY <1>3, <3>1
    <3>5. QED BY <3>2, <3>3, <3>4
  <2>3. QED BY <2>1, <2>2
<1>10. Inserted(l, at, x) = d \o c BY DEF Inserted, a, b, c, d, n
<1>11. QED BY <1>8, <1>9, <1>10 DEF n

\* A timer more, of a thread that had none.
LEMMA TimerInserted ==
  ASSUME NEW l \in Timers, NoTwice(ThreadsOf(l)), NEW x \in [thread : Thread, due : Tick],
         ~In(ThreadsOf(l), x.thread), NEW at \in 1 .. Len(l) + 1
  PROVE  LET more == Inserted(l, at, x)
         IN /\ more \in Timers /\ NoTwice(ThreadsOf(more))
            /\ \A u : In(ThreadsOf(more), u) <=> In(ThreadsOf(l), u) \/ u = x.thread
<1> DEFINE n == Len(l)
           more == Inserted(l, at, x)
           old == ThreadsOf(l)
           new == ThreadsOf(more)
<1>1. n \in Nat /\ Len(old) = n /\ \A i \in 1 .. n : old[i] = l[i].thread
  BY ThreadsOfProperties
<1>2. /\ more \in Timers /\ Len(more) = n + 1
      /\ \A i \in 1 .. n + 1 : more[i] = IF i < at THEN l[i] ELSE IF i = at THEN x ELSE l[i - 1]
  <2> DEFINE T == [thread : Thread, due : Tick]
  <2>1. l \in Seq(T) /\ x \in T BY DEF Timers
  <2> HIDE DEF T, more
  <2>2. Inserted(l, at, x) \in Seq(T) BY <2>1, InsertedProperties
  <2>3. /\ Len(Inserted(l, at, x)) = n + 1
        /\ \A i \in 1 .. n + 1 : Inserted(l, at, x)[i] =
             IF i < at THEN l[i] ELSE IF i = at THEN x ELSE l[i - 1]
    BY <2>1, InsertedProperties
  <2>4. QED BY <2>2, <2>3 DEF T, more, Timers
<1> HIDE DEF more
<1>3. Len(new) = n + 1 /\ \A i \in 1 .. n + 1 : new[i] = more[i].thread
  BY <1>2, ThreadsOfProperties
<1>4. ASSUME NEW i \in 1 .. n + 1
      PROVE  new[i] = IF i < at THEN old[i] ELSE IF i = at THEN x.thread ELSE old[i - 1]
  <2>1. CASE i < at
    <3>1. i \in 1 .. n BY <1>1, <2>1
    <3>2. QED BY <1>1, <1>2, <1>3, <2>1, <3>1
  <2>2. CASE i = at BY <1>2, <1>3, <2>2
  <2>3. CASE i > at
    <3>1. i - 1 \in 1 .. n /\ ~(i < at) /\ i # at BY <1>1, <2>3
    <3>2. QED BY <1>1, <1>2, <1>3, <3>1
  <2>4. QED BY <1>1, <2>1, <2>2, <2>3
<1>5. ~In(old, x.thread) /\ NoTwice(old) OBVIOUS
<1> HIDE DEF old, new
<1> DEFINE Old(i) == IF i < at THEN i ELSE i - 1
<1>6. \A i \in 1 .. n + 1 : i # at => Old(i) \in 1 .. n /\ new[i] = old[Old(i)] BY <1>1, <1>4
<1>7. new[at] = x.thread BY <1>1, <1>4
<1>8. \A i, j \in 1 .. n + 1 : i # at /\ j # at /\ Old(i) = Old(j) => i = j BY <1>1
<1> HIDE DEF Old
<1>9. NoTwice(new)
  <2>1. ASSUME NEW i \in 1 .. n + 1, NEW j \in 1 .. n + 1, new[i] = new[j]
        PROVE  i = j
    <3>1. CASE i # at /\ j # at BY <1>1, <1>5, <1>6, <1>8, <2>1, <3>1 DEF NoTwice
    <3>2. CASE i = at \/ j = at BY <1>1, <1>5, <1>6, <1>7, <2>1, <3>2 DEF In
    <3>3. QED BY <3>1, <3>2
  <2>2. QED BY <1>3, <2>1 DEF NoTwice, new
<1>10. \A u : In(new, u) => In(old, u) \/ u = x.thread
  BY <1>1, <1>3, <1>6, <1>7 DEF In, new
<1>11. \A u : In(old, u) => In(new, u)
  <2>1. ASSUME NEW i \in 1 .. n
        PROVE  \E j \in 1 .. n + 1 : new[j] = old[i]
    <3>1. CASE i < at
      <4>1. i \in 1 .. n + 1 BY <1>1
      <4>2. QED BY <1>4, <3>1, <4>1
    <3>2. CASE ~(i < at)
      <4>1. i + 1 \in 1 .. n + 1 /\ ~(i + 1 < at) /\ i + 1 # at /\ i + 1 - 1 = i BY <1>1, <3>2
      <4>2. new[i + 1] = old[i] BY <1>4, <4>1
      <4>3. QED BY <4>1, <4>2
    <3>3. QED BY <3>1, <3>2
  <2>2. QED BY <1>1, <1>3, <2>1 DEF In, new
<1>12. In(new, x.thread)
  <2>1. at \in 1 .. n + 1 BY <1>1
  <2>2. QED BY <1>3, <1>7, <2>1 DEF In, new
<1>13. QED BY <1>2, <1>9, <1>10, <1>11, <1>12 DEF more, old, new

-----------------------------------------------------------------------------
(***************************************************************************)
(* The ready lists.                                                        *)
(***************************************************************************)
KState == [current : Thread, stat : [Thread -> Stat], priority : [Thread -> Priority],
           table : [Priority -> Seq(Thread)], group : SUBSET Priority, lock : Int,
           tick : Tick, timers : Timers]

\* The ready lists hold the ready threads, the bitmap the lists in use.
ReadyLists(v) ==
  \A p \in Priority :
    /\ NoTwice(v.table[p])
    /\ p \in v.group <=> v.table[p] # <<>>
    /\ \A t \in Thread : In(v.table[p], t) <=> v.stat[t] = "READY" /\ v.priority[t] = p

\* The current thread is in no list, and no other runs.
CurrentOnly(v) == /\ v.stat[v.current] # "READY"
                  /\ \A t \in Thread : v.stat[t] = "RUNNING" => t = v.current

\* What only the scheduler's callers change.
Rest(v) == <<v.priority, v.lock, v.tick, v.timers>>

\* A thread leaves its ready list, if it is in one, for another state.
LEMMA Leave ==
  ASSUME NEW v \in KState, ReadyLists(v), NEW t \in Thread, NEW s \in Stat, s # "READY"
  PROVE  LET r == [rt_schedule_remove_thread(v, t) EXCEPT !.stat[t] = s]
         IN /\ r \in KState /\ ReadyLists(r)
            /\ r.stat = [v.stat EXCEPT ![t] = s]
            /\ r.current = v.current /\ Rest(r) = Rest(v)
<1> DEFINE p == v.priority[t]
           list == Without(v.table[p], t)
           group == IF list = <<>> THEN v.group \ {p} ELSE v.group
           r == [rt_schedule_remove_thread(v, t) EXCEPT !.stat[t] = s]
<1>1. p \in Priority /\ v.table[p] \in Seq(Thread) BY DEF KState
<1>2. /\ list \in Seq(Thread) /\ NoTwice(list)
      /\ \A u : In(list, u) <=> In(v.table[p], u) /\ u # t
  BY <1>1, WithoutProperties DEF ReadyLists
<1>3. r = [v EXCEPT !.table[p] = list, !.group = group, !.stat[t] = s]
  BY DEF rt_schedule_remove_thread
<1> HIDE DEF list, group, p, r
<1>4. group \subseteq Priority BY DEF KState, group
<1>5. r \in KState BY <1>1, <1>2, <1>3, <1>4 DEF KState
<1>6. /\ r.stat = [v.stat EXCEPT ![t] = s] /\ r.table = [v.table EXCEPT ![p] = list]
      /\ r.group = group
      /\ r.current = v.current /\ r.priority = v.priority /\ r.lock = v.lock
      /\ r.tick = v.tick /\ r.timers = v.timers
  BY <1>3 DEF KState
<1>7. ReadyLists(r)
  <2>1. ASSUME NEW q \in Priority, q # p
        PROVE  /\ NoTwice(r.table[q])
               /\ q \in r.group <=> r.table[q] # <<>>
               /\ \A u \in Thread : In(r.table[q], u) <=> r.stat[u] = "READY" /\ r.priority[u] = q
    <3>1. r.table[q] = v.table[q] /\ (q \in r.group <=> q \in v.group)
      BY <1>6, <2>1 DEF KState, group
    <3>2. \A u \in Thread : r.stat[u] = "READY" /\ r.priority[u] = q
                              <=> v.stat[u] = "READY" /\ v.priority[u] = q
      BY <1>6, <2>1 DEF KState, p
    <3>3. QED BY <3>1, <3>2 DEF ReadyLists
  <2>2. /\ NoTwice(r.table[p])
        /\ \A u \in Thread : In(r.table[p], u) <=> r.stat[u] = "READY" /\ r.priority[u] = p
    <3>1. r.table[p] = list BY <1>1, <1>6 DEF KState
    <3>2. \A u \in Thread : r.stat[u] = "READY" /\ r.priority[u] = p
                              <=> v.stat[u] = "READY" /\ v.priority[u] = p /\ u # t
      BY <1>6 DEF KState
    <3>3. QED BY <1>1, <1>2, <3>1, <3>2 DEF ReadyLists
  <2>3. p \in r.group <=> r.table[p] # <<>>
    <3>1. r.table[p] = list BY <1>1, <1>6 DEF KState
    <3>2. list # <<>> => v.table[p] # <<>> BY <1>1, <1>2, EmptyOrHead
    <3>3. list # <<>> => p \in v.group BY <1>1, <3>2 DEF ReadyLists
    <3>4. QED BY <1>6, <3>1, <3>3 DEF group
  <2>4. QED BY <2>1, <2>2, <2>3 DEF ReadyLists
<1>8. Rest(r) = Rest(v) BY <1>6 DEF Rest
<1>9. QED BY <1>5, <1>6, <1>7, <1>8 DEF r

\* A thread that is neither ready nor current joins its ready list.
LEMMA Join ==
  ASSUME NEW v \in KState, ReadyLists(v), NEW t \in Thread,
         v.stat[t] # "READY", t # v.current
  PROVE  LET r == rt_schedule_insert_thread(v, t)
         IN /\ r \in KState /\ ReadyLists(r)
            /\ r.stat = [v.stat EXCEPT ![t] = "READY"]
            /\ r.current = v.current /\ Rest(r) = Rest(v)
<1> DEFINE p == v.priority[t]
           list == Append(v.table[p], t)
           r == rt_schedule_insert_thread(v, t)
<1>1. p \in Priority /\ v.table[p] \in Seq(Thread) BY DEF KState
<1>2. ~In(v.table[p], t) BY <1>1 DEF ReadyLists
<1>3. /\ list \in Seq(Thread) /\ NoTwice(list) /\ list # <<>>
      /\ \A u : In(list, u) <=> In(v.table[p], u) \/ u = t
  BY <1>1, <1>2, AppendMembers DEF ReadyLists
<1>4. r = [v EXCEPT !.stat[t] = "READY", !.table[p] = list, !.group = v.group \cup {p}]
  BY DEF rt_schedule_insert_thread
<1> HIDE DEF list, p, r
<1>5. r \in KState BY <1>1, <1>3, <1>4 DEF KState, Stat
<1>6. /\ r.stat = [v.stat EXCEPT ![t] = "READY"] /\ r.table = [v.table EXCEPT ![p] = list]
      /\ r.group = v.group \cup {p}
      /\ r.current = v.current /\ r.priority = v.priority /\ r.lock = v.lock
      /\ r.tick = v.tick /\ r.timers = v.timers
  BY <1>4 DEF KState
<1>7. ReadyLists(r)
  <2>1. ASSUME NEW q \in Priority, q # p
        PROVE  /\ NoTwice(r.table[q])
               /\ q \in r.group <=> r.table[q] # <<>>
               /\ \A u \in Thread : In(r.table[q], u) <=> r.stat[u] = "READY" /\ r.priority[u] = q
    <3>1. r.table[q] = v.table[q] /\ (q \in r.group <=> q \in v.group)
      BY <1>6, <2>1 DEF KState
    <3>2. \A u \in Thread : r.stat[u] = "READY" /\ r.priority[u] = q
                              <=> v.stat[u] = "READY" /\ v.priority[u] = q
      BY <1>6, <2>1 DEF KState, p
    <3>3. QED BY <3>1, <3>2 DEF ReadyLists
  <2>2. r.table[p] = list BY <1>1, <1>6 DEF KState
  <2>3. \A u \in Thread : r.stat[u] = "READY" /\ r.priority[u] = p
                            <=> (v.stat[u] = "READY" /\ v.priority[u] = p) \/ u = t
    BY <1>6 DEF KState, p
  <2>4. \A u \in Thread : In(r.table[p], u) <=> r.stat[u] = "READY" /\ r.priority[u] = p
    BY <1>1, <1>3, <2>2, <2>3 DEF ReadyLists
  <2>5. NoTwice(r.table[p]) /\ p \in r.group /\ r.table[p] # <<>> BY <1>3, <1>6, <2>2
  <2>6. QED BY <2>1, <2>4, <2>5 DEF ReadyLists
<1>8. Rest(r) = Rest(v) BY <1>6 DEF Rest
<1>9. QED BY <1>5, <1>6, <1>7, <1>8 DEF r

\* The current thread, resumed before it has switched away, goes on.
LEMMA GoesOn ==
  ASSUME NEW v \in KState, ReadyLists(v), v.stat[v.current] # "READY"
  PROVE  LET r == rt_schedule_insert_thread(v, v.current)
         IN /\ r \in KState /\ ReadyLists(r)
            /\ r.stat = [v.stat EXCEPT ![v.current] = "RUNNING"]
            /\ r.current = v.current /\ Rest(r) = Rest(v)
<1> DEFINE r == rt_schedule_insert_thread(v, v.current)
<1>1. r = [v EXCEPT !.stat[v.current] = "RUNNING"] BY DEF rt_schedule_insert_thread
<1> HIDE DEF r
<1>2. r \in KState BY <1>1 DEF KState, Stat
<1>3. /\ r.stat = [v.stat EXCEPT ![v.current] = "RUNNING"]
      /\ r.table = v.table /\ r.group = v.group
      /\ r.current = v.current /\ r.priority = v.priority /\ r.lock = v.lock
      /\ r.tick = v.tick /\ r.timers = v.timers
  BY <1>1 DEF KState
<1>4. \A u \in Thread : r.stat[u] = "READY" <=> v.stat[u] = "READY" BY <1>3 DEF KState
<1>5. ReadyLists(r) BY <1>3, <1>4 DEF ReadyLists
<1>6. QED BY <1>2, <1>3, <1>5 DEF Rest, r

-----------------------------------------------------------------------------
(***************************************************************************)
(* The timers' operations.                                                 *)
(***************************************************************************)
Sleeps(v, t) == In(ThreadsOf(v.timers), t)

\* What the timers' operations leave alone.
AllButTimers(v) == <<v.current, v.stat, v.priority, v.table, v.group, v.lock, v.tick>>

\* Stopping a timer takes it, and no other, from the list.
LEMMA Stop ==
  ASSUME NEW v \in KState, NoTwice(ThreadsOf(v.timers)), NEW t \in Thread
  PROVE  LET r == rt_timer_stop(v, t)
         IN /\ r \in KState /\ NoTwice(ThreadsOf(r.timers))
            /\ \A u : Sleeps(r, u) <=> Sleeps(v, u) /\ u # t
            /\ AllButTimers(r) = AllButTimers(v)
<1> DEFINE l == v.timers
           r == rt_timer_stop(v, t)
           at == CHOOSE i \in 1 .. Len(l) : l[i].thread = t
<1>1. /\ l \in Timers /\ Len(l) \in Nat /\ Len(ThreadsOf(l)) = Len(l)
      /\ \A i \in 1 .. Len(l) : ThreadsOf(l)[i] = l[i].thread
  BY ThreadsOfProperties DEF KState
<1>2. CASE \E i \in 1 .. Len(l) : l[i].thread = t
  <2>1. at \in 1 .. Len(l) /\ l[at].thread = t BY <1>2
  <2>2. r = [v EXCEPT !.timers = WithoutAt(l, at)] BY <1>2 DEF rt_timer_stop
  <2> HIDE DEF at, r, l
  <2>3. /\ WithoutAt(l, at) \in Timers /\ NoTwice(ThreadsOf(WithoutAt(l, at)))
        /\ \A u : In(ThreadsOf(WithoutAt(l, at)), u) <=> In(ThreadsOf(l), u) /\ u # t
    BY <1>1, <2>1, TimerTaken DEF l
  <2>4. /\ r \in KState /\ r.timers = WithoutAt(l, at)
        /\ AllButTimers(r) = AllButTimers(v)
    BY <2>2, <2>3 DEF KState, AllButTimers
  <2>5. QED BY <2>3, <2>4 DEF Sleeps, l, r
<1>3. CASE ~ \E i \in 1 .. Len(l) : l[i].thread = t
  <2>1. r = v BY <1>3 DEF rt_timer_stop
  <2>2. ~Sleeps(v, t) BY <1>1, <1>3 DEF Sleeps, In
  <2>3. QED BY <2>1, <2>2
<1>4. QED BY <1>2, <1>3

\* There is nothing to stop of a thread that does not sleep.
LEMMA StopNothing ==
  ASSUME NEW v \in KState, NEW t \in Thread, ~Sleeps(v, t)
  PROVE  rt_timer_stop(v, t) = v
<1>1. /\ Len(ThreadsOf(v.timers)) = Len(v.timers)
      /\ \A i \in 1 .. Len(v.timers) : ThreadsOf(v.timers)[i] = v.timers[i].thread
  BY ThreadsOfProperties DEF KState
<1>2. ~ \E i \in 1 .. Len(v.timers) : v.timers[i].thread = t BY <1>1 DEF Sleeps, In
<1>3. QED BY <1>2 DEF rt_timer_stop

\* Setting a timer puts it into the list once.
LEMMA Start ==
  ASSUME NEW v \in KState, NoTwice(ThreadsOf(v.timers)), NEW t \in Thread, NEW n \in Nat
  PROVE  LET r == rt_timer_start(v, t, n)
         IN /\ r \in KState /\ NoTwice(ThreadsOf(r.timers))
            /\ \A u : Sleeps(r, u) <=> Sleeps(v, u) \/ u = t
            /\ AllButTimers(r) = AllButTimers(v)
<1> DEFINE s == rt_timer_stop(v, t)
           l == s.timers
           due == (v.tick + n) % Ticks
           later == {i \in 1 .. Len(l) : l[i].due # due /\ NotBefore(l[i].due, due)}
           at == IF later = {} THEN Len(l) + 1 ELSE Min(later)
           x == Timer(t, due)
           r == rt_timer_start(v, t, n)
<1>1. /\ s \in KState /\ NoTwice(ThreadsOf(l))
      /\ \A u : Sleeps(s, u) <=> Sleeps(v, u) /\ u # t
      /\ AllButTimers(s) = AllButTimers(v)
  BY Stop
<1>2. r = [s EXCEPT !.timers = Inserted(l, at, x)] BY DEF rt_timer_start, Inserted
<1>3. due \in Tick
  <2>1. v.tick + n \in Int /\ Ticks \in Nat /\ Ticks >= 5 BY SchedulerAssumption DEF KState, Tick, RT_TICK_MAX
  <2>2. due \in 0 .. Ticks - 1 BY <2>1
  <2>3. QED BY <2>2 DEF Tick, RT_TICK_MAX
<1>4. x \in [thread : Thread, due : Tick] /\ x.thread = t BY <1>3 DEF Timer
<1>5. l \in Timers /\ Len(l) \in Nat
  <2>1. l \in Timers BY <1>1 DEF KState
  <2>2. QED BY <2>1, ThreadsOfProperties
<1>6. at \in 1 .. Len(l) + 1
  <2>1. CASE later = {} BY <1>5, <2>1
  <2>2. CASE later # {}
    <3>1. later \subseteq 1 .. Len(l) /\ later \subseteq Nat BY <1>5
    <3> HIDE DEF later
    <3>2. Min(later) \in later BY <2>2, <3>1, MinExists
    <3>3. at = Min(later) /\ Min(later) \in 1 .. Len(l) BY <2>2, <3>1, <3>2
    <3> HIDE DEF at
    <3>4. QED BY <1>5, <3>3
  <2>3. QED BY <2>1, <2>2
<1>7. ~In(ThreadsOf(l), t) BY <1>1 DEF Sleeps
<1> HIDE DEF s, due, at, x, r
<1>8. /\ Inserted(l, at, x) \in Timers /\ NoTwice(ThreadsOf(Inserted(l, at, x)))
      /\ \A u : In(ThreadsOf(Inserted(l, at, x)), u) <=> In(ThreadsOf(l), u) \/ u = t
  BY <1>1, <1>4, <1>5, <1>6, <1>7, TimerInserted
<1>9. /\ r \in KState /\ r.timers = Inserted(l, at, x)
      /\ AllButTimers(r) = AllButTimers(s)
  BY <1>1, <1>2, <1>8 DEF KState, AllButTimers
<1>10. QED BY <1>1, <1>8, <1>9 DEF Sleeps, r

-----------------------------------------------------------------------------
(***************************************************************************)
(* rt_schedule.                                                            *)
(***************************************************************************)
\* A thread given by the bitmap is ready, and not the current one.
LEMMA HeadIsReady ==
  ASSUME NEW v \in KState, ReadyLists(v), CurrentOnly(v), v.group # {}
  PROVE  LET to == Head(v.table[HighestReady(v)])
         IN to \in Thread /\ v.stat[to] = "READY" /\ to # v.current
<1> DEFINE h == HighestReady(v)
<1>1. h \in v.group /\ h \in Priority
  <2>1. v.group \subseteq Nat /\ v.group \subseteq Priority BY SchedulerAssumption DEF KState
  <2>2. QED BY <2>1, MinExists DEF HighestReady
<1> HIDE DEF h
<1>2. v.table[h] \in Seq(Thread) /\ v.table[h] # <<>> BY <1>1 DEF KState, ReadyLists
<1>3. Head(v.table[h]) \in Thread /\ In(v.table[h], Head(v.table[h])) BY <1>2, EmptyOrHead
<1>4. QED BY <1>1, <1>3 DEF ReadyLists, CurrentOnly, h

\* It keeps the lists, touches only the threads that compete for the processor,
\* and gives it to one that runs, if there was any other to give it to.
LEMMA ScheduleLemma ==
  ASSUME NEW v \in KState, ReadyLists(v), CurrentOnly(v)
  PROVE  LET r == rt_schedule(v)
         IN /\ r \in KState /\ ReadyLists(r) /\ CurrentOnly(r) /\ Rest(r) = Rest(v)
            /\ \A t \in Thread : IF v.stat[t] \in {"READY", "RUNNING"}
                                 THEN r.stat[t] \in {"READY", "RUNNING"}
                                 ELSE r.stat[t] = v.stat[t]
            /\ r.current = v.current \/ v.stat[r.current] = "READY"
            /\ v.lock # 0 => r = v
            /\ v.lock = 0 /\ v.group # {} => r.stat[r.current] = "RUNNING"
<1> DEFINE r == rt_schedule(v)
           c == v.current
           to == Head(v.table[HighestReady(v)])
<1>1. CASE v.lock # 0 \/ v.group = {}
  <2>1. r = v BY <1>1 DEF rt_schedule
  <2>2. QED BY <1>1, <2>1
<1>2. CASE ~(v.lock # 0 \/ v.group = {}) /\ KeepsProcessor(v)
  <2>1. r = [rt_schedule_remove_thread(v, c) EXCEPT !.stat[c] = "RUNNING"]
    BY <1>2, Zenon DEF rt_schedule
  <2>2. c \in Thread /\ v.stat[c] = "RUNNING" BY <1>2 DEF KState, KeepsProcessor
  <2> HIDE DEF r
  <2>3. /\ r \in KState /\ ReadyLists(r) /\ r.stat = [v.stat EXCEPT ![c] = "RUNNING"]
        /\ r.current = c /\ Rest(r) = Rest(v)
    BY <2>1, <2>2, Leave DEF Stat
  <2>4. r.stat = v.stat BY <2>2, <2>3 DEF KState
  <2>5. CurrentOnly(r) BY <2>3, <2>4 DEF CurrentOnly
  <2>6. QED BY <1>2, <2>2, <2>3, <2>4, <2>5 DEF r
<1>3. CASE ~(v.lock # 0 \/ v.group = {}) /\ ~KeepsProcessor(v)
  <2> DEFINE k1 == [v EXCEPT !.current = to]
             k2 == IF NeedInsertFromThread(v) THEN rt_schedule_insert_thread(k1, c) ELSE k1
  <2>1. r = [rt_schedule_remove_thread(k2, to) EXCEPT !.stat[to] = "RUNNING"]
    BY <1>3, Zenon DEF rt_schedule, SwitchThread
  <2>2. to \in Thread /\ v.stat[to] = "READY" /\ to # c BY <1>3, HeadIsReady
  <2> HIDE DEF r, to
  <2>3. /\ k1 \in KState /\ ReadyLists(k1) /\ k1.current = to /\ k1.stat = v.stat
        /\ Rest(k1) = Rest(v)
    BY <2>2 DEF KState, ReadyLists, Rest
  <2> HIDE DEF k1
  <2>4. /\ k2 \in KState /\ ReadyLists(k2) /\ k2.current = to /\ Rest(k2) = Rest(v)
        /\ k2.stat = IF v.stat[c] = "RUNNING" THEN [v.stat EXCEPT ![c] = "READY"] ELSE v.stat
    <3>1. CASE v.stat[c] = "RUNNING"
      <4>1. c \in Thread /\ k1.stat[c] # "READY" /\ c # k1.current
        BY <2>2, <2>3, <3>1 DEF KState
      <4>2. k2 = rt_schedule_insert_thread(k1, c) BY <3>1 DEF NeedInsertFromThread
      <4> HIDE DEF k2
      <4>3. QED BY <2>3, <3>1, <4>1, <4>2, Join
    <3>2. CASE v.stat[c] # "RUNNING"
      <4>1. k2 = k1 BY <3>2 DEF NeedInsertFromThread
      <4>2. QED BY <2>3, <3>2, <4>1
    <3>3. QED BY <3>1, <3>2
  <2> HIDE DEF k2
  <2>5. /\ r \in KState /\ ReadyLists(r) /\ r.stat = [k2.stat EXCEPT ![to] = "RUNNING"]
        /\ r.current = to /\ Rest(r) = Rest(v)
    <3>1. "RUNNING" \in Stat /\ "RUNNING" # "READY" BY DEF Stat
    <3> DEFINE q == [rt_schedule_remove_thread(k2, to) EXCEPT !.stat[to] = "RUNNING"]
    <3>2. /\ q \in KState /\ ReadyLists(q) /\ q.stat = [k2.stat EXCEPT ![to] = "RUNNING"]
          /\ q.current = k2.current /\ Rest(q) = Rest(k2)
      BY <2>2, <2>4, <3>1, Leave, SMTT(20)
    <3> HIDE DEF q
    <3>3. r = q BY <2>1 DEF q
    <3>4. QED BY <2>4, <3>2, <3>3
  <2>6. r.stat[to] = "RUNNING" BY <2>2, <2>4, <2>5 DEF KState
  <2>7. \A t \in Thread : IF v.stat[t] \in {"READY", "RUNNING"}
                          THEN r.stat[t] \in {"READY", "RUNNING"}
                          ELSE r.stat[t] = v.stat[t]
    <3>1. /\ \A t \in Thread : t # c => k2.stat[t] = v.stat[t]
          /\ c \in Thread /\ k2.stat[c] = IF v.stat[c] = "RUNNING" THEN "READY" ELSE v.stat[c]
      BY <2>4 DEF KState
    <3>2. \A t \in Thread : t # to => r.stat[t] = k2.stat[t] BY <2>4, <2>5 DEF KState
    <3>3. QED BY <2>2, <2>6, <3>1, <3>2
  <2>8. \A t \in Thread : r.stat[t] = "RUNNING" => t = to
    BY <2>2, <2>4, <2>5 DEF KState, CurrentOnly
  <2>9. CurrentOnly(r) BY <2>5, <2>6, <2>8 DEF CurrentOnly
  <2>10. QED BY <1>3, <2>2, <2>5, <2>6, <2>7, <2>9 DEF r
<1>4. QED BY <1>1, <1>2, <1>3

\* The current thread is less urgent than one that is ready.
Below(r) == r.group # {} /\ r.priority[r.current] > HighestReady(r)

\* The bitmap's first priority is the least, and in use.
LEMMA Highest ==
  ASSUME NEW r \in KState, r.group # {}
  PROVE  /\ HighestReady(r) \in r.group /\ HighestReady(r) \in Priority
         /\ HighestReady(r) \in Nat
         /\ \A p \in r.group : p \in Nat /\ HighestReady(r) <= p
<1>1. r.group \subseteq Nat /\ r.group \subseteq Priority BY SchedulerAssumption DEF KState
<1>2. QED BY <1>1, MinExists DEF HighestReady

\* After rt_schedule no thread that is ready is more urgent than the current one.
LEMMA ScheduleHighest ==
  ASSUME NEW r \in KState, ReadyLists(r), CurrentOnly(r), r.lock = 0
  PROVE  ~Below(rt_schedule(r))
<1> DEFINE s == rt_schedule(r)
           c == r.current
           h == HighestReady(r)
           to == Head(r.table[h])
<1>0. r \in KState /\ ReadyLists(r) /\ CurrentOnly(r) /\ r.lock = 0 /\ c \in Thread
  BY DEF KState
<1>1. CASE r.group = {} BY <1>1 DEF rt_schedule, Below
<1>2. CASE r.group # {}
  <2>1. /\ h \in r.group /\ h \in Priority /\ h \in Nat
        /\ \A p \in r.group : p \in Nat /\ h <= p
    BY <1>0, <1>2, Highest
  <2>2. to \in Thread /\ r.stat[to] = "READY" /\ to # c BY <1>0, <1>2, HeadIsReady
  <2>3. r.priority[to] = h
    <3>1. r.table[h] \in Seq(Thread) /\ r.table[h] # <<>>
      BY <1>0, <2>1 DEF KState, ReadyLists
    <3>2. In(r.table[h], to) BY <3>1, EmptyOrHead
    <3>3. QED BY <1>0, <2>1, <2>2, <3>2 DEF ReadyLists
  <2>4. /\ s \in KState /\ Rest(s) = Rest(r) BY <1>0, ScheduleLemma
  <2>5. s.priority = r.priority BY <2>4 DEF Rest
  <2>6. ASSUME s.current = c, r.priority[c] < h, s.group \subseteq r.group
        PROVE  ~Below(s)
    <3>1. s.group # {} => HighestReady(s) \in Nat /\ h <= HighestReady(s)
      BY <2>1, <2>4, <2>6, Highest
    <3>2. r.priority[c] \in Nat BY <1>0, SchedulerAssumption DEF KState
    <3> HIDE DEF s, h, c
    <3>3. QED BY <2>1, <2>5, <2>6, <3>1, <3>2 DEF Below
  <2>7. ASSUME s.current = to, \A p \in s.group : h <= p
        PROVE  ~Below(s)
    <3>1. s.group # {} => HighestReady(s) \in Nat /\ h <= HighestReady(s)
      BY <2>4, <2>7, Highest
    <3> HIDE DEF s, h, to
    <3>3. QED BY <2>1, <2>3, <2>5, <2>7, <3>1 DEF Below
  <2>8. CASE KeepsProcessor(r)
    <3>1. s = [rt_schedule_remove_thread(r, c) EXCEPT !.stat[c] = "RUNNING"]
      BY <1>0, <1>2, <2>8, Zenon DEF rt_schedule
    <3>2. r.priority[c] < h BY <2>8 DEF KeepsProcessor
    <3>3. s.current = c /\ s.group \subseteq r.group
      BY <1>0, <3>1 DEF rt_schedule_remove_thread, KState
    <3>4. QED BY <2>6, <3>2, <3>3
  <2>9. CASE ~KeepsProcessor(r)
    <3> DEFINE k1 == [r EXCEPT !.current = to]
               k2 == IF NeedInsertFromThread(r) THEN rt_schedule_insert_thread(k1, c) ELSE k1
    <3>1. s = [rt_schedule_remove_thread(k2, to) EXCEPT !.stat[to] = "RUNNING"]
      BY <1>0, <1>2, <2>9, Zenon DEF rt_schedule, SwitchThread
    <3> HIDE DEF to, s, h
    <3>2. k1 \in KState /\ k1.current = to /\ k1.group = r.group /\ k1.priority = r.priority
      BY <1>0, <2>2 DEF KState
    <3> HIDE DEF k1
    <3>3. /\ k2.current = to
          /\ \A p \in k2.group : p \in r.group \/ (p = r.priority[c] /\ r.stat[c] = "RUNNING")
      <4>1. CASE NeedInsertFromThread(r)
        <5>1. k2 = [k1 EXCEPT !.stat[c] = "READY",
                              !.table[k1.priority[c]] = Append(k1.table[k1.priority[c]], c),
                              !.group = k1.group \cup {k1.priority[c]}]
          BY <2>2, <3>2, <4>1 DEF rt_schedule_insert_thread
        <5>2. k2.current = to /\ k2.group = r.group \cup {r.priority[c]} BY <3>2, <5>1 DEF KState
        <5>3. QED BY <4>1, <5>2 DEF NeedInsertFromThread
      <4>2. CASE ~NeedInsertFromThread(r) BY <3>2, <4>2
      <4>3. QED BY <4>1, <4>2
    <3>4. s.current = to /\ s.group \subseteq k2.group
      BY <3>1, <3>3 DEF rt_schedule_remove_thread
    <3>5. r.stat[c] = "RUNNING" => h <= r.priority[c]
      <4>1. r.priority[c] \in Nat BY <1>0, SchedulerAssumption DEF KState
      <4>2. QED BY <2>1, <2>9, <4>1 DEF KeepsProcessor, h
    <3>6. \A p \in s.group : h <= p BY <2>1, <3>3, <3>4, <3>5
    <3>7. QED BY <2>7, <3>4, <3>6 DEF s, h, to
  <2>10. QED BY <2>8, <2>9
<1>3. QED BY <1>1, <1>2

-----------------------------------------------------------------------------
(***************************************************************************)
(* The kernel's state.                                                     *)
(***************************************************************************)
\* Every thread is where its state says, ready lists and timers.
Sound(r) == /\ r \in KState
            /\ ReadyLists(r) /\ CurrentOnly(r)
            /\ NoTwice(ThreadsOf(r.timers))
            /\ \A t \in Thread : Sleeps(r, t) <=> r.stat[t] = "SUSPEND"
            /\ r.stat[Idle] \in {"READY", "RUNNING"}

\* A step starts no thread and ends none, gives the processor to none that is not
\* started or has ended, and no thread another priority.
Respects(r, s) == /\ s.priority = r.priority
                  /\ \A t \in Thread : IF r.stat[t] \in {"INIT", "CLOSE"} THEN s.stat[t] = r.stat[t]
                                       ELSE s.stat[t] \notin {"INIT", "CLOSE"}
                  /\ s.current = r.current \/ r.stat[s.current] \notin {"INIT", "CLOSE"}

\* rt_schedule keeps the state sound and, unless it is locked, leaves a thread
\* running: idle is ready when no other is.
LEMMA ScheduleSound ==
  ASSUME NEW r, Sound(r)
  PROVE  LET s == rt_schedule(r)
         IN /\ Sound(s) /\ Respects(r, s) /\ s.lock = r.lock
            /\ r.lock # 0 => s = r
            /\ r.lock = 0 => s.stat[s.current] = "RUNNING"
<1> DEFINE s == rt_schedule(r)
<1>1. /\ r \in KState /\ ReadyLists(r) /\ CurrentOnly(r) BY DEF Sound
<1>2. /\ s \in KState /\ ReadyLists(s) /\ CurrentOnly(s) /\ Rest(s) = Rest(r)
      /\ \A t \in Thread : IF r.stat[t] \in {"READY", "RUNNING"}
                           THEN s.stat[t] \in {"READY", "RUNNING"}
                           ELSE s.stat[t] = r.stat[t]
      /\ s.current = r.current \/ r.stat[s.current] = "READY"
      /\ r.lock # 0 => s = r
      /\ r.lock = 0 /\ r.group # {} => s.stat[s.current] = "RUNNING"
  BY <1>1, ScheduleLemma
<1>3. r.lock = 0 /\ r.group = {} => s = r BY DEF rt_schedule
<1> HIDE DEF s
<1>4. s.timers = r.timers /\ s.lock = r.lock BY <1>2 DEF Rest
<1>5. Idle \in Thread BY KernelAssumption
<1>6. Sound(s) BY <1>2, <1>4, <1>5 DEF Sound, Sleeps
<1>7. Respects(r, s) BY <1>2 DEF Respects, Rest
<1>8. r.group = {} => r.stat[r.current] = "RUNNING"
  <2>1. r.stat[Idle] = "READY" => r.group # {}
    <3>1. r.priority[Idle] \in Priority /\ r.table[r.priority[Idle]] \in Seq(Thread)
      BY <1>1, <1>5 DEF KState
    <3>2. r.stat[Idle] = "READY" => In(r.table[r.priority[Idle]], Idle)
      BY <1>1, <1>5, <3>1 DEF ReadyLists
    <3>3. r.stat[Idle] = "READY" => r.table[r.priority[Idle]] # <<>>
      BY <3>1, <3>2, <1>5, EmptyOrHead
    <3>4. QED BY <1>1, <3>1, <3>3 DEF ReadyLists
  <2>2. r.stat[Idle] = "RUNNING" => Idle = r.current BY <1>1, <1>5 DEF CurrentOnly
  <2>3. QED BY <2>1, <2>2 DEF Sound
<1>9. QED BY <1>2, <1>3, <1>4, <1>6, <1>7, <1>8 DEF s

\* The current thread runs, and is more urgent than every other that is ready or may wake.
Unrivalled(r) == /\ r.stat[r.current] = "RUNNING"
                 /\ \A t \in Thread : r.stat[t] \in {"READY", "SUSPEND"}
                                      => r.priority[r.current] < r.priority[t]

\* It then goes on.
LEMMA ScheduleKeeps ==
  ASSUME NEW r, Sound(r), Unrivalled(r)
  PROVE  rt_schedule(r).current = r.current
<1> DEFINE c == r.current
           h == HighestReady(r)
<1>1. r \in KState /\ ReadyLists(r) BY DEF Sound
<1>2. CASE r.lock # 0 \/ r.group = {} BY <1>2 DEF rt_schedule
<1>3. CASE ~(r.lock # 0 \/ r.group = {})
  <2>1. h \in r.group /\ h \in Priority
    <3>1. r.group \subseteq Nat /\ r.group \subseteq Priority
      BY <1>1, SchedulerAssumption DEF KState
    <3>2. QED BY <1>3, <3>1, MinExists DEF HighestReady
  <2> HIDE DEF h
  <2>2. r.table[h] \in Seq(Thread) /\ r.table[h] # <<>> BY <1>1, <2>1 DEF KState, ReadyLists
  <2>3. PICK t \in Thread : r.stat[t] = "READY" /\ r.priority[t] = h
    BY <1>1, <2>1, <2>2, EmptyOrHead DEF ReadyLists
  <2>4. KeepsProcessor(r) BY <2>3 DEF Unrivalled, KeepsProcessor, h
  <2>5. rt_schedule(r) = [rt_schedule_remove_thread(r, c) EXCEPT !.stat[c] = "RUNNING"]
    BY <1>3, <2>4, Zenon DEF rt_schedule
  <2>6. c \in Thread BY <1>1 DEF KState
  <2> DEFINE s == [rt_schedule_remove_thread(r, c) EXCEPT !.stat[c] = "RUNNING"]
  <2>7. s.current = c BY <1>1, <2>6, Leave DEF Stat
  <2>8. QED BY <2>5, <2>7
<1>4. QED BY <1>2, <1>3

\* The expiry of a sleeper's timer wakes it, which may be the current thread still
\* on its way to rt_schedule.
LEMMA TimeoutSound ==
  ASSUME NEW r, Sound(r), NEW t \in Thread, Sleeps(r, t)
  PROVE  LET s == rt_thread_timeout(r, t)
         IN /\ Sound(s) /\ Respects(r, s) /\ s.lock = r.lock
            /\ r.lock = 0 => s.stat[s.current] = "RUNNING"
            /\ r.lock # 0 /\ r.stat[r.current] = "RUNNING" => s.stat[s.current] = "RUNNING"
            /\ Unrivalled(r) => s.current = r.current
            /\ IF r.lock = 0 THEN ~Below(s) ELSE s.current = r.current
            /\ s.timers = rt_timer_stop(r, t).timers /\ s.tick = r.tick
<1> DEFINE a == rt_timer_stop(r, t)
           b == rt_schedule_insert_thread(a, t)
           s == rt_thread_timeout(r, t)
<1>1. /\ a \in KState /\ NoTwice(ThreadsOf(a.timers))
      /\ \A u : Sleeps(a, u) <=> Sleeps(r, u) /\ u # t
      /\ AllButTimers(a) = AllButTimers(r)
  BY Stop DEF Sound
<1> HIDE DEF a
<1>2. ReadyLists(a) /\ a.stat[a.current] # "READY" /\ a.stat[t] = "SUSPEND"
  BY <1>1 DEF Sound, ReadyLists, CurrentOnly, AllButTimers
<1>3. Idle \in Thread /\ Idle # t BY KernelAssumption DEF Sound
<1>4. /\ b \in KState /\ ReadyLists(b) /\ b.current = a.current /\ Rest(b) = Rest(a)
      /\ b.stat = [a.stat EXCEPT ![t] = IF t = a.current THEN "RUNNING" ELSE "READY"]
  <2>1. CASE t = a.current
    <3>1. b = rt_schedule_insert_thread(a, a.current) BY <2>1
    <3> HIDE DEF b
    <3>2. QED BY <1>1, <1>2, <2>1, <3>1, GoesOn
  <2>2. CASE t # a.current
    <3> HIDE DEF b
    <3>1. b = rt_schedule_insert_thread(a, t) BY DEF b
    <3>2. QED BY <1>1, <1>2, <2>2, <3>1, Join
  <2>3. QED BY <2>1, <2>2
<1>5. s = rt_schedule(b) BY DEF rt_thread_timeout, a
<1> HIDE DEF b, s
<1>6. /\ b.timers = a.timers /\ b.lock = r.lock /\ b.priority = r.priority
      /\ a.stat = r.stat /\ a.current = r.current
  BY <1>1, <1>4 DEF Rest, AllButTimers
<1>7. CurrentOnly(b) BY <1>1, <1>2, <1>4, <1>6 DEF Sound, CurrentOnly, KState
<1>8. \A u \in Thread : Sleeps(b, u) <=> b.stat[u] = "SUSPEND"
  <2>1. \A u \in Thread : Sleeps(b, u) <=> Sleeps(r, u) /\ u # t BY <1>1, <1>6 DEF Sleeps
  <2>2. \A u \in Thread : b.stat[u] = "SUSPEND" <=> r.stat[u] = "SUSPEND" /\ u # t
    BY <1>1, <1>4, <1>6 DEF KState
  <2>3. QED BY <2>1, <2>2 DEF Sound
<1>9. Sound(b)
  <2>1. b.stat[Idle] \in {"READY", "RUNNING"} BY <1>1, <1>3, <1>4, <1>6 DEF Sound, KState
  <2>2. QED BY <1>1, <1>4, <1>6, <1>7, <1>8, <2>1 DEF Sound
<1>10. /\ Sound(s) /\ Respects(b, s) /\ s.lock = b.lock
       /\ b.lock # 0 => s = b
       /\ b.lock = 0 => s.stat[s.current] = "RUNNING"
  BY <1>5, <1>9, ScheduleSound
<1>11. Respects(r, s)
  <2>1. \A u \in Thread : IF r.stat[u] \in {"INIT", "CLOSE"} THEN b.stat[u] = r.stat[u]
                           ELSE b.stat[u] \notin {"INIT", "CLOSE"}
    BY <1>1, <1>2, <1>4, <1>6 DEF KState
  <2>2. \A u \in Thread : IF b.stat[u] \in {"INIT", "CLOSE"} THEN s.stat[u] = b.stat[u]
                           ELSE s.stat[u] \notin {"INIT", "CLOSE"}
    BY <1>10 DEF Respects
  <2>3. s.current \in Thread BY <1>10 DEF Sound, KState
  <2>4. s.current = b.current \/ b.stat[s.current] \notin {"INIT", "CLOSE"}
    BY <1>10 DEF Respects
  <2>5. r.stat[t] = "SUSPEND" BY DEF Sound
  <2>6. s.priority = r.priority BY <1>6, <1>10 DEF Respects
  <2>7. QED BY <1>4, <1>6, <2>1, <2>2, <2>3, <2>4, <2>5, <2>6 DEF Respects
<1>12. r.stat[r.current] = "RUNNING" => b.stat[b.current] = "RUNNING"
  BY <1>1, <1>2, <1>4, <1>6 DEF KState
<1>13. Unrivalled(r) => s.current = r.current
  <2>1. \A u \in Thread : b.stat[u] \in {"READY", "SUSPEND"} => r.stat[u] \in {"READY", "SUSPEND"}
    BY <1>1, <1>2, <1>4, <1>6 DEF KState
  <2>2. Unrivalled(r) => Unrivalled(b) BY <1>4, <1>6, <1>12, <2>1 DEF Unrivalled
  <2>3. Unrivalled(r) => rt_schedule(b).current = b.current BY <1>9, <2>2, ScheduleKeeps
  <2>4. QED BY <1>4, <1>5, <1>6, <2>3
<1>14. IF r.lock = 0 THEN ~Below(s) ELSE s.current = r.current
  <2>1. CASE r.lock = 0 BY <1>5, <1>6, <1>9, <2>1, ScheduleHighest DEF Sound
  <2>2. CASE r.lock # 0 BY <1>4, <1>6, <1>10, <2>2
  <2>3. QED BY <2>1, <2>2
<1>15. s.timers = a.timers /\ s.tick = r.tick
  <2>1. Rest(s) = Rest(b) BY <1>5, <1>9, ScheduleLemma DEF Sound
  <2>2. QED BY <1>1, <1>4, <2>1 DEF Rest, AllButTimers
<1>16. QED BY <1>6, <1>10, <1>11, <1>12, <1>13, <1>14, <1>15 DEF s, a

-----------------------------------------------------------------------------
(***************************************************************************)
(* The inductive invariant.                                                *)
(***************************************************************************)
\* A current thread that does not run any more is on its way to rt_schedule, which
\* nothing locks.
RunsOrCalls == k.stat[k.current] # "RUNNING" => pc[k.current] = "schedule" /\ k.lock = 0

NotYetStarted == \A i \in started + 1 .. Len(StartOrder) : k.stat[StartOrder[i]] = "INIT"

EndedForEver == /\ \A t \in Thread : In(defunct, t) \/ t \in freed => k.stat[t] = "CLOSE"
                /\ k.current \notin freed

\* No thread but those of the model's starts ever leaves INIT, and none changes its
\* priority.
Origins == /\ k.priority = InitPriority
           /\ \A t \in Thread : k.stat[t] # "INIT" =>
                t \in {Main, Idle} \/ \E i \in 1 .. Len(StartOrder) : t = StartOrder[i]

IInv == TypeOK /\ Sound(k) /\ RunsOrCalls /\ NotYetStarted /\ EndedForEver /\ Origins

\* The lists tell the truth of a sound state.
LEMMA SoundLists == Sound(k) => ListsTellTheTruth
BY DEF Sound, ReadyLists, CurrentOnly, Sleeps, Sleepers, ListsTellTheTruth

\* No list leads to a thread that has ended.
LEMMA FreedLists == Sound(k) /\ TypeOK /\ EndedForEver => FreedIsOutOfUse
<1> SUFFICES ASSUME Sound(k), TypeOK, EndedForEver, NEW t \in freed
             PROVE  /\ k.stat[t] = "CLOSE" /\ k.current # t
                    /\ ~In(Sleepers, t) /\ \A p \in Priority : ~In(k.table[p], t)
  BY DEF FreedIsOutOfUse
<1>1. t \in Thread BY DEF TypeOK
<1>2. k.stat[t] = "CLOSE" /\ k.current # t BY <1>1 DEF EndedForEver
<1>3. QED BY <1>1, <1>2 DEF Sound, Sleeps, Sleepers, ReadyLists

\* The record of TypeOK, of which KState leaves the bound of lock open.
LEMMA KernelRecord ==
  ASSUME NEW r, r \in KState, r.lock \in 0 .. MaxNest
  PROVE  r \in [current : Thread, stat : [Thread -> Stat], priority : [Thread -> Priority],
                table : [Priority -> Seq(Thread)], group : SUBSET Priority,
                lock : 0 .. MaxNest, tick : Tick, timers : Seq([thread : Thread, due : Tick])]
BY DEF KState, Timers

\* The threads that main starts.
LEMMA ToBeStarted ==
  ASSUME TypeOK
  PROVE  /\ Len(StartOrder) \in Nat /\ started \in Nat /\ started \in 0 .. Len(StartOrder)
         /\ \A i \in 1 .. Len(StartOrder) : StartOrder[i] \in Thread \ {Main, Idle}
         /\ \A i \in started + 1 .. Len(StartOrder) : StartOrder[i] \in Thread \ {Main, Idle}
<1>1. StartOrder \in Seq(Thread \ {Main, Idle}) BY KernelAssumption
<1>2. Len(StartOrder) \in Nat BY <1>1
<1>3. \A i \in 1 .. Len(StartOrder) : StartOrder[i] \in Thread \ {Main, Idle} BY <1>1
<1>4. started \in Nat /\ started \in 0 .. Len(StartOrder) BY <1>2 DEF TypeOK
<1>5. started + 1 .. Len(StartOrder) \subseteq 1 .. Len(StartOrder) BY <1>2, <1>4
<1>6. QED BY <1>2, <1>3, <1>4, <1>5

\* The initial state.
LEMMA InitHolds == Init => IInv
<1> SUFFICES ASSUME Init
             PROVE  IInv
  OBVIOUS
<1> USE DEF Init
<1> DEFINE q == InitPriority[Idle]
<1>1. /\ Main \in Thread /\ Idle \in Thread /\ Main # Idle
      /\ InitPriority \in [Thread -> Priority] /\ q \in Priority
      /\ Slice \in [Thread -> Nat \ {0}]
      /\ StartOrder \in Seq(Thread \ {Main, Idle}) /\ Len(StartOrder) \in Nat
      /\ MaxNest \in Nat
  BY KernelAssumption
<1>2. k.timers = <<>> /\ <<>> \in Timers BY DEF Timers
<1>3. <<Idle>> \in Seq(Thread) /\ <<>> \in Seq(Thread) BY <1>1
<1>4. k.table = [p \in Priority |-> IF p = q THEN <<Idle>> ELSE <<>>] BY Zenon
<1>5. /\ k.current = Main /\ k.lock = 0 /\ k.tick = 0 /\ k.group = {q}
      /\ k.priority = InitPriority
      /\ k.stat = [t \in Thread |-> IF t = Main THEN "RUNNING"
                                    ELSE IF t = Idle THEN "READY" ELSE "INIT"]
  OBVIOUS
<1>6. k.stat \in [Thread -> Stat] BY <1>5 DEF Stat
<1>7. k.table \in [Priority -> Seq(Thread)] BY <1>3, <1>4
<1>8. 0 \in Tick BY SchedulerAssumption DEF Tick, RT_TICK_MAX
<1>9. k \in KState
  <2>1. k = [current |-> Main, stat |-> k.stat, priority |-> InitPriority,
             table |-> k.table, group |-> {q}, lock |-> 0, tick |-> 0, timers |-> <<>>]
    OBVIOUS
  <2>2. QED BY <1>1, <1>2, <1>6, <1>7, <1>8, <2>1 DEF KState
<1>10. ReadyLists(k)
  <2>1. ASSUME NEW p \in Priority, p # q
        PROVE  /\ NoTwice(k.table[p])
               /\ p \in k.group <=> k.table[p] # <<>>
               /\ \A t \in Thread : In(k.table[p], t) <=> k.stat[t] = "READY" /\ k.priority[t] = p
    <3>1. k.table[p] = <<>> /\ p \notin k.group BY <1>4, <1>5, <2>1
    <3>2. NoTwice(<<>>) /\ \A t : ~In(<<>>, t) BY DEF NoTwice, In
    <3>3. \A t \in Thread : k.stat[t] = "READY" => k.priority[t] = q BY <1>5
    <3>4. QED BY <2>1, <3>1, <3>2, <3>3
  <2>2. k.table[q] = <<Idle>> /\ <<Idle>> # <<>> /\ q \in k.group BY <1>1, <1>4, <1>5
  <2>3. NoTwice(<<Idle>>) /\ \A t : In(<<Idle>>, t) <=> t = Idle BY DEF NoTwice, In
  <2>4. \A t \in Thread : k.stat[t] = "READY" /\ k.priority[t] = q <=> t = Idle
    BY <1>1, <1>5
  <2>5. QED BY <2>1, <2>2, <2>3, <2>4 DEF ReadyLists
<1>11. CurrentOnly(k) BY <1>1, <1>5 DEF CurrentOnly
<1>12. /\ NoTwice(ThreadsOf(k.timers))
       /\ \A t \in Thread : ~Sleeps(k, t) /\ k.stat[t] # "SUSPEND"
  <2>1. Len(ThreadsOf(k.timers)) = 0 BY <1>2, ThreadsOfProperties
  <2>2. QED BY <1>5, <2>1 DEF NoTwice, Sleeps, In
<1>13. Sound(k) BY <1>1, <1>5, <1>9, <1>10, <1>11, <1>12 DEF Sound
<1>14. TypeOK
  <2>1. k.lock \in 0 .. MaxNest BY <1>1, <1>5
  <2>2. started \in 0 .. Len(StartOrder) BY <1>1
  <2>3. defunct \in Seq(Thread) /\ freed \subseteq Thread BY <1>1
  <2>4. /\ remaining \in [Thread -> Nat \ {0}] /\ isr \in BOOLEAN
        /\ pc \in [Thread -> {"user", "schedule", "gone"}]
    BY <1>1
  <2>5. QED BY <1>9, <2>1, <2>2, <2>3, <2>4, KernelRecord DEF TypeOK
<1>15. RunsOrCalls BY <1>1, <1>5 DEF RunsOrCalls
<1>16. NotYetStarted
  <2>1. \A i \in started + 1 .. Len(StartOrder) : StartOrder[i] \in Thread \ {Main, Idle}
    BY <1>1
  <2>2. QED BY <1>5, <2>1 DEF NotYetStarted
<1>17. EndedForEver BY <1>1, <1>5 DEF EndedForEver, In
<1>18. Origins BY <1>5 DEF Origins
<1>19. QED BY <1>13, <1>14, <1>15, <1>16, <1>17, <1>18 DEF IInv

\* What remains to be shown of a step that starts, ends and frees no thread.
LEMMA Frame ==
  ASSUME IInv, Sound(k'), Respects(k, k'), k'.lock \in 0 .. MaxNest, RunsOrCalls',
         remaining' \in [Thread -> Nat \ {0}], isr' \in BOOLEAN,
         pc' \in [Thread -> {"user", "schedule", "gone"}],
         UNCHANGED <<started, defunct, freed>>
  PROVE  IInv'
<1>1. TypeOK'
  <2>1. k' \in KState BY DEF Sound
  <2>2. QED BY <2>1, KernelRecord DEF IInv, TypeOK
<1>2. NotYetStarted'
  <2>1. \A i \in started + 1 .. Len(StartOrder) : StartOrder[i] \in Thread
    BY ToBeStarted DEF IInv
  <2>2. \A t \in Thread : k.stat[t] = "INIT" => k'.stat[t] = "INIT" BY DEF Respects
  <2>3. NotYetStarted /\ started' = started BY DEF IInv
  <2>4. QED BY <2>1, <2>2, <2>3 DEF NotYetStarted
<1>3. EndedForEver'
  <2>1. freed \subseteq Thread BY DEF IInv, TypeOK
  <2>2. /\ \A t \in Thread : k.stat[t] = "CLOSE" => k'.stat[t] = "CLOSE"
        /\ k'.current = k.current \/ k.stat[k'.current] # "CLOSE"
    BY DEF Respects
  <2>3. EndedForEver /\ defunct' = defunct /\ freed' = freed BY DEF IInv
  <2>4. QED BY <2>1, <2>2, <2>3 DEF EndedForEver
<1>4. Origins'
  <2>1. /\ k'.priority = k.priority
        /\ \A t \in Thread : k.stat[t] = "INIT" => k'.stat[t] = "INIT"
    BY DEF Respects
  <2>2. Origins BY DEF IInv
  <2>3. QED BY <2>1, <2>2 DEF Origins
<1>5. QED BY <1>1, <1>2, <1>3, <1>4 DEF IInv

-----------------------------------------------------------------------------
(***************************************************************************)
(* The steps of the tick interrupt.                                        *)
(***************************************************************************)
\* An unrivalled thread keeps the processor.
KeepsIt == Unrivalled(k) => k'.current = k.current /\ k'.stat[k'.current] = "RUNNING"

\* The end of a slice calls rt_schedule in the interrupt, whatever the current
\* thread was about to do.
LEMMA TickStep == IInv /\ rt_tick_increase => IInv' /\ KeepsIt
<1> SUFFICES ASSUME IInv, rt_tick_increase
             PROVE  IInv' /\ KeepsIt
  OBVIOUS
<1> DEFINE t == k.current
           k1 == [k EXCEPT !.tick = (k.tick + 1) % Ticks]
<1>1. k \in KState /\ t \in Thread /\ k.lock \in 0 .. MaxNest
  BY DEF IInv, Sound, KState, TypeOK
<1>2. (k.tick + 1) % Ticks \in Tick
  <2>1. k.tick + 1 \in Int /\ Ticks \in Nat /\ Ticks >= 5
    BY <1>1, SchedulerAssumption DEF KState, Tick, RT_TICK_MAX
  <2>2. (k.tick + 1) % Ticks \in 0 .. Ticks - 1 BY <2>1
  <2>3. QED BY <2>2 DEF Tick, RT_TICK_MAX
<1>3. /\ k1 \in KState /\ k1.current = k.current /\ k1.stat = k.stat
      /\ k1.priority = k.priority /\ k1.table = k.table /\ k1.group = k.group
      /\ k1.lock = k.lock /\ k1.timers = k.timers
  BY <1>1, <1>2 DEF KState
<1>4. k' = k1 \/ k' = rt_schedule(k1) BY DEF rt_tick_increase
<1>5. remaining' \in [Thread -> Nat \ {0}]
  <2>1. remaining \in [Thread -> Nat \ {0}] BY DEF IInv, TypeOK
  <2>2. Slice \in [Thread -> Nat \ {0}] BY KernelAssumption
  <2>3. CASE remaining[t] = 1
    <3>1. remaining' = [remaining EXCEPT ![t] = Slice[t]] BY <2>3 DEF rt_tick_increase
    <3>2. QED BY <1>1, <2>1, <2>2, <3>1
  <2>4. CASE remaining[t] # 1
    <3>1. remaining' = [remaining EXCEPT ![t] = @ - 1] BY <2>4 DEF rt_tick_increase
    <3>2. remaining[t] - 1 \in Nat \ {0} BY <1>1, <2>1, <2>4
    <3>3. QED BY <1>1, <2>1, <3>1, <3>2
  <2>5. QED BY <2>3, <2>4
<1> HIDE DEF k1
<1>6. Sound(k1) BY <1>3 DEF IInv, Sound, ReadyLists, CurrentOnly, Sleeps
<1>7. /\ Sound(k') /\ Respects(k1, k') /\ k'.lock = k.lock
      /\ k' = k1 \/ (k.lock = 0 /\ k'.stat[k'.current] = "RUNNING")
  <2>1. CASE k' = k1 BY <1>3, <1>6, <2>1 DEF Respects
  <2>2. CASE k' = rt_schedule(k1)
    <3> DEFINE s == rt_schedule(k1)
    <3>1. k' = s BY <2>2
    <3> HIDE DEF s
    <3>2. /\ Sound(s) /\ Respects(k1, s) /\ s.lock = k1.lock
          /\ k1.lock # 0 => s = k1
          /\ k1.lock = 0 => s.stat[s.current] = "RUNNING"
      BY <1>6, ScheduleSound DEF s
    <3>3. QED BY <1>3, <3>1, <3>2
  <2>3. QED BY <1>4, <2>1, <2>2
<1>8. Respects(k, k') BY <1>3, <1>7 DEF Respects
<1>9. /\ isr' = TRUE /\ pc' = pc /\ UNCHANGED <<started, defunct, freed>>
  BY DEF rt_tick_increase
<1>10. RunsOrCalls' BY <1>3, <1>7, <1>9 DEF IInv, RunsOrCalls
<1>11. pc' \in [Thread -> {"user", "schedule", "gone"}] BY <1>9 DEF IInv, TypeOK
<1>12. IInv' BY <1>1, <1>5, <1>7, <1>8, <1>9, <1>10, <1>11, Frame
<1>13. KeepsIt
  <2>1. Unrivalled(k) => Unrivalled(k1) BY <1>3 DEF Unrivalled
  <2>2. Unrivalled(k1) => rt_schedule(k1).current = k1.current BY <1>6, ScheduleKeeps
  <2>3. Unrivalled(k1) => k1.stat[k1.current] = "RUNNING" BY DEF Unrivalled
  <2>4. QED BY <1>3, <1>4, <1>7, <2>1, <2>2, <2>3 DEF KeepsIt
<1>14. QED BY <1>12, <1>13

\* The first timer of the list, which is due, wakes its thread.
LEMMA TimerStep == IInv /\ TimerFires => IInv' /\ KeepsIt
<1> SUFFICES ASSUME IInv, TimerFires
             PROVE  IInv' /\ KeepsIt
  OBVIOUS
<1> DEFINE l == k.timers
           t == Head(l).thread
           s == rt_thread_timeout(k, t)
<1>1. Sound(k) /\ l \in Timers /\ l # <<>> /\ k' = s
  BY DEF IInv, Sound, KState, TimerFires, FirstTimerDue
<1>2. t \in Thread /\ Sleeps(k, t)
  <2>1. /\ Len(l) \in Nat /\ ThreadsOf(l) \in Seq(Thread) /\ Len(ThreadsOf(l)) = Len(l)
        /\ \A i \in 1 .. Len(l) : ThreadsOf(l)[i] = l[i].thread
    BY <1>1, ThreadsOfProperties
  <2>2. Len(l) >= 1 /\ Head(l) = l[1]
    <3>1. l \in Seq([thread : Thread, due : Tick]) BY <1>1 DEF Timers
    <3>2. QED BY <1>1, <3>1
  <2>3. ThreadsOf(l)[1] = t /\ 1 \in 1 .. Len(ThreadsOf(l)) BY <2>1, <2>2
  <2>4. QED BY <2>1, <2>3 DEF Sleeps, In
<1> HIDE DEF s, t
<1>3. /\ Sound(s) /\ Respects(k, s) /\ s.lock = k.lock
      /\ k.lock = 0 => s.stat[s.current] = "RUNNING"
      /\ k.lock # 0 /\ k.stat[k.current] = "RUNNING" => s.stat[s.current] = "RUNNING"
      /\ Unrivalled(k) => s.current = k.current
  BY <1>1, <1>2, TimeoutSound DEF s
<1>4. /\ pc' = pc /\ remaining' = remaining /\ isr' = isr
      /\ UNCHANGED <<started, defunct, freed>>
  BY DEF TimerFires
<1>5. s.stat[s.current] = "RUNNING" BY <1>3 DEF IInv, RunsOrCalls
<1>6. RunsOrCalls' BY <1>1, <1>5 DEF RunsOrCalls
<1>7. /\ k.lock \in 0 .. MaxNest /\ remaining' \in [Thread -> Nat \ {0}] /\ isr' \in BOOLEAN
      /\ pc' \in [Thread -> {"user", "schedule", "gone"}]
  BY <1>4 DEF IInv, TypeOK
<1>8. IInv' BY <1>1, <1>3, <1>4, <1>6, <1>7, Frame
<1>9. QED BY <1>1, <1>3, <1>5, <1>8 DEF KeepsIt

\* The end of the interrupt changes nothing but that.
LEMMA TickEndStep == IInv /\ TickEnds => IInv'
<1> SUFFICES ASSUME IInv, TickEnds
             PROVE  IInv'
  OBVIOUS
<1>1. /\ isr' = FALSE /\ k' = k /\ remaining' = remaining /\ pc' = pc
      /\ UNCHANGED <<started, defunct, freed>>
  BY DEF TickEnds
<1>2. QED
  BY <1>1 DEF IInv, TypeOK, RunsOrCalls, NotYetStarted, EndedForEver, Origins

-----------------------------------------------------------------------------
(***************************************************************************)
(* The steps of the threads.                                               *)
(***************************************************************************)
\* Code is executed only by a thread that runs.
LEMMA UserRuns ==
  ASSUME IInv, NEW t, InUser(t)
  PROVE  t \in Thread /\ k.current = t /\ k.stat[t] = "RUNNING" /\ Sound(k) /\ ~Sleeps(k, t)
<1>1. k.current = t /\ pc[t] = "user" BY DEF InUser
<1>2. t \in Thread /\ k.stat[t] = "RUNNING" BY <1>1 DEF IInv, Sound, KState, RunsOrCalls
<1>3. QED BY <1>1, <1>2 DEF IInv, Sound

\* rt_schedule leaves a thread running: the lock is free whenever the current thread
\* has given up the processor.
LEMMA ScheduleStep == IInv /\ Schedule => IInv' /\ KeepsIt
<1> SUFFICES ASSUME IInv, Schedule
             PROVE  IInv' /\ KeepsIt
  OBVIOUS
<1> DEFINE s == rt_schedule(k)
<1>1. /\ k' = s
      /\ pc' = [pc EXCEPT ![k.current] = IF k.stat[k.current] = "CLOSE" THEN "gone" ELSE "user"]
      /\ UNCHANGED <<remaining, isr, started, defunct, freed>>
  BY DEF Schedule
<1> HIDE DEF s
<1>2. /\ Sound(s) /\ Respects(k, s) /\ s.lock = k.lock
      /\ k.lock # 0 => s = k
      /\ k.lock = 0 => s.stat[s.current] = "RUNNING"
  BY ScheduleSound DEF IInv, s
<1>3. s.stat[s.current] = "RUNNING" BY <1>2 DEF IInv, RunsOrCalls
<1>4. RunsOrCalls' BY <1>1, <1>3 DEF RunsOrCalls
<1>5. /\ k.lock \in 0 .. MaxNest /\ remaining' \in [Thread -> Nat \ {0}] /\ isr' \in BOOLEAN
      /\ pc' \in [Thread -> {"user", "schedule", "gone"}]
  BY <1>1 DEF IInv, TypeOK
<1>6. IInv' BY <1>1, <1>2, <1>4, <1>5, Frame
<1>7. Unrivalled(k) => s.current = k.current BY ScheduleKeeps DEF IInv, s
<1>8. QED BY <1>1, <1>3, <1>6, <1>7 DEF KeepsIt

\* What rt_thread_suspend and rt_thread_exit have in common.
Halted(r, t, s) == rt_timer_stop([rt_schedule_remove_thread(r, t) EXCEPT !.stat[t] = s], t)

\* A running thread leaves the processor for a state in which it is in no ready
\* list and its timer is stopped: all is as it should be but for that timer.
LEMMA Stopped ==
  ASSUME NEW r, Sound(r), NEW t \in Thread, t = r.current, r.stat[t] = "RUNNING",
         t # Idle, NEW s \in Stat, s # "READY", s # "RUNNING"
  PROVE  LET q == Halted(r, t, s)
         IN /\ q \in KState /\ ReadyLists(q) /\ CurrentOnly(q)
            /\ NoTwice(ThreadsOf(q.timers))
            /\ \A u \in Thread : Sleeps(q, u) <=> r.stat[u] = "SUSPEND"
            /\ q.stat[Idle] \in {"READY", "RUNNING"}
            /\ q.stat = [r.stat EXCEPT ![t] = s]
            /\ q.current = t /\ q.lock = r.lock /\ q.priority = r.priority
            /\ q.timers = r.timers /\ q.tick = r.tick
<1> DEFINE a == [rt_schedule_remove_thread(r, t) EXCEPT !.stat[t] = s]
           q == Halted(r, t, s)
<1>0. q = rt_timer_stop(a, t) BY DEF Halted
<1>1. r \in KState /\ ReadyLists(r) BY DEF Sound
<1>2. /\ a \in KState /\ ReadyLists(a) /\ a.stat = [r.stat EXCEPT ![t] = s]
      /\ a.current = t /\ Rest(a) = Rest(r)
  BY <1>1, Leave
<1> HIDE DEF a, q
<1>3. a.timers = r.timers /\ a.lock = r.lock /\ a.priority = r.priority BY <1>2 DEF Rest
<1>4. NoTwice(ThreadsOf(a.timers)) BY <1>3 DEF Sound
<1>5. /\ q \in KState /\ NoTwice(ThreadsOf(q.timers))
      /\ \A u : Sleeps(q, u) <=> Sleeps(a, u) /\ u # t
      /\ AllButTimers(q) = AllButTimers(a)
  BY <1>0, <1>2, <1>4, Stop
<1>6. /\ q.stat = [r.stat EXCEPT ![t] = s] /\ q.current = t /\ q.lock = r.lock
      /\ q.table = a.table /\ q.group = a.group /\ q.priority = a.priority
      /\ q.stat = a.stat
  BY <1>2, <1>3, <1>5 DEF AllButTimers
<1>7. ReadyLists(q) BY <1>2, <1>6 DEF ReadyLists
<1>8. CurrentOnly(q) BY <1>1, <1>6 DEF Sound, CurrentOnly, KState
<1>9. \A u \in Thread : Sleeps(q, u) <=> r.stat[u] = "SUSPEND"
  <2>1. \A u \in Thread : Sleeps(q, u) <=> Sleeps(r, u) /\ u # t BY <1>3, <1>5 DEF Sleeps
  <2>2. QED BY <2>1 DEF Sound
<1>10. Idle \in Thread BY KernelAssumption
<1>11. q.stat[Idle] \in {"READY", "RUNNING"} BY <1>1, <1>6, <1>10 DEF Sound, KState
<1>12. q.timers = r.timers /\ q.tick = r.tick
  <2>1. ~Sleeps(a, t) BY <1>3 DEF Sound, Sleeps
  <2>2. q = a BY <1>0, <1>2, <2>1, StopNothing
  <2>3. QED BY <1>2, <2>2 DEF Rest
<1>13. QED BY <1>3, <1>5, <1>6, <1>7, <1>8, <1>9, <1>11, <1>12 DEF q

\* The thread is suspended first, which stops its timer, and its timer set after:
\* in between, interrupts disabled, it would be suspended for good.
LEMMA SleepStep == IInv /\ (\E t \in Thread, n \in Naps : Sleep(t, n)) => IInv'
<1> SUFFICES ASSUME IInv, NEW t \in Thread, NEW n \in Naps, Sleep(t, n)
             PROVE  IInv'
  OBVIOUS
<1>1. /\ InUser(t) /\ k.lock = 0 /\ t # Idle
      /\ k' = rt_timer_start(rt_thread_suspend(k, t), t, n)
      /\ pc' = [pc EXCEPT ![t] = "schedule"]
      /\ UNCHANGED <<remaining, isr, started, defunct, freed>>
  BY DEF Sleep, rt_thread_sleep, ThenSchedule
<1>2. k.current = t /\ k.stat[t] = "RUNNING" /\ Sound(k) BY <1>1, UserRuns
<1> DEFINE q == Halted(k, t, "SUSPEND")
           s == rt_timer_start(q, t, n)
<1>3. rt_thread_suspend(k, t) = q BY <1>2 DEF rt_thread_suspend, Halted
<1>4. k' = s BY <1>1, <1>3
<1> HIDE DEF q
<1>5. /\ q \in KState /\ ReadyLists(q) /\ CurrentOnly(q)
      /\ NoTwice(ThreadsOf(q.timers))
      /\ \A u \in Thread : Sleeps(q, u) <=> k.stat[u] = "SUSPEND"
      /\ q.stat[Idle] \in {"READY", "RUNNING"}
      /\ q.stat = [k.stat EXCEPT ![t] = "SUSPEND"]
      /\ q.current = t /\ q.lock = k.lock /\ q.priority = k.priority
  <2>1. "SUSPEND" \in Stat /\ "SUSPEND" # "READY" /\ "SUSPEND" # "RUNNING" BY DEF Stat
  <2>2. QED BY <1>1, <1>2, <2>1, Stopped DEF q
<1>6. n \in Nat BY KernelAssumption
<1>7. /\ s \in KState /\ NoTwice(ThreadsOf(s.timers))
      /\ \A u : Sleeps(s, u) <=> Sleeps(q, u) \/ u = t
      /\ AllButTimers(s) = AllButTimers(q)
  BY <1>5, <1>6, Start
<1> HIDE DEF s
<1>8. /\ s.stat = q.stat /\ s.current = t /\ s.lock = 0
      /\ s.table = q.table /\ s.group = q.group /\ s.priority = q.priority
  BY <1>1, <1>5, <1>7 DEF AllButTimers
<1>9. k \in KState BY <1>2 DEF Sound
<1>10. \A u \in Thread : Sleeps(s, u) <=> s.stat[u] = "SUSPEND"
  BY <1>5, <1>7, <1>8, <1>9 DEF KState
<1>11. ReadyLists(s) /\ CurrentOnly(s)
  BY <1>5, <1>8 DEF ReadyLists, CurrentOnly
<1>12. Sound(s) BY <1>5, <1>7, <1>8, <1>10, <1>11 DEF Sound
<1>13. Respects(k, s) BY <1>2, <1>5, <1>8, <1>9 DEF Respects, KState
<1>14. /\ s.lock \in 0 .. MaxNest /\ remaining' \in [Thread -> Nat \ {0}] /\ isr' \in BOOLEAN
       /\ pc' \in [Thread -> {"user", "schedule", "gone"}] /\ pc'[t] = "schedule"
  BY <1>1, <1>8, KernelAssumption DEF IInv, TypeOK
<1>15. RunsOrCalls' BY <1>4, <1>8, <1>14 DEF RunsOrCalls
<1>16. QED BY <1>1, <1>4, <1>12, <1>13, <1>14, <1>15, Frame

\* The count of critical sections is no matter of the lists.
LEMMA Relock ==
  ASSUME NEW r, Sound(r), NEW n \in Int
  PROVE  LET s == [r EXCEPT !.lock = n]
         IN /\ Sound(s) /\ s.current = r.current /\ s.stat = r.stat /\ s.lock = n
            /\ s.priority = r.priority
<1> DEFINE s == [r EXCEPT !.lock = n]
<1>1. r \in KState BY DEF Sound
<1>2. /\ s \in KState /\ s.current = r.current /\ s.stat = r.stat
      /\ s.priority = r.priority /\ s.table = r.table /\ s.group = r.group
      /\ s.lock = n /\ s.timers = r.timers
  BY <1>1 DEF KState
<1> HIDE DEF s
<1>3. Sound(s) BY <1>2 DEF Sound, ReadyLists, CurrentOnly, Sleeps
<1>4. QED BY <1>2, <1>3 DEF s

\* A critical section is entered, ...
LEMMA EnterStep == IInv /\ (\E t \in Thread : rt_enter_critical(t)) => IInv'
<1> SUFFICES ASSUME IInv, NEW t \in Thread, rt_enter_critical(t)
             PROVE  IInv'
  OBVIOUS
<1>1. /\ InUser(t) /\ k.lock < MaxNest
      /\ k' = [k EXCEPT !.lock = k.lock + 1]
      /\ UNCHANGED <<remaining, isr, pc, started, defunct, freed>>
  BY DEF rt_enter_critical
<1>2. /\ k.current = t /\ k.stat[t] = "RUNNING" /\ Sound(k)
      /\ k.lock \in 0 .. MaxNest /\ MaxNest \in Nat
  BY <1>1, UserRuns, KernelAssumption DEF IInv, TypeOK
<1>3. k.lock + 1 \in Int BY <1>2
<1>4. /\ Sound(k') /\ k'.current = k.current /\ k'.stat = k.stat /\ k'.lock = k.lock + 1
      /\ k'.priority = k.priority
  BY <1>1, <1>2, <1>3, Relock
<1>5. Respects(k, k') /\ RunsOrCalls' BY <1>2, <1>4 DEF Respects, RunsOrCalls
<1>6. k'.lock \in 0 .. MaxNest BY <1>1, <1>2, <1>4
<1>7. /\ remaining' \in [Thread -> Nat \ {0}] /\ isr' \in BOOLEAN
      /\ pc' \in [Thread -> {"user", "schedule", "gone"}]
  BY <1>1 DEF IInv, TypeOK
<1>8. QED BY <1>1, <1>4, <1>5, <1>6, <1>7, Frame

\* ... and left.
LEMMA ExitCriticalStep == IInv /\ (\E t \in Thread : rt_exit_critical(t)) => IInv'
<1> SUFFICES ASSUME IInv, NEW t \in Thread, rt_exit_critical(t)
             PROVE  IInv'
  OBVIOUS
<1>1. /\ InUser(t) /\ k.lock > 0
      /\ k' = [k EXCEPT !.lock = k.lock - 1]
      /\ pc' = pc \/ pc' = [pc EXCEPT ![t] = "schedule"]
      /\ UNCHANGED <<remaining, isr, started, defunct, freed>>
  BY DEF rt_exit_critical, ThenSchedule
<1>2. /\ k.current = t /\ k.stat[t] = "RUNNING" /\ Sound(k)
      /\ k.lock \in 0 .. MaxNest /\ MaxNest \in Nat
  BY <1>1, UserRuns, KernelAssumption DEF IInv, TypeOK
<1>3. k.lock - 1 \in Int BY <1>2
<1>4. /\ Sound(k') /\ k'.current = k.current /\ k'.stat = k.stat /\ k'.lock = k.lock - 1
      /\ k'.priority = k.priority
  BY <1>1, <1>2, <1>3, Relock
<1>5. Respects(k, k') /\ RunsOrCalls' BY <1>2, <1>4 DEF Respects, RunsOrCalls
<1>6. k'.lock \in 0 .. MaxNest BY <1>1, <1>2, <1>4
<1>7. /\ remaining' \in [Thread -> Nat \ {0}] /\ isr' \in BOOLEAN
      /\ pc' \in [Thread -> {"user", "schedule", "gone"}]
  BY <1>1 DEF IInv, TypeOK
<1>8. QED BY <1>1, <1>4, <1>5, <1>6, <1>7, Frame

\* A thread that is started becomes ready, and only it.
LEMMA StartStep ==
  ASSUME IInv, StartNext
  PROVE  LET t == StartOrder[started + 1]
         IN /\ IInv' /\ KeepsIt
            /\ t \in Thread /\ k.stat[t] = "INIT" /\ k'.stat = [k.stat EXCEPT ![t] = "READY"]
            /\ k'.timers = k.timers /\ k'.tick = k.tick
            /\ k'.current = k.current /\ k'.lock = k.lock
<1> DEFINE t == StartOrder[started + 1]
           a == [k EXCEPT !.stat[t] = "SUSPEND"]
           b == rt_timer_stop(a, t)
           s == rt_schedule_insert_thread(b, t)
<1>1. /\ InUser(Main) /\ started < Len(StartOrder) /\ k' = rt_thread_startup(t)
      /\ started' = started + 1 /\ pc' = [pc EXCEPT ![Main] = "schedule"]
      /\ UNCHANGED <<remaining, isr, defunct, freed>>
  BY DEF StartNext, ThenSchedule
<1>2. /\ started \in Nat /\ Len(StartOrder) \in Nat /\ started \in 0 .. Len(StartOrder)
      /\ \A i \in 1 .. Len(StartOrder) : StartOrder[i] \in Thread
      /\ Main \in Thread /\ Idle \in Thread
  BY ToBeStarted, KernelAssumption DEF IInv
<1>3. started + 1 \in 1 .. Len(StartOrder) BY <1>1, <1>2
<1>4. t \in Thread /\ k.stat[t] = "INIT" BY <1>2, <1>3 DEF IInv, NotYetStarted
<1>5. /\ k.current = Main /\ k.stat[Main] = "RUNNING" /\ Sound(k) /\ k \in KState
  BY <1>1, UserRuns DEF Sound
<1> HIDE DEF t
<1>6. /\ a \in KState /\ a.current = Main /\ a.stat = [k.stat EXCEPT ![t] = "SUSPEND"]
      /\ a.stat[t] = "SUSPEND"
      /\ a.priority = k.priority /\ a.table = k.table /\ a.group = k.group
      /\ a.lock = k.lock /\ a.timers = k.timers
  BY <1>4, <1>5 DEF KState, Stat
<1>7. k' = s BY <1>1, <1>6 DEF rt_thread_startup, rt_thread_resume
<1> HIDE DEF a
<1>8. /\ b \in KState /\ NoTwice(ThreadsOf(b.timers))
      /\ \A u : Sleeps(b, u) <=> Sleeps(k, u) /\ u # t
      /\ AllButTimers(b) = AllButTimers(a)
  <2>1. NoTwice(ThreadsOf(a.timers)) BY <1>5, <1>6 DEF Sound
  <2>2. \A u : Sleeps(a, u) <=> Sleeps(k, u) BY <1>6 DEF Sleeps
  <2>3. QED BY <1>4, <1>6, <2>1, <2>2, Stop
<1> HIDE DEF b, s
<1>9. /\ b.stat = a.stat /\ b.current = Main /\ b.table = a.table /\ b.group = a.group
      /\ b.priority = a.priority /\ b.lock = a.lock
  BY <1>6, <1>8 DEF AllButTimers
<1>10. ReadyLists(b)
  <2>1. \A u \in Thread : b.stat[u] = "READY" <=> k.stat[u] = "READY"
    BY <1>4, <1>5, <1>6, <1>9 DEF KState
  <2>2. QED BY <1>5, <1>6, <1>9, <2>1 DEF Sound, ReadyLists
<1>11. b.stat[t] # "READY" /\ t # b.current BY <1>4, <1>5, <1>6, <1>9
<1>12. /\ s \in KState /\ ReadyLists(s) /\ s.stat = [b.stat EXCEPT ![t] = "READY"]
       /\ s.current = Main /\ Rest(s) = Rest(b)
  BY <1>4, <1>8, <1>9, <1>10, <1>11, Join DEF s
<1>13. s.timers = b.timers /\ s.lock = k.lock BY <1>6, <1>9, <1>12 DEF Rest
<1>14. s.stat = [k.stat EXCEPT ![t] = "READY"]
  BY <1>4, <1>5, <1>6, <1>9, <1>12 DEF KState
<1>15. CurrentOnly(s) BY <1>4, <1>5, <1>12, <1>14 DEF Sound, CurrentOnly, KState
<1>16. \A u \in Thread : Sleeps(s, u) <=> s.stat[u] = "SUSPEND"
  <2>1. \A u \in Thread : Sleeps(s, u) <=> Sleeps(k, u) /\ u # t BY <1>8, <1>13 DEF Sleeps
  <2>2. \A u \in Thread : s.stat[u] = "SUSPEND" <=> k.stat[u] = "SUSPEND" /\ u # t
    BY <1>5, <1>14 DEF KState
  <2>3. QED BY <1>5, <2>1, <2>2 DEF Sound
<1>17. Sound(s)
  <2>1. s.stat[Idle] \in {"READY", "RUNNING"} BY <1>2, <1>5, <1>14 DEF Sound, KState
  <2>2. QED BY <1>8, <1>12, <1>13, <1>15, <1>16, <2>1 DEF Sound
<1>18. TypeOK'
  <2>1. started' \in 0 .. Len(StartOrder) BY <1>1, <1>2
  <2>2. k' \in KState /\ k'.lock \in 0 .. MaxNest BY <1>7, <1>12, <1>13 DEF IInv, TypeOK
  <2>3. /\ remaining' \in [Thread -> Nat \ {0}] /\ isr' \in BOOLEAN
        /\ pc' \in [Thread -> {"user", "schedule", "gone"}]
        /\ defunct' \in Seq(Thread) /\ freed' \subseteq Thread
    BY <1>1, <1>2 DEF IInv, TypeOK
  <2>4. QED BY <2>1, <2>2, <2>3, KernelRecord DEF TypeOK
<1>19. RunsOrCalls' /\ KeepsIt
  <2>1. k'.current = k.current /\ k'.stat[k'.current] = "RUNNING"
    BY <1>2, <1>4, <1>5, <1>7, <1>12, <1>14 DEF KState
  <2>2. QED BY <2>1 DEF RunsOrCalls, KeepsIt
<1>20. NotYetStarted'
  <2>1. ASSUME NEW i \in started' + 1 .. Len(StartOrder)
        PROVE  k'.stat[StartOrder[i]] = "INIT"
    <3>1. i \in started + 1 .. Len(StartOrder) /\ i # started + 1 /\ i \in 1 .. Len(StartOrder)
      BY <1>1, <1>2
    <3>2. StartOrder[i] # t BY <1>3, <3>1, KernelAssumption DEF t
    <3>3. k.stat[StartOrder[i]] = "INIT" BY <3>1 DEF IInv, NotYetStarted
    <3>4. StartOrder[i] \in Thread BY <1>2, <3>1
    <3>5. QED BY <1>5, <1>7, <1>14, <3>2, <3>3, <3>4 DEF KState
  <2>2. QED BY <2>1 DEF NotYetStarted
<1>21. EndedForEver'
  BY <1>1, <1>4, <1>5, <1>7, <1>12, <1>14 DEF IInv, EndedForEver, KState
<1>22. Origins'
  <2>1. k'.priority = k.priority BY <1>6, <1>7, <1>9, <1>12 DEF Rest
  <2>2. \A u \in Thread : k'.stat[u] # "INIT" => k.stat[u] # "INIT" \/ u = StartOrder[started + 1]
    BY <1>5, <1>7, <1>14 DEF KState, t
  <2>3. QED BY <1>3, <2>1, <2>2 DEF IInv, Origins
<1>23. k'.timers = k.timers /\ k'.tick = k.tick
  <2>1. ~Sleeps(a, t) BY <1>4, <1>5, <1>6 DEF Sound, Sleeps
  <2>2. b = a BY <1>4, <1>6, <2>1, StopNothing DEF b
  <2>3. a.tick = k.tick BY <1>5 DEF a, KState
  <2>4. QED BY <1>6, <1>7, <1>12, <2>2, <2>3 DEF Rest
<1>24. IInv' BY <1>7, <1>17, <1>18, <1>19, <1>20, <1>21, <1>22 DEF IInv
<1>25. k'.current = k.current /\ k'.lock = k.lock BY <1>5, <1>7, <1>12, <1>13
<1>26. QED BY <1>4, <1>7, <1>14, <1>19, <1>23, <1>24, <1>25 DEF t

\* main ends: it is taken from the lists, and given to the idle thread.
LEMMA ExitStep == IInv /\ MainReturns => IInv'
<1> SUFFICES ASSUME IInv, MainReturns
             PROVE  IInv'
  OBVIOUS
<1> DEFINE q == Halted(k, Main, "CLOSE")
<1>1. /\ InUser(Main) /\ k.lock = 0 /\ k' = q
      /\ defunct' = <<Main>> \o defunct
      /\ pc' = [pc EXCEPT ![Main] = "schedule"]
      /\ UNCHANGED <<remaining, isr, started, freed>>
  BY DEF MainReturns, rt_thread_exit, ThenSchedule, Halted
<1> HIDE DEF q
<1>2. /\ k.current = Main /\ k.stat[Main] = "RUNNING" /\ Sound(k) /\ k \in KState
      /\ Main \in Thread /\ Main # Idle
  BY <1>1, UserRuns, KernelAssumption DEF Sound
<1>3. /\ q \in KState /\ ReadyLists(q) /\ CurrentOnly(q)
      /\ NoTwice(ThreadsOf(q.timers))
      /\ \A u \in Thread : Sleeps(q, u) <=> k.stat[u] = "SUSPEND"
      /\ q.stat[Idle] \in {"READY", "RUNNING"}
      /\ q.stat = [k.stat EXCEPT ![Main] = "CLOSE"]
      /\ q.current = Main /\ q.lock = k.lock /\ q.priority = k.priority
  <2>1. "CLOSE" \in Stat /\ "CLOSE" # "READY" /\ "CLOSE" # "RUNNING" BY DEF Stat
  <2>2. QED BY <1>2, <2>1, Stopped DEF q
<1>4. \A u \in Thread : q.stat[u] = "SUSPEND" <=> k.stat[u] = "SUSPEND"
  BY <1>2, <1>3 DEF KState
<1>5. Sound(k') BY <1>1, <1>3, <1>4 DEF Sound
<1>6. defunct' \in Seq(Thread) /\ \A u : In(defunct', u) <=> In(defunct, u) \/ u = Main
  <2>1. defunct \in Seq(Thread) /\ <<Main>> \in Seq(Thread) BY <1>2 DEF IInv, TypeOK
  <2>2. /\ Len(defunct) \in Nat /\ Len(defunct') = Len(defunct) + 1 /\ defunct' \in Seq(Thread)
        /\ \A i \in 1 .. Len(defunct) + 1 :
             defunct'[i] = IF i = 1 THEN Main ELSE defunct[i - 1]
    BY <1>1, <2>1
  <2>3. \A i \in 1 .. Len(defunct) :
          /\ i + 1 \in 1 .. Len(defunct) + 1 /\ i + 1 # 1 /\ (i + 1) - 1 = i
    BY <2>2
  <2>4. \A i \in 1 .. Len(defunct) : defunct'[i + 1] = defunct[i] BY <2>2, <2>3
  <2>5. 1 \in 1 .. Len(defunct) + 1
        /\ \A i \in 1 .. Len(defunct) + 1 : i # 1 => i - 1 \in 1 .. Len(defunct)
    BY <2>2
  <2>6. ASSUME NEW u, In(defunct', u)
        PROVE  In(defunct, u) \/ u = Main
    <3>1. PICK i \in 1 .. Len(defunct) + 1 : defunct'[i] = u BY <2>2, <2>6 DEF In
    <3>2. QED BY <2>2, <2>5, <3>1 DEF In
  <2>7. ASSUME NEW u, In(defunct, u)
        PROVE  In(defunct', u)
    <3>1. PICK i \in 1 .. Len(defunct) : defunct[i] = u BY <2>7 DEF In
    <3>2. QED BY <2>2, <2>3, <2>4, <3>1 DEF In
  <2>8. In(defunct', Main) BY <2>2, <2>5 DEF In
  <2>9. QED BY <2>2, <2>6, <2>7, <2>8
<1>7. TypeOK'
  <2>1. k' \in KState /\ k'.lock \in 0 .. MaxNest BY <1>1, <1>3 DEF IInv, TypeOK
  <2>2. /\ remaining' \in [Thread -> Nat \ {0}] /\ isr' \in BOOLEAN
        /\ pc' \in [Thread -> {"user", "schedule", "gone"}] /\ pc'[Main] = "schedule"
        /\ started' \in 0 .. Len(StartOrder) /\ freed' \subseteq Thread
    BY <1>1, <1>2 DEF IInv, TypeOK
  <2>3. QED BY <1>6, <2>1, <2>2, KernelRecord DEF TypeOK
<1>8. RunsOrCalls'
  <2>1. pc'[Main] = "schedule" BY <1>1, <1>2 DEF IInv, TypeOK
  <2>2. QED BY <1>1, <1>3, <2>1 DEF RunsOrCalls
<1>9. NotYetStarted'
  <2>1. \A i \in started + 1 .. Len(StartOrder) : StartOrder[i] \in Thread \ {Main, Idle}
    BY ToBeStarted DEF IInv
  <2>2. QED BY <1>1, <1>2, <1>3, <2>1 DEF IInv, NotYetStarted, KState
<1>10. EndedForEver'
  <2>1. \A t \in Thread : In(defunct', t) \/ t \in freed' => k'.stat[t] = "CLOSE"
    BY <1>1, <1>2, <1>3, <1>6 DEF IInv, EndedForEver, KState
  <2>2. k'.current \notin freed' BY <1>1, <1>2, <1>3 DEF IInv, EndedForEver
  <2>3. QED BY <2>1, <2>2 DEF EndedForEver
<1>11. Origins' BY <1>1, <1>2, <1>3 DEF IInv, Origins, KState
<1>12. QED BY <1>5, <1>7, <1>8, <1>9, <1>10, <1>11 DEF IInv

\* Idle frees a thread that has ended, which is not idle itself, and which
\* rt_schedule does not choose any more.
LEMMA IdleStep == IInv /\ rt_thread_idle_excute => IInv'
<1> SUFFICES ASSUME IInv, rt_thread_idle_excute
             PROVE  IInv'
  OBVIOUS
<1> DEFINE s == rt_schedule(k)
           t == Head(defunct)
<1>1. /\ InUser(Idle) /\ k.lock = 0 /\ defunct # <<>> /\ k' = s
      /\ defunct' = Tail(defunct) /\ freed' = freed \cup {t}
      /\ UNCHANGED <<remaining, isr, pc, started>>
  BY DEF rt_thread_idle_excute
<1> HIDE DEF s
<1>2. k.current = Idle /\ k.stat[Idle] = "RUNNING" /\ Sound(k) BY <1>1, UserRuns
<1>3. /\ Sound(s) /\ Respects(k, s) /\ s.lock = k.lock
      /\ k.lock = 0 => s.stat[s.current] = "RUNNING"
  BY <1>2, ScheduleSound DEF s
<1>4. defunct \in Seq(Thread) BY DEF IInv, TypeOK
<1>5. t \in Thread /\ In(defunct, t) BY <1>1, <1>4, EmptyOrHead
<1>6. Tail(defunct) \in Seq(Thread) /\ \A u : In(Tail(defunct), u) => In(defunct, u)
  <2>1. /\ Len(defunct) \in Nat /\ Tail(defunct) \in Seq(Thread)
        /\ Len(Tail(defunct)) = Len(defunct) - 1
        /\ \A i \in 1 .. Len(defunct) - 1 : Tail(defunct)[i] = defunct[i + 1]
    BY <1>1, <1>4
  <2>2. \A i \in 1 .. Len(defunct) - 1 : i + 1 \in 1 .. Len(defunct) BY <2>1
  <2>3. QED BY <2>1, <2>2 DEF In
<1>7. k.stat[t] = "CLOSE" BY <1>5 DEF IInv, EndedForEver
<1>8. TypeOK'
  <2>1. k' \in KState /\ k'.lock \in 0 .. MaxNest BY <1>1, <1>3 DEF Sound, IInv, TypeOK
  <2>2. /\ remaining' \in [Thread -> Nat \ {0}] /\ isr' \in BOOLEAN
        /\ pc' \in [Thread -> {"user", "schedule", "gone"}]
        /\ started' \in 0 .. Len(StartOrder)
        /\ defunct' \in Seq(Thread) /\ freed' \subseteq Thread
    BY <1>1, <1>5, <1>6 DEF IInv, TypeOK
  <2>3. QED BY <2>1, <2>2, KernelRecord DEF TypeOK
<1>9. RunsOrCalls' BY <1>1, <1>3 DEF RunsOrCalls
<1>10. NotYetStarted'
  <2>1. \A i \in started + 1 .. Len(StartOrder) : StartOrder[i] \in Thread
    BY ToBeStarted DEF IInv
  <2>2. QED BY <1>1, <1>3, <2>1 DEF IInv, NotYetStarted, Respects
<1>11. EndedForEver'
  <2>1. \A u \in Thread : k.stat[u] = "CLOSE" => s.stat[u] = "CLOSE"
    BY <1>3 DEF Respects
  <2>2. \A u \in Thread : In(defunct', u) \/ u \in freed' => k'.stat[u] = "CLOSE"
    BY <1>1, <1>5, <1>6, <1>7, <2>1 DEF IInv, EndedForEver
  <2>3. s.stat[s.current] = "RUNNING" /\ s.current \in Thread
    BY <1>1, <1>3 DEF Sound, KState
  <2>4. QED BY <1>1, <2>2, <2>3 DEF EndedForEver
<1>12. Origins' BY <1>1, <1>3 DEF IInv, Origins, Respects
<1>13. QED BY <1>1, <1>3, <1>8, <1>9, <1>10, <1>11, <1>12 DEF IInv

-----------------------------------------------------------------------------
(***************************************************************************)
(* The theorems.                                                           *)
(***************************************************************************)
LEMMA NextHolds == IInv /\ [Next]_vars => IInv'
<1> SUFFICES ASSUME IInv, [Next]_vars
             PROVE  IInv'
  OBVIOUS
<1>1. CASE Interrupt BY <1>1, TickStep, TimerStep, TickEndStep DEF Interrupt
<1>2. CASE Schedule BY <1>2, ScheduleStep
<1>3. CASE MainGoesOn BY <1>3, StartStep, ExitStep DEF MainGoesOn
<1>4. CASE LeaveCritical \/ LeaveInner
  BY <1>4, ExitCriticalStep DEF LeaveCritical, LeaveInner
<1>5. CASE rt_thread_idle_excute BY <1>5, IdleStep
<1>6. CASE \E t \in Thread : rt_enter_critical(t) BY <1>6, EnterStep
<1>7. CASE \E t \in Thread, n \in Naps : Sleep(t, n) BY <1>7, SleepStep
<1>8. CASE UNCHANGED vars
  BY <1>8 DEF vars, IInv, TypeOK, RunsOrCalls, NotYetStarted, EndedForEver, Origins
<1>9. QED BY <1>1, <1>2, <1>3, <1>4, <1>5, <1>6, <1>7, <1>8 DEF Next

\* IInv always holds.
THEOREM Invariance == Spec => []IInv
BY InitHolds, NextHolds, PTL DEF Spec

\* Every field of the kernel's state keeps its type, the tick its range, the
\* slice is never 0 when a tick is counted down from it, and the nesting of
\* critical sections never leaves its bounds.
THEOREM TypeCorrect == Spec => []TypeOK
<1>1. IInv => TypeOK BY DEF IInv
<1>2. QED BY Invariance, <1>1, PTL

\* The ready lists, the bitmap, the timer list and the threads' states tell the
\* same, whatever the order of ticks, timeouts and kernel calls.
THEOREM ListsCorrect == Spec => []ListsTellTheTruth
<1>1. IInv => ListsTellTheTruth BY SoundLists DEF IInv
<1>2. QED BY Invariance, <1>1, PTL

\* What the idle thread frees belongs to a thread that no list leads to and that
\* the processor never executes again.
THEOREM FreedUnused == Spec => []FreedIsOutOfUse
<1>1. IInv => FreedIsOutOfUse BY FreedLists DEF IInv
<1>2. QED BY Invariance, <1>1, PTL

-----------------------------------------------------------------------------
(***************************************************************************)
(* The order of the starts.                                                *)
(***************************************************************************)
\* main is more urgent than the threads it starts, as RT_MAIN_THREAD_PRIORITY is
\* than user_def.h's priorities.
MainMostUrgent == \A i \in 1 .. Len(StartOrder) : InitPriority[Main] < InitPriority[StartOrder[i]]

\* A start call is to come before the first that sleeps.
StillPreparing == \E i \in started + 1 .. Len(StartOrder) :
                    \A j \in 1 .. i : StartOrder[j] \notin SlowStarts

MainGoesFirst == StillPreparing => k.current = Main /\ k.stat[Main] = "RUNNING"

\* No other thread that can be ready is as urgent.
LEMMA MainUnrivalled ==
  ASSUME MainMostUrgent, IInv, MainGoesFirst, StillPreparing
  PROVE  Unrivalled(k)
<1>1. k.current = Main /\ k.stat[Main] = "RUNNING" BY DEF MainGoesFirst
<1>2. /\ k.priority = InitPriority /\ started \in Nat
      /\ InitPriority \in [Thread -> Priority] /\ Priority \subseteq Nat
      /\ Len(StartOrder) \in Nat
      /\ \A i \in 1 .. Len(StartOrder) : StartOrder[i] \in Thread
      /\ \A t \in Thread : InitPriority[t] <= InitPriority[Idle]
      /\ Main \in Thread /\ Idle \in Thread
  BY ToBeStarted, KernelAssumption, SchedulerAssumption DEF IInv, Origins
<1>3. PICK i \in 1 .. Len(StartOrder) : TRUE BY <1>2 DEF StillPreparing
<1>4. InitPriority[Main] < InitPriority[Idle]
  <2>1. InitPriority[Main] < InitPriority[StartOrder[i]] BY <1>3 DEF MainMostUrgent
  <2>2. InitPriority[StartOrder[i]] <= InitPriority[Idle] /\ StartOrder[i] \in Thread BY <1>2, <1>3
  <2>3. /\ InitPriority[Main] \in Nat /\ InitPriority[Idle] \in Nat
        /\ InitPriority[StartOrder[i]] \in Nat
    BY <1>2, <2>2
  <2>4. QED BY <2>1, <2>2, <2>3
<1>5. ASSUME NEW t \in Thread, k.stat[t] \in {"READY", "SUSPEND"}
      PROVE  InitPriority[Main] < InitPriority[t]
  <2>1. t # Main BY <1>1, <1>5
  <2>2. t = Idle \/ \E n \in 1 .. Len(StartOrder) : t = StartOrder[n]
    BY <1>5, <2>1 DEF IInv, Origins
  <2>3. QED BY <1>4, <2>2 DEF MainMostUrgent
<1>6. QED BY <1>1, <1>2, <1>5 DEF Unrivalled

\* Until then main keeps the processor: it does not sleep, nor end.
LEMMA MainStep == MainMostUrgent /\ IInv /\ MainGoesFirst /\ [Next]_vars => MainGoesFirst'
<1> SUFFICES ASSUME MainMostUrgent, IInv, MainGoesFirst, [Next]_vars, StillPreparing'
             PROVE  k'.current = Main /\ k'.stat[Main] = "RUNNING"
  BY DEF MainGoesFirst
<1>1. started' = started \/ started' = started + 1
  BY DEF Next, Interrupt, rt_tick_increase, TimerFires, TickEnds, Schedule, MainGoesOn,
         StartNext, MainReturns, rt_thread_exit, LeaveCritical, LeaveInner, rt_exit_critical,
         rt_thread_idle_excute, rt_enter_critical, Sleep, rt_thread_sleep, vars
<1>2. started \in Nat /\ Len(StartOrder) \in Nat BY ToBeStarted DEF IInv
<1>3. PICK i \in started + 1 .. Len(StartOrder) :
        \A j \in 1 .. i : StartOrder[j] \notin SlowStarts
  BY <1>1, <1>2 DEF StillPreparing
<1>4. StillPreparing BY <1>3 DEF StillPreparing
<1>5. /\ Unrivalled(k) /\ k.current = Main /\ k.stat[Main] = "RUNNING"
  BY <1>4, MainUnrivalled DEF MainGoesFirst
<1>6. k \in KState BY DEF IInv, Sound
<1>7. CASE Interrupt
  <2>1. CASE TickEnds BY <1>5, <2>1 DEF TickEnds
  <2>2. QED BY <1>5, <1>7, <2>1, TickStep, TimerStep DEF Interrupt, KeepsIt
<1>8. CASE Schedule BY <1>5, <1>8, ScheduleStep DEF KeepsIt
<1>9. CASE MainGoesOn
  <2>1. ~MainReturns BY <1>2, <1>3 DEF MainReturns
  <2>2. QED BY <1>5, <1>9, <2>1, StartStep DEF MainGoesOn, KeepsIt
<1>10. CASE LeaveCritical \/ LeaveInner
  BY <1>5, <1>6, <1>10 DEF LeaveCritical, LeaveInner, rt_exit_critical, KState
<1>11. CASE rt_thread_idle_excute
  <2>1. k.current = Idle BY <1>11 DEF rt_thread_idle_excute, InUser
  <2>2. QED BY <1>5, <2>1, KernelAssumption
<1>12. CASE \E t \in Thread : rt_enter_critical(t)
  BY <1>5, <1>6, <1>12 DEF rt_enter_critical, KState
<1>13. CASE \E t \in Thread, n \in Naps : Sleep(t, n)
  <2>1. PICK t \in Thread, n \in Naps : Sleep(t, n) BY <1>13
  <2>2. t = Main BY <1>5, <2>1 DEF Sleep, rt_thread_sleep, InUser
  <2>3. StartOrder[started + 1] \in SlowStarts BY <2>1, <2>2 DEF Sleep
  <2>4. started + 1 \in 1 .. i BY <1>2, <1>3
  <2>5. QED BY <1>3, <2>3, <2>4
<1>14. CASE UNCHANGED vars BY <1>5, <1>14 DEF vars
<1>15. QED BY <1>7, <1>8, <1>9, <1>10, <1>11, <1>12, <1>13, <1>14 DEF Next

\* No thread executes before main has made the start calls that come before the
\* first one that sleeps, for every order of starts, with main the most urgent:
\* not even when main's slice ends, or a tick falls into a start call.
THEOREM SetUpFirst == ASSUME MainMostUrgent
                      PROVE  Spec => []StartedTogether
<1>1. Init => MainGoesFirst
  <2>1. Main \in Thread BY KernelAssumption
  <2>2. QED BY <2>1 DEF Init, MainGoesFirst
<1>2. IInv /\ MainGoesFirst /\ [Next]_vars => MainGoesFirst' BY MainStep
<1>3. IInv /\ MainGoesFirst => StartedTogether
  <2> SUFFICES ASSUME IInv, MainGoesFirst, NEW t \in Thread \ {Main, Idle}, InUser(t),
                      NEW i \in 1 .. Len(StartOrder),
                      \A j \in 1 .. i : StartOrder[j] \notin SlowStarts
               PROVE  i <= started
    BY DEF StartedTogether
  <2>1. ~StillPreparing BY DEF InUser, MainGoesFirst
  <2>2. started \in Nat /\ Len(StartOrder) \in Nat BY ToBeStarted DEF IInv
  <2>3. i \notin started + 1 .. Len(StartOrder) BY <2>1 DEF StillPreparing
  <2>4. QED BY <2>2, <2>3
<1>4. Spec => []MainGoesFirst BY Invariance, <1>1, <1>2, PTL DEF Spec
<1>5. QED BY Invariance, <1>3, <1>4, PTL

-----------------------------------------------------------------------------
(***************************************************************************)
(* Points of time on a clock that wraps.                                   *)
(***************************************************************************)
\* A sleep is shorter than this.
Half == RT_TICK_MAX \div 2

\* How far `due' is ahead of `now': -1 if it has just gone by.
Ahead(now, due) == IF TicksPast(due, now) = RT_TICK_MAX THEN -1 ELSE TicksPast(due, now)

\* Two halves fit on the clock, and a point gone by is in neither.
LEMMA HalfRange ==
  /\ Ticks \in Nat /\ Ticks >= 5 /\ Tick = 0 .. Ticks - 1
  /\ Half \in Nat /\ Half >= 2 /\ 2 * Half <= Ticks - 1
<1>1. Ticks \in Nat /\ Ticks >= 5 /\ Tick = 0 .. Ticks - 1 /\ RT_TICK_MAX = Ticks - 1
  BY SchedulerAssumption DEF Tick, RT_TICK_MAX
<1>2. Half = (Ticks - 1) \div 2 BY <1>1 DEF Half
<1>3. QED BY <1>1, <1>2

\* One turn of the clock at most is taken off or added.
LEMMA OneTurn ==
  ASSUME NEW x \in Int
  PROVE  /\ 0 <= x /\ x < Ticks => x % Ticks = x
         /\ -Ticks <= x /\ x < 0 => x % Ticks = x + Ticks
         /\ Ticks <= x /\ x < 2 * Ticks => x % Ticks = x - Ticks
<1>0. Ticks \in Nat /\ Ticks >= 5 BY HalfRange
<1>1. 0 <= x /\ x < Ticks => x % Ticks = x BY <1>0
<1>2. -Ticks <= x /\ x < 0 => x % Ticks = x + Ticks BY <1>0
<1>3. Ticks <= x /\ x < 2 * Ticks => x % Ticks = x - Ticks BY <1>0
<1>4. QED BY <1>1, <1>2, <1>3

\* How far ahead, without the remainder.
LEMMA AheadValue ==
  ASSUME NEW now \in Tick, NEW due \in Tick
  PROVE  LET d == due - now
         IN Ahead(now, due) = IF d >= 0 THEN IF d = Ticks - 1 THEN -1 ELSE d
                              ELSE IF d = -1 THEN -1 ELSE d + Ticks
<1>1. /\ Ticks \in Nat /\ Ticks >= 5 /\ RT_TICK_MAX = Ticks - 1
      /\ now \in Int /\ due \in Int /\ 0 <= now /\ now < Ticks /\ 0 <= due /\ due < Ticks
  BY HalfRange DEF RT_TICK_MAX
<1> DEFINE d == due - now
<1>2. d \in Int /\ -Ticks <= d /\ d < Ticks BY <1>1
<1>3. TicksPast(due, now) = IF d >= 0 THEN d ELSE d + Ticks
  <2>1. (d >= 0 => d % Ticks = d) /\ (d < 0 => d % Ticks = d + Ticks)
    <3> HIDE DEF d
    <3>1. QED BY <1>1, <1>2, OneTurn
  <2>2. QED BY <1>2, <2>1 DEF TicksPast
<1> HIDE DEF d
<1>4. QED BY <1>1, <1>2, <1>3 DEF Ahead, d

\* A timer that is less than half the clock ahead is due when its point is reached.
LEMMA DueWhenReached ==
  ASSUME NEW now \in Tick, NEW due \in Tick, Ahead(now, due) \in -1 .. Half - 1
  PROVE  NotBefore(now, due) <=> Ahead(now, due) <= 0
<1>1. /\ Ticks \in Nat /\ Ticks >= 5 /\ RT_TICK_MAX = Ticks - 1
      /\ now \in Int /\ due \in Int /\ 0 <= now /\ now < Ticks /\ 0 <= due /\ due < Ticks
      /\ Half \in Nat /\ Half >= 2 /\ 2 * Half <= Ticks - 1
  BY HalfRange DEF RT_TICK_MAX
<1> DEFINE d == now - due
<1>2. d \in Int /\ -Ticks <= d /\ d < Ticks BY <1>1
<1>3. TicksPast(now, due) = IF d >= 0 THEN d ELSE d + Ticks
  <2>1. (d >= 0 => d % Ticks = d) /\ (d < 0 => d % Ticks = d + Ticks)
    <3> HIDE DEF d
    <3>1. QED BY <1>1, <1>2, OneTurn
  <2>2. QED BY <1>2, <2>1 DEF TicksPast
<1>4. NotBefore(now, due) <=> TicksPast(now, due) < Half BY DEF NotBefore, Half
<1>5. QED BY <1>1, <1>3, <1>4, AheadValue

\* The later of two points less than half the clock ahead is farther ahead.
LEMMA LaterIsFarther ==
  ASSUME NEW now \in Tick, NEW d \in Tick, NEW e \in Tick,
         Ahead(now, d) \in 0 .. Half - 1, Ahead(now, e) \in 0 .. Half - 1
  PROVE  d # e /\ NotBefore(d, e) <=> Ahead(now, e) < Ahead(now, d)
<1>1. /\ Ticks \in Nat /\ Ticks >= 5
      /\ now \in Int /\ d \in Int /\ 0 <= now /\ now < Ticks /\ 0 <= d /\ d < Ticks
      /\ e \in Int /\ 0 <= e /\ e < Ticks
      /\ Half \in Nat /\ Half >= 2 /\ 2 * Half <= Ticks - 1
  BY HalfRange
<1> DEFINE x == d - e
<1>2. x \in Int /\ -Ticks <= x /\ x < Ticks BY <1>1
<1>3. TicksPast(d, e) = IF x >= 0 THEN x ELSE x + Ticks
  <2>1. (x >= 0 => x % Ticks = x) /\ (x < 0 => x % Ticks = x + Ticks)
    <3> HIDE DEF x
    <3>1. QED BY <1>1, <1>2, OneTurn
  <2>2. QED BY <1>2, <2>1 DEF TicksPast
<1>4. NotBefore(d, e) <=> TicksPast(d, e) < Half BY DEF NotBefore, Half
<1>5. QED BY <1>1, <1>3, <1>4, AheadValue

\* A tick brings every point nearer by one, when none has gone by before.
LEMMA TickBringsNearer ==
  ASSUME NEW now \in Tick, NEW due \in Tick, Ahead(now, due) \in 0 .. Half - 1
  PROVE  /\ (now + 1) % Ticks \in Tick
         /\ Ahead((now + 1) % Ticks, due) = Ahead(now, due) - 1
<1>1. /\ Ticks \in Nat /\ Ticks >= 5
      /\ now \in Int /\ due \in Int /\ 0 <= now /\ now < Ticks /\ 0 <= due /\ due < Ticks
      /\ Half \in Nat /\ Half >= 2 /\ 2 * Half <= Ticks - 1
  BY HalfRange
<1> DEFINE next == (now + 1) % Ticks
<1>2. next = IF now + 1 = Ticks THEN 0 ELSE now + 1
  <2> DEFINE x == now + 1
  <2>1. x \in Int /\ 0 <= x /\ x < 2 * Ticks /\ x <= Ticks BY <1>1
  <2> HIDE DEF x
  <2>2. (x < Ticks => x % Ticks = x) /\ (x >= Ticks => x % Ticks = x - Ticks)
    BY <1>1, <2>1, OneTurn
  <2>3. QED BY <1>1, <2>1, <2>2 DEF x
<1> HIDE DEF next
<1>3. next \in Tick BY <1>1, <1>2, HalfRange
<1>4. Ahead(next, due) = Ahead(now, due) - 1 BY <1>1, <1>2, <1>3, AheadValue
<1>5. QED BY <1>3, <1>4 DEF next

\* A timer is set for a point as far ahead as the sleep is long.
LEMMA SetAhead ==
  ASSUME NEW now \in Tick, NEW n \in 0 .. Half - 1
  PROVE  (now + n) % Ticks \in Tick /\ Ahead(now, (now + n) % Ticks) = n
<1>1. /\ Ticks \in Nat /\ Ticks >= 5 /\ now \in Int /\ n \in Int
      /\ 0 <= now /\ now < Ticks /\ 0 <= n /\ n < Half
      /\ Half \in Nat /\ Half >= 2 /\ 2 * Half <= Ticks - 1
  BY HalfRange
<1> DEFINE due == (now + n) % Ticks
<1>2. due = IF now + n >= Ticks THEN now + n - Ticks ELSE now + n
  <2> DEFINE x == now + n
  <2>1. x \in Int /\ 0 <= x /\ x < 2 * Ticks BY <1>1
  <2> HIDE DEF x
  <2>2. (x < Ticks => x % Ticks = x) /\ (x >= Ticks => x % Ticks = x - Ticks)
    BY <1>1, <2>1, OneTurn
  <2>3. QED BY <1>1, <2>1, <2>2 DEF x
<1> HIDE DEF due
<1>3. due \in Tick BY <1>1, <1>2, HalfRange
<1>4. Ahead(now, due) = n BY <1>1, <1>2, <1>3, AheadValue
<1>5. QED BY <1>3, <1>4 DEF due

-----------------------------------------------------------------------------
(***************************************************************************)
(* The order of the timers.                                                *)
(***************************************************************************)
\* The timers are in the order of their points, none before `from' or more than half
\* the clock ahead.
InTime(l, now, from) ==
  /\ \A i \in 1 .. Len(l) : Ahead(now, l[i].due) \in from .. Half - 1
  /\ \A i, j \in 1 .. Len(l) : i < j => Ahead(now, l[i].due) <= Ahead(now, l[j].due)

\* Thread t has a timer that is `a' ahead.
HasTimer(l, now, t, a) ==
  \E i \in 1 .. Len(l) : l[i].thread = t /\ Ahead(now, l[i].due) = a

\* What the list of timers holds.
LEMMA Elements ==
  ASSUME NEW l \in Timers
  PROVE  Len(l) \in Nat /\ \A i \in 1 .. Len(l) : l[i].thread \in Thread /\ l[i].due \in Tick
<1>1. ASSUME NEW i \in 1 .. Len(l)
      PROVE  l[i].thread \in Thread /\ l[i].due \in Tick
  <2>1. l[i] \in [thread : Thread, due : Tick] BY ElementOfSeq DEF Timers
  <2>2. QED BY <2>1
<1>2. Len(l) \in Nat BY LenProperties DEF Timers
<1>3. QED BY <1>1, <1>2

\* A timer taken from the list leaves the others in order.
LEMMA TakenInTime ==
  ASSUME NEW l \in Timers, NoTwice(ThreadsOf(l)), NEW at \in 1 .. Len(l),
         NEW now, NEW from, InTime(l, now, from)
  PROVE  /\ InTime(WithoutAt(l, at), now, from)
         /\ \A u, a : HasTimer(WithoutAt(l, at), now, u, a)
                        <=> HasTimer(l, now, u, a) /\ u # l[at].thread
<1> DEFINE n == Len(l)
           less == WithoutAt(l, at)
           Old(i) == IF i < at THEN i ELSE i + 1
<1>1. n \in Nat /\ at \in 1 .. n BY Elements
<1>2. /\ Len(less) = n - 1
      /\ \A i \in 1 .. n - 1 : less[i] = l[Old(i)]
  <2>1. /\ Len(less) = n - 1
        /\ \A i \in 1 .. n - 1 : less[i] = IF i < at THEN l[i] ELSE l[i + 1]
    BY WithoutAtProperties DEF Timers
  <2>2. QED BY <2>1
<1>3. \A i \in 1 .. n - 1 : Old(i) \in 1 .. n /\ Old(i) # at BY <1>1
<1>4. \A i, j \in 1 .. n - 1 : i < j => Old(i) < Old(j) BY <1>1
<1>5. \A j \in 1 .. n : j # at => \E i \in 1 .. n - 1 : Old(i) = j
  <2>1. ASSUME NEW j \in 1 .. n, j # at
        PROVE  \E i \in 1 .. n - 1 : Old(i) = j
    <3>1. CASE j < at
      <4>1. j \in 1 .. n - 1 /\ Old(j) = j BY <1>1, <3>1
      <4>2. QED BY <4>1
    <3>2. CASE j > at
      <4>1. j - 1 \in 1 .. n - 1 /\ Old(j - 1) = j BY <1>1, <3>2
      <4>2. QED BY <4>1
    <3>3. QED BY <1>1, <2>1, <3>1, <3>2
  <2>2. QED BY <2>1
<1>6. \A j \in 1 .. n : l[j].thread = l[at].thread => j = at
  <2>1. /\ Len(ThreadsOf(l)) = n
        /\ \A j \in 1 .. n : ThreadsOf(l)[j] = l[j].thread
    BY ThreadsOfProperties
  <2>2. QED BY <1>1, <2>1 DEF NoTwice
<1> HIDE DEF less, Old, n
<1>7. InTime(less, now, from) BY <1>2, <1>3, <1>4 DEF InTime, n
<1>8. ASSUME NEW u, NEW a, HasTimer(less, now, u, a)
      PROVE  HasTimer(l, now, u, a) /\ u # l[at].thread
  <2>1. PICK i \in 1 .. n - 1 : less[i].thread = u /\ Ahead(now, less[i].due) = a
    BY <1>2, <1>8 DEF HasTimer
  <2>2. Old(i) \in 1 .. n /\ Old(i) # at /\ less[i] = l[Old(i)] BY <1>2, <1>3, <2>1
  <2>3. QED BY <1>6, <2>1, <2>2 DEF HasTimer, n
<1>9. ASSUME NEW u, NEW a, HasTimer(l, now, u, a), u # l[at].thread
      PROVE  HasTimer(less, now, u, a)
  <2>1. PICK j \in 1 .. n : l[j].thread = u /\ Ahead(now, l[j].due) = a
    BY <1>9 DEF HasTimer, n
  <2>2. PICK i \in 1 .. n - 1 : Old(i) = j BY <1>5, <1>9, <2>1
  <2>3. QED BY <1>2, <2>1, <2>2 DEF HasTimer
<1>10. QED BY <1>7, <1>8, <1>9 DEF less

\* A timer more, put before those that are later and behind the others.
LEMMA InsertedInTime ==
  ASSUME NEW l \in Timers, NEW x \in [thread : Thread, due : Tick], NEW at \in 1 .. Len(l) + 1,
         NEW now \in Tick, NEW from \in Int, InTime(l, now, from),
         Ahead(now, x.due) \in from .. Half - 1,
         \A i \in 1 .. Len(l) : i < at => Ahead(now, l[i].due) <= Ahead(now, x.due),
         \A i \in 1 .. Len(l) : i >= at => Ahead(now, x.due) <= Ahead(now, l[i].due)
  PROVE  /\ InTime(Inserted(l, at, x), now, from)
         /\ \A u, a : HasTimer(Inserted(l, at, x), now, u, a)
                        <=> \/ HasTimer(l, now, u, a)
                            \/ u = x.thread /\ a = Ahead(now, x.due)
<1> DEFINE n == Len(l)
           more == Inserted(l, at, x)
           Old(i) == IF i < at THEN i ELSE i - 1
           A(i) == Ahead(now, l[i].due)
           b == Ahead(now, x.due)
<1>1. n \in Nat /\ at \in 1 .. n + 1 BY Elements
<1>2. /\ Len(more) = n + 1 /\ more[at] = x
      /\ \A i \in 1 .. n + 1 : i # at => more[i] = l[Old(i)]
  <2> DEFINE T == [thread : Thread, due : Tick]
  <2>1. l \in Seq(T) /\ x \in T BY DEF Timers
  <2> HIDE DEF T, more
  <2>2. Len(Inserted(l, at, x)) = n + 1 BY <2>1, InsertedProperties
  <2>3. \A i \in 1 .. n + 1 : Inserted(l, at, x)[i] =
             IF i < at THEN l[i] ELSE IF i = at THEN x ELSE l[i - 1]
    BY <2>1, InsertedProperties
  <2>4. more[at] = x BY <1>1, <2>3 DEF more
  <2>5. \A i \in 1 .. n + 1 : i # at => more[i] = l[Old(i)] BY <2>3 DEF more
  <2>6. QED BY <2>2, <2>4, <2>5 DEF more
<1>3. \A i \in 1 .. n + 1 : i # at => Old(i) \in 1 .. n BY <1>1
<1>4. \A i, j \in 1 .. n + 1 : i # at /\ j # at /\ i < j => Old(i) < Old(j) BY <1>1
<1>5. \A j \in 1 .. n : \E i \in 1 .. n + 1 : i # at /\ Old(i) = j
  <2>1. ASSUME NEW j \in 1 .. n
        PROVE  \E i \in 1 .. n + 1 : i # at /\ Old(i) = j
    <3>1. CASE j < at
      <4>1. j \in 1 .. n + 1 /\ j # at /\ Old(j) = j BY <1>1, <3>1
      <4>2. QED BY <4>1
    <3>2. CASE j >= at
      <4>1. j + 1 \in 1 .. n + 1 /\ j + 1 # at /\ Old(j + 1) = j BY <1>1, <3>2
      <4>2. QED BY <4>1
    <3>3. QED BY <1>1, <3>1, <3>2
  <2>2. QED BY <2>1
<1>6. /\ \A i \in 1 .. n : A(i) \in from .. Half - 1
      /\ \A i, j \in 1 .. n : i < j => A(i) <= A(j)
  BY DEF InTime
<1>7. /\ \A i \in 1 .. n + 1 : i < at => Old(i) < at
      /\ \A i \in 1 .. n + 1 : at < i => Old(i) >= at
  BY <1>1
<1>8. b \in from .. Half - 1 /\ \A i \in 1 .. n : (i < at => A(i) <= b) /\ (i >= at => b <= A(i))
  OBVIOUS
<1> DEFINE B(i) == Ahead(now, more[i].due)
<1>9. B(at) = b /\ \A i \in 1 .. n + 1 : i # at => B(i) = A(Old(i)) BY <1>2
<1>10. \A i \in 1 .. n + 1 : B(i) \in from .. Half - 1
  <2> HIDE DEF A, B, b, Old, n
  <2> SUFFICES ASSUME NEW i \in 1 .. n + 1
               PROVE  B(i) \in from .. Half - 1
    OBVIOUS
  <2>1. CASE i = at BY <1>8, <1>9, <2>1
  <2>2. CASE i # at BY <1>3, <1>6, <1>9, <2>2
  <2>3. QED BY <2>1, <2>2
<1>11. \A i, j \in 1 .. n + 1 : i < j => B(i) <= B(j)
  <2> HIDE DEF A, B, b, Old, n
  <2> SUFFICES ASSUME NEW i \in 1 .. n + 1, NEW j \in 1 .. n + 1, i < j
               PROVE  B(i) <= B(j)
    OBVIOUS
  <2>1. CASE i = at BY <1>1, <1>3, <1>7, <1>8, <1>9, <2>1
  <2>2. CASE j = at BY <1>1, <1>3, <1>7, <1>8, <1>9, <2>2
  <2>3. CASE i # at /\ j # at BY <1>3, <1>4, <1>6, <1>9, <2>3
  <2>4. QED BY <2>1, <2>2, <2>3
<1> HIDE DEF more, Old, n
<1>12. InTime(more, now, from) BY <1>2, <1>10, <1>11 DEF InTime
<1>13. ASSUME NEW u, NEW a, HasTimer(more, now, u, a)
       PROVE  HasTimer(l, now, u, a) \/ (u = x.thread /\ a = b)
  <2>1. PICK i \in 1 .. n + 1 : more[i].thread = u /\ B(i) = a
    BY <1>2, <1>13 DEF HasTimer
  <2>2. CASE i = at BY <1>2, <2>1, <2>2
  <2>3. CASE i # at
    <3>1. Old(i) \in 1 .. n /\ more[i] = l[Old(i)] BY <1>2, <1>3, <2>3
    <3>2. PICK j \in 1 .. n : more[i] = l[j] BY <3>1
    <3>3. l[j].thread = u /\ Ahead(now, l[j].due) = a BY <2>1, <3>2
    <3>4. HasTimer(l, now, u, a) BY <3>2, <3>3 DEF HasTimer, n
    <3>5. QED BY <3>4
  <2>4. QED BY <2>2, <2>3
<1>14. ASSUME NEW u, NEW a, HasTimer(l, now, u, a)
       PROVE  HasTimer(more, now, u, a)
  <2>1. PICK j \in 1 .. n : l[j].thread = u /\ A(j) = a BY <1>14 DEF HasTimer, n
  <2>2. PICK i \in 1 .. n + 1 : i # at /\ Old(i) = j BY <1>5, <2>1
  <2>3. QED BY <1>2, <2>1, <2>2 DEF HasTimer
<1>15. HasTimer(more, now, x.thread, b) BY <1>1, <1>2 DEF HasTimer
<1>16. QED BY <1>12, <1>13, <1>14, <1>15 DEF more

\* A tick brings the timers of a list nearer by one.
LEMMA TickInTime ==
  ASSUME NEW l \in Timers, NEW now \in Tick, InTime(l, now, 0)
  PROVE  LET next == (now + 1) % Ticks
         IN /\ InTime(l, next, -1)
            /\ \A u, a : HasTimer(l, now, u, a) => HasTimer(l, next, u, a - 1)
<1> DEFINE next == (now + 1) % Ticks
           A(i) == Ahead(now, l[i].due)
           B(i) == Ahead(next, l[i].due)
<1>1. Len(l) \in Nat /\ \A i \in 1 .. Len(l) : l[i].due \in Tick BY Elements
<1>2. \A i \in 1 .. Len(l) : A(i) \in 0 .. Half - 1 BY DEF InTime
<1>3. \A i \in 1 .. Len(l) : B(i) = A(i) - 1 BY <1>1, <1>2, TickBringsNearer
<1>4. \A i, j \in 1 .. Len(l) : i < j => A(i) <= A(j) BY DEF InTime
<1>5. Half \in Nat BY HalfRange
<1> HIDE DEF A, B
<1>6. \A i \in 1 .. Len(l) : B(i) \in -1 .. Half - 1 BY <1>2, <1>3, <1>5
<1>7. \A i, j \in 1 .. Len(l) : i < j => B(i) <= B(j) BY <1>2, <1>3, <1>4
<1>8. InTime(l, next, -1) BY <1>6, <1>7 DEF InTime, B
<1>9. \A u, a : HasTimer(l, now, u, a) => HasTimer(l, next, u, a - 1)
  BY <1>3 DEF HasTimer, A, B
<1>10. QED BY <1>8, <1>9

\* How long a thread still sleeps, in any state (TicksLeft is that of k).
LeftIn(l, now, inTick, t) ==
  IF ~In(ThreadsOf(l), t) THEN 0
  ELSE LET due == l[CHOOSE i \in 1 .. Len(l) : ThreadsOf(l)[i] = t].due
       IN IF inTick THEN IF NotBefore(now, due) THEN 0 ELSE TicksPast(due, now)
          ELSE IF now = due THEN 1 ELSE TicksPast(due, now)

\* A thread whose timer is `a' ahead sleeps so many ticks.
TicksOf(a, inTick) == IF inTick THEN IF a <= 0 THEN 0 ELSE a ELSE IF a = 0 THEN 1 ELSE a

\* The ticks left are what the timer says, and none without a timer.
LEMMA LeftInValue ==
  ASSUME NEW l \in Timers, NoTwice(ThreadsOf(l)), NEW now \in Tick, NEW inTick \in BOOLEAN,
         InTime(l, now, IF inTick THEN -1 ELSE 0)
  PROVE  /\ \A u : ~In(ThreadsOf(l), u) => LeftIn(l, now, inTick, u) = 0
         /\ \A u : In(ThreadsOf(l), u) => \E a \in -1 .. Half - 1 : HasTimer(l, now, u, a)
         /\ \A u, a : HasTimer(l, now, u, a) =>
              /\ In(ThreadsOf(l), u) /\ a \in (IF inTick THEN -1 ELSE 0) .. Half - 1
              /\ LeftIn(l, now, inTick, u) = TicksOf(a, inTick)
<1>1. /\ Len(l) \in Nat /\ Len(ThreadsOf(l)) = Len(l)
      /\ \A i \in 1 .. Len(l) : l[i].due \in Tick /\ ThreadsOf(l)[i] = l[i].thread
  BY Elements, ThreadsOfProperties
<1>2. \A i \in 1 .. Len(l) : Ahead(now, l[i].due) \in (IF inTick THEN -1 ELSE 0) .. Half - 1
  BY DEF InTime
<1>3. Half \in Nat /\ Ticks \in Nat /\ Tick = 0 .. Ticks - 1 /\ 2 * Half <= Ticks - 1
      /\ RT_TICK_MAX = Ticks - 1 /\ Half >= 2
  BY HalfRange DEF RT_TICK_MAX
<1>4. \A i \in 1 .. Len(l) : Ahead(now, l[i].due) \in -1 .. Half - 1
  <2>1. CASE inTick BY <1>2, <2>1
  <2>2. CASE ~inTick
    <3>1. ASSUME NEW i \in 1 .. Len(l)
          PROVE  Ahead(now, l[i].due) \in -1 .. Half - 1
      <4>1. Ahead(now, l[i].due) \in 0 .. Half - 1 BY <1>2, <2>2
      <4>2. QED BY <1>3, <4>1
    <3>2. QED BY <3>1
  <2>3. QED BY <2>1, <2>2
<1>5. ASSUME NEW u, In(ThreadsOf(l), u)
      PROVE  \E a \in -1 .. Half - 1 : HasTimer(l, now, u, a)
  <2>1. PICK i \in 1 .. Len(l) : l[i].thread = u BY <1>1, <1>5 DEF In
  <2>2. Ahead(now, l[i].due) \in -1 .. Half - 1 /\ HasTimer(l, now, u, Ahead(now, l[i].due))
    BY <1>4, <2>1 DEF HasTimer
  <2>3. QED BY <2>2
<1>6. ASSUME NEW u, NEW a, HasTimer(l, now, u, a)
      PROVE  /\ In(ThreadsOf(l), u) /\ a \in (IF inTick THEN -1 ELSE 0) .. Half - 1
             /\ LeftIn(l, now, inTick, u) = TicksOf(a, inTick)
  <2>1. PICK i \in 1 .. Len(l) : l[i].thread = u /\ Ahead(now, l[i].due) = a
    BY <1>6 DEF HasTimer
  <2>2. In(ThreadsOf(l), u) BY <1>1, <2>1 DEF In
  <2> DEFINE at == CHOOSE j \in 1 .. Len(l) : ThreadsOf(l)[j] = u
             due == l[at].due
  <2>3. at = i
    <3>1. at \in 1 .. Len(l) /\ ThreadsOf(l)[at] = u BY <1>1, <2>1
    <3>2. ThreadsOf(l)[i] = u BY <1>1, <2>1
    <3> HIDE DEF at
    <3>3. QED BY <1>1, <3>1, <3>2 DEF NoTwice
  <2>4. LeftIn(l, now, inTick, u) =
          IF inTick THEN IF NotBefore(now, due) THEN 0 ELSE TicksPast(due, now)
          ELSE IF now = due THEN 1 ELSE TicksPast(due, now)
    BY <2>2 DEF LeftIn
  <2>5. due = l[i].due BY <2>3
  <2> HIDE DEF at, due
  <2>6. /\ due \in Tick /\ Ahead(now, due) = a /\ a \in -1 .. Half - 1
        /\ a \in (IF inTick THEN -1 ELSE 0) .. Half - 1
    BY <1>1, <1>2, <1>4, <2>1, <2>5
  <2>7. NotBefore(now, due) <=> a <= 0 BY <2>6, DueWhenReached
  <2>8. a # -1 => TicksPast(due, now) = a BY <2>6 DEF Ahead
  <2>9. now = due <=> a = 0
    <3>1. /\ now \in Int /\ due \in Int /\ 0 <= now /\ now < Ticks /\ 0 <= due /\ due < Ticks
      BY <1>3, <2>6
    <3> DEFINE d == due - now
    <3>2. a = IF d >= 0 THEN IF d = Ticks - 1 THEN -1 ELSE d ELSE IF d = -1 THEN -1 ELSE d + Ticks
      BY <1>3, <2>6, AheadValue
    <3>3. QED BY <1>3, <3>1, <3>2
  <2>10. ~inTick => a # -1 BY <1>3, <2>6
  <2>11. a \in Int BY <1>3, <2>6
  <2>12. LeftIn(l, now, inTick, u) = TicksOf(a, inTick)
    <3>1. CASE inTick BY <2>4, <2>7, <2>8, <2>11, <3>1 DEF TicksOf
    <3>2. CASE ~inTick BY <2>4, <2>8, <2>9, <2>10, <3>2 DEF TicksOf
    <3>3. QED BY <3>1, <3>2
  <2>13. QED BY <2>2, <2>6, <2>12
<1>7. \A u : ~In(ThreadsOf(l), u) => LeftIn(l, now, inTick, u) = 0 BY DEF LeftIn
<1>8. QED BY <1>5, <1>6, <1>7

-----------------------------------------------------------------------------
(***************************************************************************)
(* The timers in the kernel's calls.                                       *)
(***************************************************************************)
\* The kernel's timers are in order; thread t has one that is `a' ahead.
TimedFrom(v, from) == InTime(v.timers, v.tick, from)
TimerAt(v, t, a)   == HasTimer(v.timers, v.tick, t, a)

\* A timer is stopped.
LEMMA StopTimed ==
  ASSUME NEW v \in KState, NoTwice(ThreadsOf(v.timers)), NEW t \in Thread,
         NEW from, TimedFrom(v, from)
  PROVE  LET r == rt_timer_stop(v, t)
         IN /\ TimedFrom(r, from)
            /\ \A u, a : TimerAt(r, u, a) <=> TimerAt(v, u, a) /\ u # t
<1> DEFINE l == v.timers
           r == rt_timer_stop(v, t)
           at == CHOOSE i \in 1 .. Len(l) : l[i].thread = t
<1>1. l \in Timers BY DEF KState
<1>2. CASE \E i \in 1 .. Len(l) : l[i].thread = t
  <2>1. at \in 1 .. Len(l) /\ l[at].thread = t BY <1>2
  <2>2. r = [v EXCEPT !.timers = WithoutAt(l, at)] BY <1>2 DEF rt_timer_stop
  <2> HIDE DEF at, r
  <2>3. r.timers = WithoutAt(l, at) /\ r.tick = v.tick BY <2>2 DEF KState
  <2>4. /\ InTime(WithoutAt(l, at), v.tick, from)
        /\ \A u, a : HasTimer(WithoutAt(l, at), v.tick, u, a)
                       <=> HasTimer(l, v.tick, u, a) /\ u # l[at].thread
    BY <1>1, <2>1, TakenInTime DEF TimedFrom
  <2>5. QED BY <2>1, <2>3, <2>4 DEF TimedFrom, TimerAt, r
<1>3. CASE ~ \E i \in 1 .. Len(l) : l[i].thread = t
  <2>1. r = v BY <1>3 DEF rt_timer_stop
  <2>2. \A a : ~TimerAt(v, t, a) BY <1>3 DEF TimerAt, HasTimer
  <2>3. QED BY <2>1, <2>2
<1>4. QED BY <1>2, <1>3

\* A timer is set.
LEMMA StartTimed ==
  ASSUME NEW v \in KState, NoTwice(ThreadsOf(v.timers)), NEW t \in Thread, NEW n \in Naps,
         TimedFrom(v, 0)
  PROVE  LET r == rt_timer_start(v, t, n)
         IN /\ TimedFrom(r, 0)
            /\ \A u, a : TimerAt(r, u, a) <=> (TimerAt(v, u, a) /\ u # t) \/ (u = t /\ a = n)
<1> DEFINE s == rt_timer_stop(v, t)
           l == s.timers
           due == (v.tick + n) % Ticks
           later == {i \in 1 .. Len(l) : l[i].due # due /\ NotBefore(l[i].due, due)}
           at == IF later = {} THEN Len(l) + 1 ELSE Min(later)
           x == Timer(t, due)
           r == rt_timer_start(v, t, n)
           A(i) == Ahead(v.tick, l[i].due)
<1>1. /\ s \in KState /\ AllButTimers(s) = AllButTimers(v) BY Stop
<1>2. /\ TimedFrom(s, 0)
      /\ \A u, a : TimerAt(s, u, a) <=> TimerAt(v, u, a) /\ u # t
  BY StopTimed
<1>3. r = [s EXCEPT !.timers = Inserted(l, at, x)] BY DEF rt_timer_start, Inserted
<1>4. v.tick \in Tick /\ n \in 0 .. Half - 1 BY KernelAssumption DEF KState, Half
<1>5. due \in Tick /\ Ahead(v.tick, due) = n BY <1>4, SetAhead
<1>6. x \in [thread : Thread, due : Tick] /\ x.thread = t /\ x.due = due BY <1>5 DEF Timer
<1>7. l \in Timers /\ Len(l) \in Nat /\ \A i \in 1 .. Len(l) : l[i].due \in Tick
  <2>1. l \in Timers BY <1>1 DEF KState
  <2>2. QED BY <2>1, Elements
<1>8. s.tick = v.tick BY <1>1 DEF AllButTimers
<1>9. /\ \A i \in 1 .. Len(l) : A(i) \in 0 .. Half - 1
      /\ \A i, j \in 1 .. Len(l) : i < j => A(i) <= A(j)
  BY <1>2, <1>8 DEF TimedFrom, InTime
<1>10. \A i \in 1 .. Len(l) : i \in later <=> n < A(i)
  <2>1. ASSUME NEW i \in 1 .. Len(l)
        PROVE  i \in later <=> n < A(i)
    <3>1. l[i].due \in Tick /\ A(i) \in 0 .. Half - 1 BY <1>7, <1>9
    <3>2. l[i].due # due /\ NotBefore(l[i].due, due) <=> Ahead(v.tick, due) < A(i)
      <4> DEFINE d == l[i].due
      <4>1. d \in Tick /\ Ahead(v.tick, d) \in 0 .. Half - 1 BY <3>1
      <4> HIDE DEF d, due
      <4>2. d # due /\ NotBefore(d, due) <=> Ahead(v.tick, due) < Ahead(v.tick, d)
        BY <1>4, <1>5, <4>1, LaterIsFarther
      <4>3. QED BY <4>2 DEF d
    <3>3. QED BY <1>5, <3>2
  <2>2. QED BY <2>1
<1>11. later \subseteq 1 .. Len(l) OBVIOUS
<1> HIDE DEF later, A
<1>12. /\ at \in 1 .. Len(l) + 1
       /\ \A i \in 1 .. Len(l) : i < at => A(i) <= n
       /\ \A i \in 1 .. Len(l) : i >= at => n <= A(i)
  <2>1. CASE later = {}
    <3>1. at = Len(l) + 1 BY <2>1
    <3>2. \A i \in 1 .. Len(l) : ~(n < A(i)) BY <1>10, <2>1
    <3> HIDE DEF l, at
    <3>3. n \in Int /\ \A i \in 1 .. Len(l) : A(i) \in Int BY <1>4, <1>9
    <3>4. QED BY <1>7, <3>1, <3>2, <3>3
  <2>2. CASE later # {}
    <3>1. later \subseteq Nat BY <1>7, <1>11
    <3>2. Min(later) \in later /\ \A i \in later : Min(later) <= i BY <2>2, <3>1, MinExists
    <3>3. at = Min(later) BY <2>2
    <3>4. at \in 1 .. Len(l) BY <1>11, <3>2, <3>3
    <3> HIDE DEF l, at
    <3>5. n < A(at) BY <1>10, <3>2, <3>3, <3>4
    <3>6. n \in Int /\ \A i \in 1 .. Len(l) : A(i) \in Int BY <1>4, <1>9
    <3>7. ASSUME NEW i \in 1 .. Len(l), i < at
          PROVE  A(i) <= n
      <4>1. i \notin later BY <1>7, <3>2, <3>3, <3>4, <3>7
      <4>2. QED BY <1>10, <3>6, <4>1
    <3>8. ASSUME NEW i \in 1 .. Len(l), i >= at
          PROVE  n <= A(i)
      <4>1. A(at) <= A(i)
        <5>1. CASE i = at BY <3>4, <3>6, <5>1
        <5>2. CASE at < i BY <1>9, <3>4, <5>2
        <5>3. QED BY <1>7, <3>4, <3>8, <5>1, <5>2
      <4>2. QED BY <3>4, <3>5, <3>6, <4>1
    <3>9. QED BY <1>7, <3>4, <3>7, <3>8
  <2>3. QED BY <2>1, <2>2
<1> HIDE DEF at, x, due, s
<1>13. /\ InTime(Inserted(l, at, x), v.tick, 0)
       /\ \A u, a : HasTimer(Inserted(l, at, x), v.tick, u, a)
                      <=> \/ HasTimer(l, v.tick, u, a)
                          \/ u = x.thread /\ a = Ahead(v.tick, x.due)
  <2>1. InTime(l, v.tick, 0) BY <1>2, <1>8 DEF TimedFrom
  <2>2. Ahead(v.tick, x.due) = n BY <1>5, <1>6
  <2>3. Ahead(v.tick, x.due) \in 0 .. Half - 1 BY <1>4, <2>2
  <2>4. /\ \A i \in 1 .. Len(l) : i < at => Ahead(v.tick, l[i].due) <= Ahead(v.tick, x.due)
        /\ \A i \in 1 .. Len(l) : i >= at => Ahead(v.tick, x.due) <= Ahead(v.tick, l[i].due)
    BY <1>12, <2>2 DEF A
  <2> HIDE DEF l
  <2>5. QED BY <1>4, <1>6, <1>7, <1>12, <2>1, <2>3, <2>4, InsertedInTime
<1>14. r.timers = Inserted(l, at, x) /\ r.tick = v.tick BY <1>1, <1>3, <1>8 DEF KState
<1> HIDE DEF r
<1>15. TimedFrom(r, 0) BY <1>13, <1>14 DEF TimedFrom
<1>16. \A u, a : TimerAt(r, u, a) <=> TimerAt(s, u, a) \/ (u = t /\ a = n)
  BY <1>5, <1>6, <1>8, <1>13, <1>14 DEF TimerAt
<1>17. QED BY <1>2, <1>15, <1>16 DEF r

-----------------------------------------------------------------------------
(***************************************************************************)
(* What the promise is about.                                              *)
(***************************************************************************)
\* The promise's variables, of a value of k and of the state.
LeftOf(v, inTick) == [t \in Thread |-> LeftIn(v.timers, v.tick, inTick, t)]

AliveIn(v) == {t \in Thread : v.stat[t] \notin {"INIT", "CLOSE"}}

AliveNow   == {t \in Thread : k.stat[t] \notin {"INIT", "CLOSE"}}
LeftNow    == [t \in Thread |-> TicksLeft(t)]
RunningNow == IF ~isr /\ pc[k.current] = "user" THEN k.current ELSE Nobody
HolderNow  == IF k.lock > 0 THEN k.current ELSE Nobody

\* The timers are in time, and no thread that is ready is more urgent than the one
\* whose code is executed, unless that one is in a critical section.
Prompt == /\ TimedFrom(k, IF isr THEN -1 ELSE 0)
          /\ k.lock = 0 /\ pc[k.current] = "user" => ~Below(k)

\* LeftNow is of the state before and of the state after.
LEMMA LeftNowIs ==
  LeftNow = LeftOf(k, isr) /\ LeftNow' = LeftOf(k', isr')
BY DEF LeftNow, LeftOf, TicksLeft, Sleepers, LeftIn

\* It is a function of the threads.
LEMMA LeftNowMap ==
  /\ LeftNow = [u \in Thread |-> LeftNow[u]]
  /\ LeftNow' = [u \in Thread |-> LeftNow'[u]]
<1> DEFINE a == LeftOf(k, isr)
           b == LeftOf(k', isr')
<1>1. LeftNow = a /\ LeftNow' = b BY LeftNowIs
<1>2. a = [u \in Thread |-> a[u]] /\ b = [u \in Thread |-> b[u]] BY DEF LeftOf
<1>3. QED BY <1>1, <1>2

\* It is kept if no thread's is changed.
LEMMA LeftNowSame ==
  ASSUME \A u \in Thread : LeftNow'[u] = LeftNow[u]
  PROVE  LeftNow' = LeftNow
BY LeftNowMap

\* How long a thread sleeps is what its timer says.
LEMMA LeftValue ==
  ASSUME NEW v \in KState, NoTwice(ThreadsOf(v.timers)), NEW inTick \in BOOLEAN,
         TimedFrom(v, IF inTick THEN -1 ELSE 0), NEW u \in Thread
  PROVE  /\ ~Sleeps(v, u) => LeftOf(v, inTick)[u] = 0
         /\ Sleeps(v, u) => \E a \in Int : TimerAt(v, u, a)
         /\ \A a : TimerAt(v, u, a) =>
              /\ Sleeps(v, u) /\ a \in (IF inTick THEN -1 ELSE 0) .. Half - 1 /\ a \in Int
              /\ LeftOf(v, inTick)[u] = TicksOf(a, inTick)
<1> DEFINE l == v.timers
           now == v.tick
           from == IF inTick THEN -1 ELSE 0
<1>1. l \in Timers /\ now \in Tick /\ NoTwice(ThreadsOf(l)) /\ InTime(l, now, from)
  BY DEF KState, TimedFrom
<1>2. from \in Int /\ Half \in Nat BY HalfRange
<1> HIDE DEF l, now
<1>3. /\ ~In(ThreadsOf(l), u) => LeftIn(l, now, inTick, u) = 0
      /\ In(ThreadsOf(l), u) => \E a \in -1 .. Half - 1 : HasTimer(l, now, u, a)
      /\ \A a : HasTimer(l, now, u, a) =>
           /\ In(ThreadsOf(l), u) /\ a \in from .. Half - 1
           /\ LeftIn(l, now, inTick, u) = TicksOf(a, inTick)
  BY <1>1, LeftInValue
<1>4. LeftOf(v, inTick)[u] = LeftIn(l, now, inTick, u) BY DEF LeftOf, l, now
<1> HIDE DEF from
<1>5. \A a : TimerAt(v, u, a) <=> HasTimer(l, now, u, a) BY DEF TimerAt, l, now
<1>6. Sleeps(v, u) <=> In(ThreadsOf(l), u) BY DEF Sleeps, l
<1>7. -1 .. Half - 1 \subseteq Int /\ from .. Half - 1 \subseteq Int BY <1>2
<1>8. QED BY <1>3, <1>4, <1>5, <1>6, <1>7 DEF from

\* When no timer is due, the current thread, if it runs and no ready thread is more
\* urgent, is a most urgent one of those that are awake.
LEMMA CurrentMostUrgent ==
  ASSUME NEW v, Sound(v), TimedFrom(v, 0), v.stat[v.current] = "RUNNING", ~Below(v),
         v.priority = InitPriority
  PROVE  /\ v.current \in AliveIn(v) /\ LeftOf(v, FALSE)[v.current] = 0
         /\ \A u \in AliveIn(v) : LeftOf(v, FALSE)[u] = 0 =>
              InitPriority[v.current] <= InitPriority[u]
<1> DEFINE c == v.current
<1>1. /\ v \in KState /\ ReadyLists(v) /\ CurrentOnly(v) /\ NoTwice(ThreadsOf(v.timers))
      /\ c \in Thread
  BY DEF Sound, KState
<1>2. ~Sleeps(v, c) BY <1>1 DEF Sound
<1>3. c \in AliveIn(v) /\ LeftOf(v, FALSE)[c] = 0 BY <1>1, <1>2, LeftValue DEF AliveIn
<1>4. \A u \in Thread : InitPriority[u] \in Nat BY KernelAssumption, SchedulerAssumption
<1>5. ASSUME NEW u \in AliveIn(v), LeftOf(v, FALSE)[u] = 0
      PROVE  InitPriority[c] <= InitPriority[u]
  <2>1. u \in Thread /\ v.stat[u] \in {"READY", "RUNNING", "SUSPEND"}
    BY <1>1 DEF AliveIn, KState, Stat
  <2>2. v.stat[u] # "SUSPEND"
    <3>1. \A a : TimerAt(v, u, a) => a \in Int /\ LeftOf(v, FALSE)[u] = TicksOf(a, FALSE)
      BY <1>1, <2>1, LeftValue
    <3>2. \A a \in Int : TicksOf(a, FALSE) # 0 BY DEF TicksOf
    <3>3. ~Sleeps(v, u) BY <1>1, <1>5, <2>1, <3>1, <3>2, LeftValue
    <3>4. QED BY <2>1, <3>3 DEF Sound
  <2>3. CASE v.stat[u] = "RUNNING"
    <3>1. u = c BY <1>1, <2>1, <2>3 DEF CurrentOnly
    <3>2. QED BY <1>1, <1>4, <3>1
  <2>4. CASE v.stat[u] = "READY"
    <3> DEFINE p == v.priority[u]
    <3>1. p \in Priority /\ v.table[p] \in Seq(Thread) /\ p = InitPriority[u]
      BY <1>1, <2>1 DEF KState
    <3>2. p \in v.group BY <1>1, <2>1, <2>4, <3>1, EmptyOrHead DEF ReadyLists
    <3>3. HighestReady(v) \in Nat /\ HighestReady(v) <= p BY <1>1, <3>2, Highest
    <3>4. ~(InitPriority[c] > HighestReady(v)) BY <3>2 DEF Below
    <3>5. QED BY <1>1, <1>4, <2>1, <3>1, <3>3, <3>4
  <2>5. QED BY <2>1, <2>2, <2>3, <2>4
<1>6. QED BY <1>3, <1>5

\* Whoever is given the processor is promised to be one it may be given to.
LEMMA SwitchTo ==
  ASSUME IInv', Prompt', AliveNow' = AliveNow, LeftNow' = LeftNow, HolderNow' = HolderNow
  PROVE  Promise!Switch
<1> DEFINE urgent == {t \in AliveNow : /\ LeftNow[t] = 0
                                       /\ \A u \in AliveNow : LeftNow[u] = 0 =>
                                            InitPriority[t] <= InitPriority[u]}
<1>1. /\ Sound(k') /\ k'.current \in Thread /\ k'.priority = InitPriority /\ k'.lock \in Nat
      /\ k' \in KState
  BY KernelAssumption DEF IInv, Sound, KState, Origins, TypeOK
<1>2. Nobody \notin Thread BY KernelAssumption
<1>3. RunningNow' \in {Nobody} \cup (IF HolderNow = Nobody THEN urgent ELSE {HolderNow})
  <2>1. CASE ~(~isr' /\ pc'[k'.current] = "user")
    <3>1. RunningNow' = Nobody BY <2>1 DEF RunningNow
    <3>2. QED BY <3>1
  <2>2. CASE ~isr' /\ pc'[k'.current] = "user"
    <3>1. RunningNow' = k'.current BY <2>2 DEF RunningNow
    <3>2. CASE k'.lock > 0
      <4>1. HolderNow' = k'.current BY <3>2 DEF HolderNow
      <4>2. HolderNow = k'.current /\ HolderNow # Nobody BY <1>1, <1>2, <4>1
      <4>3. QED BY <3>1, <4>2
    <3>3. CASE ~(k'.lock > 0)
      <4>1. k'.lock = 0 BY <1>1, <3>3
      <4>2. HolderNow = Nobody BY <3>3 DEF HolderNow
      <4>3. k'.stat[k'.current] = "RUNNING" BY <2>2 DEF IInv, RunsOrCalls
      <4>4. ~Below(k') BY <2>2, <4>1 DEF Prompt
      <4>5. TimedFrom(k', 0) BY <2>2 DEF Prompt
      <4>6. /\ k'.current \in AliveIn(k') /\ LeftOf(k', FALSE)[k'.current] = 0
            /\ \A u \in AliveIn(k') : LeftOf(k', FALSE)[u] = 0 =>
                 InitPriority[k'.current] <= InitPriority[u]
        BY <1>1, <4>3, <4>4, <4>5, CurrentMostUrgent
      <4>7. AliveIn(k') = AliveNow BY DEF AliveIn, AliveNow
      <4>8. isr' = FALSE BY <2>2 DEF IInv, TypeOK
      <4>9. LeftOf(k', FALSE) = LeftNow BY <4>8, LeftNowIs
      <4>10. k'.current \in urgent BY <4>6, <4>7, <4>9
      <4>11. QED BY <3>1, <4>2, <4>10
    <3>4. QED BY <3>2, <3>3
  <2>3. QED BY <2>1, <2>2
<1> HIDE DEF urgent
<1>4. urgent = Promise!MostUrgent
  BY DEF urgent, AliveNow, LeftNow, Promise!MostUrgent, Promise!Awake
<1>5. QED BY <1>3, <1>4 DEF Promise!Switch, AliveNow, LeftNow, RunningNow, HolderNow

-----------------------------------------------------------------------------
(***************************************************************************)
(* The steps of the interrupt keep the promise.                            *)
(***************************************************************************)
\* The thread in a critical section, if any, is the same.
SameHolder == k'.lock = k.lock /\ (k.lock > 0 => k'.current = k.current)

\* No critical section is entered or left.
LEMMA HolderKept == SameHolder => HolderNow' = HolderNow
BY DEF SameHolder, HolderNow

\* No thread starts or ends.
LEMMA AliveKept == Respects(k, k') => AliveNow' = AliveNow
<1> SUFFICES ASSUME Respects(k, k')
             PROVE  AliveNow' = AliveNow
  OBVIOUS
<1>1. \A t \in Thread : IF k.stat[t] \in {"INIT", "CLOSE"} THEN k'.stat[t] = k.stat[t]
                        ELSE k'.stat[t] \notin {"INIT", "CLOSE"}
  BY DEF Respects
<1>2. \A t \in Thread : k'.stat[t] \notin {"INIT", "CLOSE"} <=> k.stat[t] \notin {"INIT", "CLOSE"}
  BY <1>1
<1>3. QED BY <1>2 DEF AliveNow

\* At the start main is executed, and nobody sleeps.
LEMMA PromptInit == Init => Prompt /\ Promise!Init
<1> SUFFICES ASSUME Init
             PROVE  Prompt /\ Promise!Init
  OBVIOUS
<1>1. IInv BY InitHolds
<1>2. k.timers = <<>> /\ k.lock = 0 /\ k.current = Main /\ isr = FALSE /\ pc[Main] = "user"
      /\ k.group = {InitPriority[Idle]} /\ k.priority = InitPriority /\ Main \in Thread
      /\ Idle \in Thread /\ Main # Idle
  BY KernelAssumption DEF Init
<1>3. TimedFrom(k, 0)
  <2>1. Len(k.timers) = 0 BY <1>2
  <2>2. 1 .. 0 = {} OBVIOUS
  <2>3. QED BY <2>1, <2>2 DEF TimedFrom, InTime
<1>4. ~Below(k)
  <2>1. k \in KState /\ k.group # {} BY <1>1, <1>2 DEF IInv, Sound
  <2>2. HighestReady(k) = InitPriority[Idle] BY <1>2, <2>1, Highest
  <2>3. /\ InitPriority[Main] <= InitPriority[Idle]
        /\ InitPriority[Main] \in Nat /\ InitPriority[Idle] \in Nat
    BY <1>2, KernelAssumption, SchedulerAssumption
  <2>4. QED BY <1>2, <2>2, <2>3 DEF Below
<1>5. Prompt BY <1>2, <1>3, <1>4 DEF Prompt
<1>6. Sound(k) /\ k.stat[k.current] = "RUNNING" BY <1>1, <1>2 DEF IInv, RunsOrCalls
<1>7. /\ Main \in AliveIn(k) /\ LeftOf(k, FALSE)[Main] = 0
      /\ \A u \in AliveIn(k) : LeftOf(k, FALSE)[u] = 0 => InitPriority[Main] <= InitPriority[u]
  BY <1>2, <1>3, <1>4, <1>6, CurrentMostUrgent
<1>8. AliveNow = {Main, Idle}
  <2>1. k.stat = [t \in Thread |-> IF t = Main THEN "RUNNING"
                                   ELSE IF t = Idle THEN "READY" ELSE "INIT"]
    BY DEF Init
  <2>2. QED BY <1>2, <2>1 DEF AliveNow
<1>9. LeftNow = [t \in Thread |-> 0]
  <2>1. \A t \in Thread : ~Sleeps(k, t)
    <3>1. Len(k.timers) = 0 /\ k.timers \in Timers BY <1>2 DEF Timers
    <3>2. Len(ThreadsOf(k.timers)) = 0 BY <3>1, ThreadsOfProperties
    <3>3. QED BY <3>2 DEF Sleeps, In
  <2>2. \A t \in Thread : TicksLeft(t) = 0 BY <2>1 DEF TicksLeft, Sleepers, Sleeps
  <2>3. QED BY <2>2 DEF LeftNow
<1>10. AliveIn(k) = AliveNow /\ LeftOf(k, FALSE) = LeftNow
  BY <1>2, LeftNowIs DEF AliveIn, AliveNow
<1>11. RunningNow = Main /\ HolderNow = Nobody BY <1>2 DEF RunningNow, HolderNow
<1>12. Main \in Promise!MostUrgent
  BY <1>7, <1>10 DEF AliveNow, LeftNow, Promise!MostUrgent, Promise!Awake
<1>13. Promise!Init
  BY <1>8, <1>9, <1>11, <1>12 DEF Promise!Init, AliveNow, LeftNow, RunningNow, HolderNow
<1>14. QED BY <1>5, <1>13

\* A tick makes every sleep one tick shorter, although the timers have not fired yet.
LEMMA TickKeepsPromise ==
  ASSUME IInv, IInv', Prompt, rt_tick_increase
  PROVE  Prompt' /\ Promise!Elapse
<1> DEFINE k1 == [k EXCEPT !.tick = (k.tick + 1) % Ticks]
<1>1. /\ k \in KState /\ Sound(k) /\ k.tick \in Tick /\ k.timers \in Timers
      /\ NoTwice(ThreadsOf(k.timers)) /\ isr = FALSE /\ isr' = TRUE /\ pc' = pc
  BY DEF IInv, Sound, KState, TypeOK, rt_tick_increase
<1>2. TimedFrom(k, 0) BY <1>1 DEF Prompt
<1>3. /\ (k.tick + 1) % Ticks \in Tick
      /\ InTime(k.timers, (k.tick + 1) % Ticks, -1)
      /\ \A u, a : HasTimer(k.timers, k.tick, u, a)
                     => HasTimer(k.timers, (k.tick + 1) % Ticks, u, a - 1)
  <2>1. (k.tick + 1) % Ticks \in Tick
    <3>1. k.tick + 1 \in Int /\ Ticks \in Nat /\ Ticks >= 5 /\ Tick = 0 .. Ticks - 1
      BY <1>1, HalfRange
    <3>2. QED BY <3>1
  <2>2. QED BY <1>1, <1>2, <2>1, TickInTime DEF TimedFrom
<1>4. /\ k1 \in KState /\ k1.current = k.current /\ k1.stat = k.stat
      /\ k1.priority = k.priority /\ k1.table = k.table /\ k1.group = k.group
      /\ k1.lock = k.lock /\ k1.timers = k.timers /\ k1.tick = (k.tick + 1) % Ticks
  BY <1>1, <1>3 DEF KState
<1>5. k' = k1 \/ k' = rt_schedule(k1) BY DEF rt_tick_increase
<1> HIDE DEF k1
<1>6. Sound(k1) BY <1>1, <1>4 DEF Sound, ReadyLists, CurrentOnly, Sleeps
<1>7. /\ k'.timers = k.timers /\ k'.tick = (k.tick + 1) % Ticks
      /\ Respects(k1, k') /\ k'.lock = k.lock
      /\ k.lock # 0 => k'.current = k.current
      /\ k' = k1 \/ (k.lock = 0 => ~Below(k'))
  <2>1. CASE k' = k1 BY <1>4, <2>1 DEF Respects
  <2>2. CASE k' = rt_schedule(k1)
    <3> DEFINE r == rt_schedule(k1)
    <3>1. k' = r BY <2>2
    <3>2. Rest(r) = Rest(k1) BY <1>6, ScheduleLemma DEF Sound
    <3>3. Respects(k1, r) /\ (k1.lock # 0 => r = k1) BY <1>6, ScheduleSound
    <3>4. k1.lock = 0 => ~Below(r) BY <1>6, ScheduleHighest DEF Sound
    <3> HIDE DEF r
    <3>5. QED BY <1>4, <3>1, <3>2, <3>3, <3>4 DEF Rest
  <2>3. QED BY <1>5, <2>1, <2>2
<1>8. Respects(k, k') BY <1>4, <1>7 DEF Respects
<1>9. TimedFrom(k', -1) BY <1>3, <1>7 DEF TimedFrom
<1>10. Below(k1) <=> Below(k) BY <1>4 DEF Below, HighestReady
<1>11. Prompt'
  <2>1. TimedFrom(k', IF isr' THEN -1 ELSE 0) BY <1>1, <1>9
  <2>2. k'.lock = 0 /\ pc'[k'.current] = "user" => ~Below(k')
    BY <1>1, <1>4, <1>7, <1>10 DEF Prompt
  <2>3. QED BY <2>1, <2>2 DEF Prompt
<1>12. AliveNow' = AliveNow /\ HolderNow' = HolderNow
  <2>1. SameHolder BY <1>1, <1>7 DEF SameHolder, KState
  <2>2. QED BY <1>8, <2>1, AliveKept, HolderKept
<1>13. k' \in KState /\ NoTwice(ThreadsOf(k'.timers)) BY DEF IInv, Sound
<1>14. ASSUME NEW u \in Thread
       PROVE  LeftNow'[u] = IF LeftNow[u] > 0 THEN LeftNow[u] - 1 ELSE 0
  <2> DEFINE left == LeftOf(k, FALSE)[u]
             next == LeftOf(k', TRUE)[u]
  <2>1. /\ ~Sleeps(k, u) => left = 0
        /\ Sleeps(k, u) => \E a \in Int : TimerAt(k, u, a)
        /\ \A a : TimerAt(k, u, a) =>
             a \in 0 .. Half - 1 /\ a \in Int /\ left = TicksOf(a, FALSE)
    BY <1>1, <1>2, LeftValue
  <2>2. /\ ~Sleeps(k', u) => next = 0
        /\ \A a : TimerAt(k', u, a) => next = TicksOf(a, TRUE)
    BY <1>9, <1>13, LeftValue
  <2>3. Sleeps(k', u) <=> Sleeps(k, u) BY <1>7 DEF Sleeps
  <2>4. \A a : TimerAt(k, u, a) => TimerAt(k', u, a - 1) BY <1>3, <1>7 DEF TimerAt
  <2>5. LeftNow[u] = left /\ LeftNow'[u] = next BY <1>1, LeftNowIs
  <2> HIDE DEF left, next
  <2>6. CASE ~Sleeps(k, u) BY <2>1, <2>2, <2>3, <2>5, <2>6
  <2>7. CASE Sleeps(k, u)
    <3>1. PICK a \in Int : TimerAt(k, u, a) BY <2>1, <2>7
    <3>2. a \in 0 .. Half - 1 /\ left = TicksOf(a, FALSE) BY <2>1, <3>1
    <3>3. next = TicksOf(a - 1, TRUE) BY <2>2, <2>4, <3>1
    <3>4. Half \in Nat BY HalfRange
    <3>5. left = IF a = 0 THEN 1 ELSE a BY <3>2 DEF TicksOf
    <3>6. next = IF a - 1 <= 0 THEN 0 ELSE a - 1 BY <3>3 DEF TicksOf
    <3>7. CASE a = 0
      <4>1. left = 1 /\ next = 0 BY <3>5, <3>6, <3>7
      <4>2. QED BY <2>5, <4>1
    <3>8. CASE a # 0
      <4>1. a > 0 /\ (a - 1 <= 0 => a - 1 = 0) BY <3>2, <3>4, <3>8
      <4>2. left = a BY <3>5, <3>8
      <4>3. next = a - 1 BY <3>6, <4>1
      <4>4. QED BY <2>5, <4>1, <4>2, <4>3
    <3>9. QED BY <3>7, <3>8
  <2>8. QED BY <2>6, <2>7
<1>15. LeftNow' = [t \in Thread |-> IF LeftNow[t] > 0 THEN LeftNow[t] - 1 ELSE 0]
  <2>1. LeftNow' = [t \in Thread |-> LeftNow'[t]] BY LeftNowMap
  <2>2. QED BY <1>14, <2>1
<1>16. RunningNow' = Nobody BY <1>1 DEF RunningNow
<1>17. Promise!Elapse
  BY <1>12, <1>15, <1>16
     DEF Promise!Elapse, AliveNow, LeftNow, RunningNow, HolderNow
<1>18. QED BY <1>11, <1>17

\* The first timer's sleep was over when the tick came.
LEMMA TimerKeepsPromise ==
  ASSUME IInv, IInv', Prompt, TimerFires
  PROVE  Prompt' /\ Promise!Switch
<1> DEFINE l == k.timers
           t == Head(l).thread
           s == rt_thread_timeout(k, t)
           b == rt_timer_stop(k, t)
<1>1. /\ Sound(k) /\ k \in KState /\ k.tick \in Tick /\ l \in Timers /\ l # <<>>
      /\ NoTwice(ThreadsOf(l)) /\ k' = s /\ NotBefore(k.tick, Head(l).due)
      /\ isr = TRUE /\ isr' = TRUE /\ pc' = pc
  BY DEF IInv, Sound, KState, TypeOK, TimerFires, FirstTimerDue
<1>2. TimedFrom(k, -1) BY <1>1 DEF Prompt
<1>3. 1 \in 1 .. Len(l) /\ Head(l) = l[1] /\ l[1].due \in Tick /\ t \in Thread
  <2>1. 1 \in 1 .. Len(l) /\ Head(l) = l[1] BY <1>1 DEF Timers
  <2>2. QED BY <1>1, <2>1, Elements
<1>4. Sleeps(k, t)
  <2>1. Len(ThreadsOf(l)) = Len(l) /\ ThreadsOf(l)[1] = t BY <1>1, <1>3, ThreadsOfProperties
  <2>2. QED BY <1>3, <2>1 DEF Sleeps, In
<1> HIDE DEF s, b
<1>5. /\ Sound(s) /\ Respects(k, s) /\ s.lock = k.lock
      /\ IF k.lock = 0 THEN ~Below(s) ELSE s.current = k.current
      /\ s.timers = b.timers /\ s.tick = k.tick
  BY <1>1, <1>3, <1>4, TimeoutSound DEF s, b
<1>6. /\ TimedFrom(b, -1)
      /\ \A u, a : TimerAt(b, u, a) <=> TimerAt(k, u, a) /\ u # t
      /\ b.tick = k.tick
  <2>1. b.tick = k.tick BY <1>1, <1>3, Stop DEF b, AllButTimers
  <2>2. QED BY <1>1, <1>2, <1>3, <2>1, StopTimed DEF b
<1>7. /\ TimedFrom(k', -1)
      /\ \A u, a : TimerAt(k', u, a) <=> TimerAt(k, u, a) /\ u # t
  BY <1>1, <1>5, <1>6 DEF TimedFrom, TimerAt
<1>8. Prompt' BY <1>1, <1>5, <1>7 DEF Prompt
<1>9. k.lock # 0 => k'.current = k.current BY <1>1, <1>5
<1>10. AliveNow' = AliveNow /\ HolderNow' = HolderNow
  <2>1. SameHolder
    <3>1. k.lock > 0 => k.lock # 0 OBVIOUS
    <3>2. QED BY <1>1, <1>5, <1>9, <3>1 DEF SameHolder
  <2>2. QED BY <1>1, <1>5, <2>1, AliveKept, HolderKept
<1>11. k' \in KState /\ NoTwice(ThreadsOf(k'.timers)) /\ Sound(k') BY DEF IInv, Sound
<1>12. ASSUME NEW u \in Thread
       PROVE  LeftNow'[u] = LeftNow[u]
  <2> DEFINE left == LeftOf(k, TRUE)[u]
             next == LeftOf(k', TRUE)[u]
  <2>1. /\ ~Sleeps(k, u) => left = 0
        /\ Sleeps(k, u) => \E a \in Int : TimerAt(k, u, a)
        /\ \A a : TimerAt(k, u, a) => Sleeps(k, u) /\ left = TicksOf(a, TRUE)
    BY <1>1, <1>2, LeftValue
  <2>2. /\ ~Sleeps(k', u) => next = 0
        /\ Sleeps(k', u) => \E a \in Int : TimerAt(k', u, a)
        /\ \A a : TimerAt(k', u, a) => Sleeps(k', u) /\ next = TicksOf(a, TRUE)
    BY <1>7, <1>11, LeftValue
  <2>3. LeftNow[u] = left /\ LeftNow'[u] = next BY <1>1, LeftNowIs
  <2> HIDE DEF left, next
  <2>4. CASE u = t
    <3>1. next = 0 BY <1>7, <2>2, <2>4
    <3>2. left = 0
      <4> DEFINE a == Ahead(k.tick, l[1].due)
      <4>1. TimerAt(k, t, a) BY <1>3 DEF TimerAt, HasTimer
      <4>2. a \in -1 .. Half - 1 BY <1>2, <1>3 DEF TimedFrom, InTime
      <4>3. a <= 0 BY <1>1, <1>3, <4>2, DueWhenReached
      <4> HIDE DEF a
      <4>4. left = TicksOf(a, TRUE) BY <2>1, <2>4, <4>1
      <4>5. QED BY <4>3, <4>4 DEF TicksOf
    <3>3. QED BY <2>3, <3>1, <3>2
  <2>5. CASE u # t BY <1>7, <2>1, <2>2, <2>3, <2>5
  <2>6. QED BY <2>4, <2>5
<1>13. LeftNow' = LeftNow BY <1>12, LeftNowSame
<1>14. QED BY <1>8, <1>10, <1>13, SwitchTo

\* The tick interrupt does not end before every sleep that is over has been ended.
LEMMA TickEndKeepsPromise ==
  ASSUME IInv, IInv', Prompt, TickEnds
  PROVE  Prompt' /\ Promise!Switch
<1> DEFINE l == k.timers
<1>1. /\ k' = k /\ k \in KState /\ k.tick \in Tick /\ l \in Timers /\ NoTwice(ThreadsOf(l))
      /\ isr = TRUE /\ isr' = FALSE /\ pc' = pc /\ ~FirstTimerDue(k)
  BY DEF IInv, Sound, KState, TypeOK, TickEnds
<1>2. TimedFrom(k, -1) BY <1>1 DEF Prompt
<1>3. Half \in Nat BY HalfRange
<1>4. Len(l) \in Nat /\ \A i \in 1 .. Len(l) : l[i].due \in Tick BY <1>1, Elements
<1>5. \A i \in 1 .. Len(l) : Ahead(k.tick, l[i].due) \in 1 .. Half - 1
  <2> SUFFICES ASSUME NEW i \in 1 .. Len(l)
               PROVE  Ahead(k.tick, l[i].due) \in 1 .. Half - 1
    OBVIOUS
  <2> DEFINE a == Ahead(k.tick, l[1].due)
             b == Ahead(k.tick, l[i].due)
  <2>1. 1 \in 1 .. Len(l) /\ Len(l) # 0 BY <1>4
  <2>2. Head(l) = l[1] /\ l # <<>> BY <1>1, <2>1 DEF Timers
  <2>3. ~NotBefore(k.tick, l[1].due) BY <1>1, <2>2 DEF FirstTimerDue
  <2>4. a \in -1 .. Half - 1 /\ b \in -1 .. Half - 1 BY <1>2, <2>1 DEF TimedFrom, InTime
  <2>5. ~(a <= 0) BY <1>1, <1>4, <2>1, <2>3, <2>4, DueWhenReached
  <2>6. 1 < i => a <= b BY <1>2, <2>1 DEF TimedFrom, InTime
  <2>7. i = 1 => a = b OBVIOUS
  <2> HIDE DEF a, b, l
  <2>8. i = 1 \/ 1 < i BY <1>4
  <2>9. QED BY <1>3, <2>4, <2>5, <2>6, <2>7, <2>8 DEF b
<1>6. TimedFrom(k, 0)
  <2>1. \A i \in 1 .. Len(l) : Ahead(k.tick, l[i].due) \in 0 .. Half - 1
    <3>1. 1 .. Half - 1 \subseteq 0 .. Half - 1 BY <1>3
    <3>2. QED BY <1>5, <3>1
  <2>2. QED BY <1>2, <2>1 DEF TimedFrom, InTime
<1>7. TimedFrom(k', 0) BY <1>1, <1>6
<1>8. Prompt' BY <1>1, <1>7 DEF Prompt
<1>9. AliveNow' = AliveNow /\ HolderNow' = HolderNow BY <1>1 DEF AliveNow, HolderNow
<1>10. ASSUME NEW u \in Thread
       PROVE  LeftNow'[u] = LeftNow[u]
  <2> DEFINE left == LeftOf(k, TRUE)[u]
             next == LeftOf(k, FALSE)[u]
  <2>1. /\ ~Sleeps(k, u) => left = 0
        /\ Sleeps(k, u) => \E a \in Int : TimerAt(k, u, a)
        /\ \A a : TimerAt(k, u, a) => left = TicksOf(a, TRUE)
    BY <1>1, <1>2, LeftValue
  <2>2. /\ ~Sleeps(k, u) => next = 0
        /\ \A a : TimerAt(k, u, a) => next = TicksOf(a, FALSE)
    BY <1>1, <1>6, LeftValue
  <2>3. LeftNow[u] = left /\ LeftNow'[u] = next BY <1>1, LeftNowIs
  <2>4. \A a : TimerAt(k, u, a) => a \in 1 .. Half - 1 BY <1>5 DEF TimerAt, HasTimer
  <2>5. \A a \in 1 .. Half - 1 : TicksOf(a, TRUE) = a /\ TicksOf(a, FALSE) = a
    BY <1>3 DEF TicksOf
  <2> HIDE DEF left, next
  <2>6. CASE ~Sleeps(k, u) BY <2>1, <2>2, <2>3, <2>6
  <2>7. CASE Sleeps(k, u)
    <3>1. PICK a \in Int : TimerAt(k, u, a) BY <2>1, <2>7
    <3>2. left = a /\ next = a BY <2>1, <2>2, <2>4, <2>5, <3>1
    <3>3. QED BY <2>3, <3>2
  <2>8. QED BY <2>6, <2>7
<1>11. LeftNow' = LeftNow BY <1>10, LeftNowSame
<1>12. QED BY <1>8, <1>9, <1>11, SwitchTo

-----------------------------------------------------------------------------
(***************************************************************************)
(* The steps of the threads keep the promise.                              *)
(***************************************************************************)
\* A call of rt_schedule outside of the interrupt.
LEMMA CallKeepsPromise ==
  ASSUME IInv, IInv', Prompt, k' = rt_schedule(k), isr = FALSE, isr' = FALSE
  PROVE  Prompt' /\ Promise!Switch
<1> DEFINE s == rt_schedule(k)
<1>1. /\ Sound(k) /\ k \in KState /\ ReadyLists(k) /\ CurrentOnly(k) /\ k' = s
  BY DEF IInv, Sound
<1>2. Rest(s) = Rest(k) BY <1>1, ScheduleLemma
<1>3. Respects(k, s) /\ (k.lock # 0 => s = k) BY <1>1, ScheduleSound
<1>4. k.lock = 0 => ~Below(s) BY <1>1, ScheduleHighest
<1> HIDE DEF s
<1>5. s.timers = k.timers /\ s.tick = k.tick /\ s.lock = k.lock BY <1>2 DEF Rest
<1>6. Prompt' BY <1>1, <1>4, <1>5 DEF Prompt, TimedFrom
<1>7. AliveNow' = AliveNow BY <1>1, <1>3, AliveKept
<1>8. HolderNow' = HolderNow
  <2>1. k.lock > 0 => k.lock # 0 OBVIOUS
  <2>2. SameHolder BY <1>1, <1>3, <1>5, <2>1 DEF SameHolder
  <2>3. QED BY <2>2, HolderKept
<1>9. LeftNow' = LeftNow
  <2>1. LeftOf(k', isr') = LeftOf(k, isr) BY <1>1, <1>5 DEF LeftOf
  <2>2. QED BY <2>1, LeftNowIs
<1>10. QED BY <1>6, <1>7, <1>8, <1>9, SwitchTo

\* A sleep lasts as many ticks as asked for, or until the next tick.
LEMMA SleepKeepsPromise ==
  ASSUME IInv, IInv', Prompt, NEW t \in Thread, NEW n \in Naps, Sleep(t, n)
  PROVE  Prompt' /\ Promise!Sleep(n)
<1>1. /\ InUser(t) /\ k.lock = 0 /\ t # Idle
      /\ k' = rt_timer_start(rt_thread_suspend(k, t), t, n)
      /\ pc' = [pc EXCEPT ![t] = "schedule"] /\ isr' = isr
  BY DEF Sleep, rt_thread_sleep, ThenSchedule
<1>2. /\ k.current = t /\ k.stat[t] = "RUNNING" /\ Sound(k) /\ ~Sleeps(k, t)
      /\ isr = FALSE /\ pc[t] = "user"
  BY <1>1, UserRuns DEF InUser, IInv, TypeOK
<1> DEFINE q == Halted(k, t, "SUSPEND")
           s == rt_timer_start(q, t, n)
<1>3. rt_thread_suspend(k, t) = q BY <1>2 DEF rt_thread_suspend, Halted
<1>4. k' = s BY <1>1, <1>3
<1> HIDE DEF q
<1>5. /\ q \in KState /\ NoTwice(ThreadsOf(q.timers))
      /\ q.stat = [k.stat EXCEPT ![t] = "SUSPEND"]
      /\ q.current = t /\ q.lock = 0 /\ q.timers = k.timers /\ q.tick = k.tick
  <2>1. "SUSPEND" \in Stat /\ "SUSPEND" # "READY" /\ "SUSPEND" # "RUNNING" BY DEF Stat
  <2>2. QED BY <1>1, <1>2, <2>1, Stopped DEF q
<1>6. n \in Nat BY KernelAssumption
<1>7. AllButTimers(s) = AllButTimers(q) BY <1>5, <1>6, Start
<1>8. /\ TimedFrom(s, 0)
      /\ \A u, a : TimerAt(s, u, a) <=> (TimerAt(q, u, a) /\ u # t) \/ (u = t /\ a = n)
  <2>1. TimedFrom(q, 0) BY <1>2, <1>5 DEF Prompt, TimedFrom
  <2>2. QED BY <1>5, <2>1, StartTimed
<1> HIDE DEF s
<1>9. s.stat = q.stat /\ s.current = t /\ s.lock = 0 BY <1>5, <1>7 DEF AllButTimers
<1>10. k \in KState /\ k' \in KState /\ NoTwice(ThreadsOf(k'.timers)) /\ NoTwice(ThreadsOf(k.timers))
  BY <1>2 DEF IInv, Sound
<1>11. pc'[t] = "schedule" BY <1>1 DEF IInv, TypeOK
<1>12. Prompt' BY <1>1, <1>2, <1>4, <1>8, <1>9, <1>11 DEF Prompt
<1>13. AliveNow' = AliveNow BY <1>2, <1>4, <1>5, <1>9, <1>10 DEF AliveNow, KState
<1>14. HolderNow' = HolderNow /\ HolderNow = Nobody BY <1>1, <1>4, <1>9 DEF HolderNow
<1>15. ASSUME NEW u \in Thread
       PROVE  LeftNow'[u] = IF u = t THEN IF n = 0 THEN 1 ELSE n ELSE LeftNow[u]
  <2> DEFINE left == LeftOf(k, FALSE)[u]
             next == LeftOf(k', FALSE)[u]
  <2>1. /\ ~Sleeps(k, u) => left = 0
        /\ Sleeps(k, u) => \E a \in Int : TimerAt(k, u, a)
        /\ \A a : TimerAt(k, u, a) => Sleeps(k, u) /\ left = TicksOf(a, FALSE)
    BY <1>2, <1>10, LeftValue DEF Prompt
  <2>2. /\ ~Sleeps(k', u) => next = 0
        /\ Sleeps(k', u) => \E a \in Int : TimerAt(k', u, a)
        /\ \A a : TimerAt(k', u, a) => Sleeps(k', u) /\ next = TicksOf(a, FALSE)
    BY <1>4, <1>8, <1>10, LeftValue
  <2>3. LeftNow[u] = left /\ LeftNow'[u] = next BY <1>1, <1>2, LeftNowIs
  <2>4. \A a : TimerAt(k', u, a) <=> (TimerAt(k, u, a) /\ u # t) \/ (u = t /\ a = n)
    BY <1>4, <1>5, <1>8 DEF TimerAt
  <2> HIDE DEF left, next
  <2>5. CASE u = t
    <3>1. next = TicksOf(n, FALSE) BY <2>2, <2>4, <2>5
    <3>2. QED BY <2>3, <2>5, <3>1 DEF TicksOf
  <2>6. CASE u # t BY <2>1, <2>2, <2>3, <2>4, <2>6
  <2>7. QED BY <2>5, <2>6
<1>16. LeftNow' = [LeftNow EXCEPT ![t] = IF n = 0 THEN 1 ELSE n]
  <2> DEFINE next == [LeftNow EXCEPT ![t] = IF n = 0 THEN 1 ELSE n]
  <2>1. /\ LeftNow' = [u \in Thread |-> LeftNow'[u]]
        /\ next = [u \in Thread |-> IF u = t THEN IF n = 0 THEN 1 ELSE n ELSE LeftNow[u]]
    BY LeftNowMap
  <2>2. QED BY <1>15, <2>1
<1>17. RunningNow = t /\ RunningNow' = Nobody /\ t # Nobody
  BY <1>2, <1>4, <1>9, <1>11, KernelAssumption DEF RunningNow
<1>18. Promise!Sleep(n)
  BY <1>13, <1>14, <1>16, <1>17
     DEF Promise!Sleep, AliveNow, LeftNow, RunningNow, HolderNow
<1>19. QED BY <1>12, <1>18

\* Entering a critical section.
LEMMA EnterKeepsPromise ==
  ASSUME IInv, IInv', Prompt, NEW t \in Thread, rt_enter_critical(t)
  PROVE  Prompt' /\ Promise!Hold
<1>1. /\ InUser(t) /\ k' = [k EXCEPT !.lock = k.lock + 1] /\ isr' = isr /\ pc' = pc
      /\ k.lock \in Nat /\ k \in KState
  BY KernelAssumption DEF rt_enter_critical, IInv, Sound, TypeOK
<1>2. /\ k'.current = k.current /\ k'.stat = k.stat /\ k'.lock = k.lock + 1
      /\ k'.timers = k.timers /\ k'.tick = k.tick /\ k'.lock > 0
  BY <1>1 DEF KState
<1>3. Prompt' BY <1>1, <1>2 DEF Prompt, TimedFrom
<1>4. k.current = t /\ RunningNow = t /\ RunningNow' = t /\ HolderNow' = t /\ t # Nobody
  BY <1>1, <1>2, KernelAssumption DEF RunningNow, HolderNow, InUser
<1>5. AliveNow' = AliveNow BY <1>2 DEF AliveNow
<1>6. LeftNow' = LeftNow
  <2>1. LeftOf(k', isr') = LeftOf(k, isr) BY <1>1, <1>2 DEF LeftOf
  <2>2. QED BY <2>1, LeftNowIs
<1>7. QED
  BY <1>3, <1>4, <1>5, <1>6 DEF Promise!Hold, AliveNow, LeftNow, RunningNow, HolderNow

\* Leaving one, the outermost or an inner one.
LEMMA ExitKeepsPromise ==
  ASSUME IInv, IInv', Prompt, NEW t \in Thread, rt_exit_critical(t)
  PROVE  Prompt' /\ (Promise!Release \/ UNCHANGED Promise!vars)
<1>1. /\ InUser(t) /\ k.lock > 0 /\ k' = [k EXCEPT !.lock = k.lock - 1] /\ isr' = isr
      /\ IF k.lock = 1 THEN pc' = [pc EXCEPT ![t] = "schedule"] ELSE pc' = pc
      /\ k.lock \in Nat /\ k \in KState
  <2>1. /\ InUser(t) /\ k.lock > 0 /\ k' = [k EXCEPT !.lock = k.lock - 1] /\ isr' = isr
        /\ IF k.lock = 1 THEN pc' = [pc EXCEPT ![t] = "schedule"] ELSE pc' = pc
    BY DEF rt_exit_critical, ThenSchedule
  <2>2. k \in KState BY DEF IInv, Sound
  <2>3. k.lock \in Nat BY <2>1, <2>2 DEF KState
  <2>4. QED BY <2>1, <2>2, <2>3
<1>2. /\ k'.current = k.current /\ k'.stat = k.stat /\ k'.lock = k.lock - 1
      /\ k'.timers = k.timers /\ k'.tick = k.tick
  BY <1>1 DEF KState
<1>3. k.current = t /\ pc[t] = "user" /\ ~isr /\ RunningNow = t /\ HolderNow = t /\ t # Nobody
  BY <1>1, KernelAssumption DEF RunningNow, HolderNow, InUser
<1>4. k.lock = 1 => pc'[t] = "schedule" BY <1>1 DEF IInv, TypeOK
<1>5. Prompt'
  <2>1. k'.lock = 0 => k.lock = 1 BY <1>1, <1>2
  <2>2. QED BY <1>1, <1>2, <1>3, <1>4, <2>1 DEF Prompt, TimedFrom
<1>6. AliveNow' = AliveNow BY <1>2 DEF AliveNow
<1>7. LeftNow' = LeftNow
  <2>1. LeftOf(k', isr') = LeftOf(k, isr) BY <1>1, <1>2 DEF LeftOf
  <2>2. QED BY <2>1, LeftNowIs
<1>8. CASE k.lock = 1
  <2>1. k'.lock = 0 BY <1>2, <1>8
  <2>2. HolderNow' = Nobody /\ RunningNow' = Nobody
    BY <1>2, <1>3, <1>4, <1>8, <2>1 DEF HolderNow, RunningNow
  <2>3. Promise!Release
    BY <1>3, <1>6, <1>7, <2>2
       DEF Promise!Release, AliveNow, LeftNow, RunningNow, HolderNow
  <2>4. QED BY <1>5, <2>3
<1>9. CASE k.lock # 1
  <2>1. k'.lock > 0 /\ pc' = pc BY <1>1, <1>2, <1>9
  <2>2. HolderNow' = HolderNow /\ RunningNow' = RunningNow
    BY <1>1, <1>2, <2>1 DEF HolderNow, RunningNow
  <2>3. UNCHANGED Promise!vars
    BY <1>6, <1>7, <2>2 DEF Promise!vars, AliveNow, LeftNow, RunningNow, HolderNow
  <2>4. QED BY <1>5, <2>3
<1>10. QED BY <1>8, <1>9

\* main starts a thread.
LEMMA StartKeepsPromise ==
  ASSUME IInv, IInv', Prompt, StartNext
  PROVE  Prompt' /\ \E t \in Thread : Promise!Start(t)
<1> DEFINE t == StartOrder[started + 1]
<1>1. /\ t \in Thread /\ k.stat[t] = "INIT" /\ k'.stat = [k.stat EXCEPT ![t] = "READY"]
      /\ k'.timers = k.timers /\ k'.tick = k.tick
      /\ k'.current = k.current /\ k'.lock = k.lock
  BY StartStep
<1> HIDE DEF t
<1>2. /\ InUser(Main) /\ k.current = Main /\ pc[Main] = "user" /\ isr = FALSE
      /\ isr' = isr /\ pc' = [pc EXCEPT ![Main] = "schedule"] /\ k \in KState
      /\ Main \in Thread /\ Main # Nobody
  BY KernelAssumption DEF StartNext, ThenSchedule, InUser, IInv, Sound, TypeOK
<1>4. pc'[k'.current] = "schedule" BY <1>1, <1>2 DEF IInv, TypeOK
<1>5. Prompt' BY <1>1, <1>2, <1>4 DEF Prompt, TimedFrom
<1>6. LeftNow' = LeftNow
  <2>1. LeftOf(k', isr') = LeftOf(k, isr) BY <1>1, <1>2 DEF LeftOf
  <2>2. QED BY <2>1, LeftNowIs
<1>7. HolderNow' = HolderNow BY <1>1 DEF HolderNow
<1>8. AliveNow' = AliveNow \cup {t} /\ t \notin AliveNow
  BY <1>1, <1>2 DEF AliveNow, KState
<1>9. RunningNow = Main /\ RunningNow' = Nobody BY <1>2, <1>4 DEF RunningNow
<1>10. PICK u \in Thread : u = t BY <1>1
<1>11. AliveNow' = AliveNow \cup {u} /\ u \notin AliveNow BY <1>8, <1>10
<1>12. Promise!Start(u)
  BY <1>2, <1>6, <1>7, <1>9, <1>11
     DEF Promise!Start, AliveNow, LeftNow, RunningNow, HolderNow
<1>13. QED BY <1>5, <1>12

\* main ends.
LEMMA EndKeepsPromise ==
  ASSUME IInv, IInv', Prompt, MainReturns
  PROVE  Prompt' /\ Promise!End
<1> DEFINE q == Halted(k, Main, "CLOSE")
<1>1. /\ InUser(Main) /\ k.lock = 0 /\ k' = q /\ isr' = isr
      /\ pc' = [pc EXCEPT ![Main] = "schedule"]
  BY DEF MainReturns, rt_thread_exit, ThenSchedule, Halted
<1> HIDE DEF q
<1>2. /\ k.current = Main /\ k.stat[Main] = "RUNNING" /\ Sound(k) /\ k \in KState
      /\ Main \in Thread /\ Main # Idle /\ Main # Nobody /\ isr = FALSE /\ pc[Main] = "user"
  BY <1>1, UserRuns, KernelAssumption DEF Sound, IInv, TypeOK, InUser
<1>3. /\ q.stat = [k.stat EXCEPT ![Main] = "CLOSE"] /\ q.current = Main /\ q.lock = 0
      /\ q.timers = k.timers /\ q.tick = k.tick
  <2>1. "CLOSE" \in Stat /\ "CLOSE" # "READY" /\ "CLOSE" # "RUNNING" BY DEF Stat
  <2>2. QED BY <1>1, <1>2, <2>1, Stopped DEF q
<1>4. pc'[Main] = "schedule" BY <1>1, <1>2 DEF IInv, TypeOK
<1>5. Prompt' BY <1>1, <1>2, <1>3, <1>4 DEF Prompt, TimedFrom
<1>6. LeftNow' = LeftNow
  <2>1. LeftOf(k', isr') = LeftOf(k, isr) BY <1>1, <1>3 DEF LeftOf
  <2>2. QED BY <2>1, LeftNowIs
<1>7. HolderNow = Nobody /\ HolderNow' = Nobody BY <1>1, <1>3 DEF HolderNow
<1>8. RunningNow = Main /\ RunningNow' = Nobody BY <1>1, <1>2, <1>3, <1>4 DEF RunningNow
<1>9. AliveNow' = AliveNow \ {Main} BY <1>1, <1>2, <1>3 DEF AliveNow, KState
<1>10. Promise!End
  BY <1>2, <1>6, <1>7, <1>8, <1>9
     DEF Promise!End, AliveNow, LeftNow, RunningNow, HolderNow
<1>11. QED BY <1>5, <1>10

\* Every step is one of the promise's, or none.
LEMMA NextKeepsPromise ==
  IInv /\ IInv' /\ Prompt /\ [Next]_vars => Prompt' /\ [Promise!Next]_Promise!vars
<1> SUFFICES ASSUME IInv, IInv', Prompt, [Next]_vars
             PROVE  Prompt' /\ [Promise!Next]_Promise!vars
  OBVIOUS
<1>1. CASE rt_tick_increase BY <1>1, TickKeepsPromise DEF Promise!Next
<1>2. CASE TimerFires BY <1>2, TimerKeepsPromise DEF Promise!Next
<1>3. CASE TickEnds BY <1>3, TickEndKeepsPromise DEF Promise!Next
<1>4. CASE Schedule
  <2>1. k' = rt_schedule(k) /\ isr = FALSE /\ isr' = FALSE
    BY <1>4 DEF Schedule, IInv, TypeOK
  <2>2. QED BY <2>1, CallKeepsPromise DEF Promise!Next
<1>5. CASE StartNext BY <1>5, StartKeepsPromise DEF Promise!Next
<1>6. CASE MainReturns BY <1>6, EndKeepsPromise DEF Promise!Next
<1>7. CASE LeaveCritical \/ LeaveInner
  BY <1>7, ExitKeepsPromise DEF LeaveCritical, LeaveInner, Promise!Next
<1>8. CASE rt_thread_idle_excute
  <2>1. k' = rt_schedule(k) /\ isr = FALSE /\ isr' = FALSE
    BY <1>8 DEF rt_thread_idle_excute, InUser, IInv, TypeOK
  <2>2. QED BY <2>1, CallKeepsPromise DEF Promise!Next
<1>9. CASE \E t \in Thread : rt_enter_critical(t)
  BY <1>9, EnterKeepsPromise DEF Promise!Next
<1>10. CASE \E t \in Thread, n \in Naps : Sleep(t, n)
  <2>1. PICK t \in Thread, n \in Naps : Sleep(t, n) BY <1>10
  <2>2. Prompt' /\ Promise!Sleep(n) BY <2>1, SleepKeepsPromise
  <2>3. QED BY <2>2 DEF Promise!Next
<1>11. CASE UNCHANGED vars
  <2>1. k' = k /\ isr' = isr /\ pc' = pc BY <1>11 DEF vars
  <2>2. LeftNow' = LeftNow BY <2>1, LeftNowIs
  <2>3. AliveNow' = AliveNow /\ RunningNow' = RunningNow /\ HolderNow' = HolderNow
    BY <2>1 DEF AliveNow, RunningNow, HolderNow
  <2>4. UNCHANGED Promise!vars
    BY <2>2, <2>3 DEF Promise!vars, AliveNow, LeftNow, RunningNow, HolderNow
  <2>5. Prompt' BY <2>1 DEF Prompt
  <2>6. QED BY <2>4, <2>5
<1>12. QED
  BY <1>1, <1>2, <1>3, <1>4, <1>5, <1>6, <1>7, <1>8, <1>9, <1>10, <1>11
     DEF Next, Interrupt, MainGoesOn

\* Whatever the order of ticks, timeouts and calls, code is executed only by a most
\* urgent thread that is awake or by the one in a critical section, and a sleep of n
\* ticks ends at the n-th tick, across every wrap of rt_tick.
THEOREM KernelKeepsPromise == Spec => ImplementsPriorityCpu
<1>1. Init => Prompt /\ Promise!Init BY PromptInit
<1>2. IInv /\ IInv' /\ Prompt /\ [Next]_vars => Prompt' /\ [Promise!Next]_Promise!vars
  BY NextKeepsPromise
<1>3. QED BY Invariance, <1>1, <1>2, PTL DEF Spec, ImplementsPriorityCpu, Promise!Spec
=============================================================================
