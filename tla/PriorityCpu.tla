----------------------------- MODULE PriorityCpu -----------------------------
(***************************************************************************)
(* What the kernel promises the threads: a processor that belongs to a     *)
(* most urgent thread among those that are awake, and sleeps that last a   *)
(* given number of ticks.  No queue, no timer, no clock that wraps.        *)
(***************************************************************************)
EXTENDS Integers

CONSTANTS Thread,
          Urgency,    \* the priority of every thread; 0 is the most urgent
          First,      \* the threads that exist at first
          Naps,       \* for how many ticks threads sleep
          Nobody

VARIABLES alive,      \* the threads started and not at their end
          left,       \* for how many ticks each of them still sleeps
          running,    \* the thread whose code is being executed, Nobody while
                      \*   the kernel or an interrupt is at work
          holder      \* the thread that must not be switched away from, or Nobody

vars == <<alive, left, running, holder>>

Awake == {t \in alive : left[t] = 0}

MostUrgent == {t \in Awake : \A u \in Awake : Urgency[t] <= Urgency[u]}

Init == /\ alive = First /\ left = [t \in Thread |-> 0]
        /\ running \in MostUrgent /\ holder = Nobody

Switch == /\ running' \in {Nobody} \cup (IF holder = Nobody THEN MostUrgent ELSE {holder})
          /\ UNCHANGED <<alive, left, holder>>

\* A tick: every sleep is one tick shorter.
Elapse == /\ left' = [t \in Thread |-> IF left[t] > 0 THEN left[t] - 1 ELSE 0]
          /\ running' = Nobody
          /\ UNCHANGED <<alive, holder>>

\* A sleep of no ticks lasts until the next one.
Sleep(n) == /\ running # Nobody /\ holder = Nobody
            /\ left' = [left EXCEPT ![running] = IF n = 0 THEN 1 ELSE n]
            /\ running' = Nobody
            /\ UNCHANGED <<alive, holder>>

Start(t) == /\ running # Nobody /\ t \notin alive
            /\ alive' = alive \cup {t}
            /\ running' = Nobody
            /\ UNCHANGED <<left, holder>>

End == /\ running # Nobody /\ holder = Nobody
       /\ alive' = alive \ {running}
       /\ running' = Nobody
       /\ UNCHANGED <<left, holder>>

Hold == /\ running # Nobody
        /\ holder' = running
        /\ UNCHANGED <<alive, left, running>>

Release == /\ running = holder
           /\ holder' = Nobody /\ running' = Nobody
           /\ UNCHANGED <<alive, left>>

Next == \/ Switch \/ Elapse \/ End \/ Hold \/ Release
        \/ \E n \in Naps : Sleep(n)
        \/ \E t \in Thread : Start(t)

Spec == Init /\ [][Next]_vars
=============================================================================
