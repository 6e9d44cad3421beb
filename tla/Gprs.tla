-------------------------------- MODULE Gprs --------------------------------
(***************************************************************************)
(* gprs_system_on: the only part of the firmware that main starts.  Before *)
(* its thread exists, the caller runs through eleven AT commands; each is  *)
(* sent, given a second, and sent again until what the module answered     *)
(* begins as expected or the count is used up.  The answer is read into a  *)
(* static buffer that all commands share and nothing clears.               *)
(*                                                                         *)
(* An answer is named by what cmd_check can tell of it, its beginning; an  *)
(* answer of the module may come within the second, later, or never.       *)
(***************************************************************************)
EXTENDS Integers, Sequences

CONSTANTS Often,   \* 0xFFFFFF in the code
          Some,    \* 0x50 in the code
          MaxLate  \* bound: commands the module has accepted and not answered

ASSUME CountsAssumption == {Often, Some, MaxLate} \subseteq Nat \ {0}

Registration == {"CGREG:0", "CGREG:1", "CGREG:5"}   \* not, at home, roaming

\* A call of cmd_check: the command, the answers that begin with check_value,
\* and the count.
Call(c, values, n) == [cmd |-> c, check_value |-> values, count |-> n]

gprs_system_on ==
  << Call("ATE0",  {"OK"},      Often), Call("AT",    {"OK"},       Often),
     Call("CSQ",   {"CSQ"},     Often), Call("CPIN",  {"CPIN"},     Some),
     Call("CREG",  {"CREG:1"},  Some),  Call("CGREG", Registration, Some),
     Call("CGATT", {"CGATT:1"}, Some),  Call("CSQ",   {"CSQ"},      Often),
     Call("CSTT",  {"OK"},      Often), Call("CIICR", {"OK"},       Some),
     Call("CIFSR", {"OK"},      1) >>

Steps == DOMAIN gprs_system_on

\* What the SIM800 may answer; with the echo on, the command comes first.
Answers(c) ==
  {"echo"} \cup CASE c = "CPIN"            -> {"CPIN", "ERROR"}
                  [] c = "CREG"            -> {"CREG:0", "CREG:1", "CREG:5"}
                  [] c = "CGATT"           -> {"CGATT:0", "CGATT:1"}
                  [] c = "CIFSR"           -> {"IP", "ERROR"}
                  [] c = "CGREG"           -> Registration
                  [] c = "CSQ"             -> {"CSQ"}
                  [] OTHER                 -> {"OK", "ERROR"}

VARIABLES
  step,       \* the cmd_check call under way; past the last, start goes on
  i,          \* its loop counter
  phase,      \* "write", or "read" after the second's sleep
  buffer,     \* the static buffer, by its beginning
  inbox,      \* commands sent that the module has still to answer
  uart,       \* what has arrived and is not read, by its beginning
  answered,   \* history: the module has given the answer the call expects
  unconfirmed \* history: the calls that ended in a match without that answer

vars == <<step, i, phase, buffer, inbox, uart, answered, unconfirmed>>

cmd == gprs_system_on[step].cmd

Beginnings == UNION {Answers(gprs_system_on[s].cmd) : s \in Steps}

TypeOK == /\ step \in 1 .. Len(gprs_system_on) + 1
          /\ step \in Steps => i \in 0 .. gprs_system_on[step].count - 1
          /\ phase \in {"write", "read"}
          /\ buffer \in Beginnings \cup {"empty"}
          /\ inbox \in Seq({gprs_system_on[s].cmd : s \in Steps})
          /\ uart \in Beginnings \cup {"empty"}
          /\ answered \in BOOLEAN
          /\ unconfirmed \subseteq Steps

Init == /\ step = 1 /\ i = 0 /\ phase = "write" /\ buffer = "empty"
        /\ inbox = <<>> /\ uart = "empty" /\ answered = FALSE /\ unconfirmed = {}

-----------------------------------------------------------------------------
\* A module that is off, or busy, misses the command.
write == /\ step \in Steps /\ phase = "write"
         /\ phase' = "read"
         /\ \/ inbox' = inbox
            \/ Len(inbox) < MaxLate /\ inbox' = Append(inbox, cmd)
         /\ UNCHANGED <<step, i, buffer, uart, answered, unconfirmed>>

Wanted(c, answer) == /\ step \in Steps
                     /\ c = gprs_system_on[step].cmd
                     /\ answer \in gprs_system_on[step].check_value

\* The module answers in its own time.
Answer == /\ inbox # <<>>
          /\ \E answer \in Answers(Head(inbox)) :
               /\ uart' = IF uart = "empty" THEN answer ELSE uart
               /\ answered' = (answered \/ Wanted(Head(inbox), answer))
          /\ inbox' = Tail(inbox)
          /\ UNCHANGED <<step, i, phase, buffer, unconfirmed>>

\* What `read' leaves in the buffer: all that has arrived, the oldest answer
\* first; nothing new when nothing has arrived, for it does not wait.
received == IF uart = "empty" THEN buffer ELSE uart

\* A slip: the calls take any answer for the one they expect.
any_answer(answer) == answer # "empty"

strncmp_equal(answer) == answer \in gprs_system_on[step].check_value

\* A slip: the counter is not compared.
last_try_forgotten == FALSE

last_try == i + 1 = gprs_system_on[step].count

\* A slip: another try is not counted.
next_try_uncounted == i

next_try == i + 1

\* The rest of a turn of cmd_check's loop: the read and the comparison.
cmd_check ==
  /\ step \in Steps /\ phase = "read"
  /\ buffer' = received /\ uart' = "empty"
  /\ phase' = "write"
  /\ unconfirmed' = unconfirmed \cup {s \in {step} : strncmp_equal(received) /\ ~answered}
  /\ IF strncmp_equal(received) \/ last_try
     THEN step' = step + 1 /\ i' = 0 /\ answered' = FALSE
     ELSE i' = next_try /\ UNCHANGED <<step, answered>>
  /\ UNCHANGED inbox

Next == write \/ Answer \/ cmd_check

Spec == Init /\ [][Next]_vars

\* The caller's loop runs on; the module promises nothing.
FairSpec == Spec /\ WF_vars(write) /\ WF_vars(cmd_check)

-----------------------------------------------------------------------------
Shared(s) == \E earlier \in 1 .. s - 1 :
               gprs_system_on[earlier].check_value = gprs_system_on[s].check_value

\* A call whose expected answer no earlier call expects ends in a match only if
\* the module gave that answer to that command: neither late answers nor the
\* stale buffer can stand in for it.
MatchIsConfirmed == \A s \in unconfirmed : Shared(s)

\* Whatever the module does, the caller comes to the end: no call is repeated
\* for ever (though 0xFFFFFF turns of a second take half a year).
BringUpEnds == <>(step \notin Steps)

=============================================================================
