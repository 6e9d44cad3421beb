------------------------------ MODULE GprsProofs ------------------------------
(***************************************************************************)
(* MatchIsConfirmed, for every number of tries and however far behind the  *)
(* module may fall.                                                        *)
(*                                                                         *)
(* Nothing clears the buffer, and a late answer may be read by any later   *)
(* call.  What saves the bring-up is the order of its calls: whatever lies *)
(* in the buffer, on the line or still to be answered was asked for by the *)
(* call under way or by an earlier one (Known), and no earlier command has *)
(* the answer a later call expects, unless an earlier call expects it too  *)
(* (Fresh).                                                                *)
(***************************************************************************)
EXTENDS Gprs, SequenceTheorems, TLAPS

Asked == {gprs_system_on[s].cmd : s \in {t \in Steps : t <= step}}

\* The answer, if any, is one to a command that was sent.
Known(answer) == answer = "empty" \/ \E c \in Asked : answer \in Answers(c)

\* What the call under way could take for its answer is that answer.
Genuine(answer) == step \in Steps /\ ~answered /\ answer \in gprs_system_on[step].check_value
                     => Shared(step)

Types == /\ step \in 1 .. 12 /\ i \in Int
         /\ step \in Steps => 0 <= i /\ i < gprs_system_on[step].count
         /\ phase \in {"write", "read"}
         /\ inbox \in Seq(Asked)
         /\ answered \in BOOLEAN /\ unconfirmed \subseteq Steps

IInv == /\ Types
        /\ Known(buffer) /\ Known(uart)
        /\ Genuine(buffer) /\ Genuine(uart)
        /\ MatchIsConfirmed

-----------------------------------------------------------------------------
\* The table of calls.
LEMMA Table ==
  /\ Steps = 1 .. 11 /\ Len(gprs_system_on) = 11
  /\ gprs_system_on[1] = Call("ATE0", {"OK"}, Often)
  /\ gprs_system_on[2] = Call("AT", {"OK"}, Often)
  /\ gprs_system_on[3] = Call("CSQ", {"CSQ"}, Often)
  /\ gprs_system_on[4] = Call("CPIN", {"CPIN"}, Some)
  /\ gprs_system_on[5] = Call("CREG", {"CREG:1"}, Some)
  /\ gprs_system_on[6] = Call("CGREG", Registration, Some)
  /\ gprs_system_on[7] = Call("CGATT", {"CGATT:1"}, Some)
  /\ gprs_system_on[8] = Call("CSQ", {"CSQ"}, Often)
  /\ gprs_system_on[9] = Call("CSTT", {"OK"}, Often)
  /\ gprs_system_on[10] = Call("CIICR", {"OK"}, Some)
  /\ gprs_system_on[11] = Call("CIFSR", {"OK"}, 1)
BY DEF gprs_system_on, Steps

\* Every call makes at least one try.
LEMMA Counts == \A s \in Steps : gprs_system_on[s].count \in Nat /\ 0 < gprs_system_on[s].count
BY Table, CountsAssumption DEF Call

\* The calls whose expected answer an earlier call expects.
LEMMA SharedCalls == \A s \in {2, 8, 9, 10, 11} : Shared(s)
<1>1. Shared(2) BY Table DEF Shared, Call
<1>2. Shared(8) BY Table DEF Shared, Call
<1>3. Shared(9) BY Table DEF Shared, Call
<1>4. Shared(10) BY Table DEF Shared, Call
<1>5. Shared(11) BY Table DEF Shared, Call
<1>6. QED BY <1>1, <1>2, <1>3, <1>4, <1>5

\* The commands before the others' turn.
LEMMA Earlier ==
  ASSUME NEW s \in Steps, NEW e \in Steps, e < s, s \notin {2, 8, 9, 10, 11}
  PROVE  \/ s = 3 /\ gprs_system_on[e].cmd \in {"ATE0", "AT"}
         \/ s = 4 /\ gprs_system_on[e].cmd \in {"ATE0", "AT", "CSQ"}
         \/ s = 5 /\ gprs_system_on[e].cmd \in {"ATE0", "AT", "CSQ", "CPIN"}
         \/ s = 6 /\ gprs_system_on[e].cmd \in {"ATE0", "AT", "CSQ", "CPIN", "CREG"}
         \/ s = 7 /\ gprs_system_on[e].cmd \in {"ATE0", "AT", "CSQ", "CPIN", "CREG", "CGREG"}
<1>1. s \in 3 .. 7 BY Table
<1>2. e \in 1 .. 6 BY Table, <1>1
<1>3. QED BY Table, <1>1, <1>2 DEF Call

\* What may answer the first six commands.
LEMMA FirstAnswers ==
  /\ \A c \in {"ATE0", "AT"} : Answers(c) = {"echo"} \cup {"OK", "ERROR"}
  /\ Answers("CSQ") = {"echo"} \cup {"CSQ"}
  /\ Answers("CPIN") = {"echo"} \cup {"CPIN", "ERROR"}
  /\ Answers("CREG") = {"echo"} \cup {"CREG:0", "CREG:1", "CREG:5"}
  /\ Answers("CGREG") = {"echo"} \cup Registration
<1>1. Answers("ATE0") = {"echo"} \cup {"OK", "ERROR"} BY Zenon DEF Answers
<1>2. Answers("AT") = {"echo"} \cup {"OK", "ERROR"} BY Zenon DEF Answers
<1>3. Answers("CSQ") = {"echo"} \cup {"CSQ"} BY Zenon DEF Answers
<1>4. Answers("CPIN") = {"echo"} \cup {"CPIN", "ERROR"} BY Zenon DEF Answers
<1>5. Answers("CREG") = {"echo"} \cup {"CREG:0", "CREG:1", "CREG:5"} BY Zenon DEF Answers
<1>6. Answers("CGREG") = {"echo"} \cup Registration BY Zenon DEF Answers
<1>7. QED BY <1>1, <1>2, <1>3, <1>4, <1>5, <1>6

\* No answer to an earlier command is the one a later call expects, unless an
\* earlier call expects the same.
LEMMA Fresh ==
  ASSUME NEW s \in Steps, NEW e \in Steps, e < s,
         NEW answer \in Answers(gprs_system_on[e].cmd),
         answer \in gprs_system_on[s].check_value
  PROVE  Shared(s)
<1>1. CASE s \in {2, 8, 9, 10, 11} BY <1>1, SharedCalls
<1>2. CASE s \notin {2, 8, 9, 10, 11}
  <2> DEFINE c == gprs_system_on[e].cmd
  <2>1. s = 3 => c \in {"ATE0", "AT"} /\ answer = "CSQ" BY <1>2, Earlier, Table DEF Call
  <2>2. s = 4 => c \in {"ATE0", "AT", "CSQ"} /\ answer = "CPIN" BY <1>2, Earlier, Table DEF Call
  <2>3. s = 5 => c \in {"ATE0", "AT", "CSQ", "CPIN"} /\ answer = "CREG:1" BY <1>2, Earlier, Table DEF Call
  <2>4. s = 6 => c \in {"ATE0", "AT", "CSQ", "CPIN", "CREG"} /\ answer \in Registration
    BY <1>2, Earlier, Table DEF Call
  <2>5. s = 7 => c \in {"ATE0", "AT", "CSQ", "CPIN", "CREG", "CGREG"} /\ answer = "CGATT:1"
    BY <1>2, Earlier, Table DEF Call
  <2>6. s \in 3 .. 7 BY <1>2, Table
  <2> HIDE DEF c
  <2>7. answer \in Answers(c) BY DEF c
  <2>8. QED BY <2>1, <2>2, <2>3, <2>4, <2>5, <2>6, <2>7, FirstAnswers DEF Registration
<1>3. QED BY <1>1, <1>2

-----------------------------------------------------------------------------
\* Nothing was sent and nothing has arrived.
LEMMA InitIInv == Init => IInv
<1> SUFFICES ASSUME Init PROVE IInv OBVIOUS
<1>1. Types
  <2>1. inbox \in Seq(Asked) BY EmptySeq DEF Init
  <2>2. step \in 1 .. 12 /\ i \in Int BY DEF Init
  <2>3. step \in Steps => 0 <= i /\ i < gprs_system_on[step].count BY Counts DEF Init
  <2>4. phase \in {"write", "read"} /\ answered \in BOOLEAN /\ unconfirmed \subseteq Steps BY DEF Init
  <2>5. QED BY <2>1, <2>2, <2>3, <2>4 DEF Types
<1>2. Known(buffer) /\ Known(uart) BY DEF Init, Known
<1>3. Genuine(buffer) /\ Genuine(uart) BY Table DEF Init, Genuine, Call
<1>4. MatchIsConfirmed BY DEF Init, MatchIsConfirmed
<1>5. QED BY <1>1, <1>2, <1>3, <1>4 DEF IInv

\* The command that may join the inbox is the one of the call under way.
LEMMA WriteIInv == IInv /\ write => IInv'
<1> SUFFICES ASSUME IInv, write PROVE IInv' OBVIOUS
<1>1. Asked' = Asked BY DEF write, Asked
<1>2. cmd \in Asked BY Table DEF IInv, Types, write, Asked, cmd
<1>3. Types' BY <1>1, <1>2 DEF IInv, Types, write
<1>4. (Known(buffer) /\ Known(uart))' BY <1>1 DEF IInv, Known, write
<1>5. (Genuine(buffer) /\ Genuine(uart))' BY DEF IInv, Genuine, write, Shared
<1>6. MatchIsConfirmed' BY DEF IInv, MatchIsConfirmed, write, Shared
<1>7. QED BY <1>3, <1>4, <1>5, <1>6 DEF IInv

\* An answer to an earlier command cannot pass for the one expected.
LEMMA AnswerIInv == IInv /\ Answer => IInv'
<1> SUFFICES ASSUME IInv, Answer PROVE IInv' OBVIOUS
<1>1. PICK answer \in Answers(Head(inbox)) :
        /\ uart' = IF uart = "empty" THEN answer ELSE uart
        /\ answered' = (answered \/ Wanted(Head(inbox), answer))
  BY DEF Answer
<1>2. Asked' = Asked BY DEF Answer, Asked
<1>3. Head(inbox) \in Asked /\ Tail(inbox) \in Seq(Asked)
  BY HeadTailProperties DEF IInv, Types, Answer
<1>4. answered' \in BOOLEAN BY <1>1 DEF IInv, Types, Wanted
<1>5. Types' BY <1>2, <1>3, <1>4 DEF IInv, Types, Answer
<1>6. (Known(buffer) /\ Known(uart))' BY <1>1, <1>2, <1>3 DEF IInv, Known, Answer
<1>7. ASSUME step \in Steps, ~answered', answer \in gprs_system_on[step].check_value
      PROVE  Shared(step)
  <2>1. ~Wanted(Head(inbox), answer) BY <1>1, <1>7 DEF IInv, Types
  <2>2. Head(inbox) # gprs_system_on[step].cmd BY <1>7, <2>1 DEF Wanted
  <2>3. PICK e \in Steps : e <= step /\ Head(inbox) = gprs_system_on[e].cmd BY <1>3 DEF Asked
  <2>4. e < step BY <2>2, <2>3, Table, <1>7
  <2>5. QED BY <1>7, <2>3, <2>4, Fresh
<1>8. ~answered' => ~answered BY <1>1 DEF IInv, Types
<1>9. (Genuine(buffer) /\ Genuine(uart))'
  BY <1>1, <1>7, <1>8 DEF IInv, Genuine, Answer, Shared
<1>10. MatchIsConfirmed' BY DEF IInv, MatchIsConfirmed, Answer, Shared
<1>11. QED BY <1>5, <1>6, <1>9, <1>10 DEF IInv

\* What the next call finds in the buffer answers an earlier command.
LEMMA CheckIInv == IInv /\ cmd_check => IInv'
<1> SUFFICES ASSUME IInv, cmd_check PROVE IInv' OBVIOUS
<1> DEFINE match == strncmp_equal(received)
<1>1. step' = step \/ step' = step + 1 BY DEF cmd_check
<1>2. step \in Steps /\ step \in 1 .. 11 /\ step' \in 1 .. 12 BY <1>1, Table DEF cmd_check
<1>3. Asked \subseteq Asked'
  <2>1. \A t \in Steps : t <= step => t <= step' BY <1>1, <1>2, Table
  <2>2. QED BY <2>1 DEF Asked
<1>4. Known(received) BY DEF IInv, received
<1>5. (Known(buffer) /\ Known(uart))' BY <1>3, <1>4 DEF cmd_check, Known
<1>6. Genuine(received) BY DEF IInv, received
<1>7. MatchIsConfirmed'
  <2>1. match /\ ~answered => Shared(step) BY <1>2, <1>6 DEF Genuine, strncmp_equal
  <2>2. QED BY <2>1 DEF IInv, MatchIsConfirmed, cmd_check, Shared
<1>8. Types'
  <2>1. inbox' \in Seq(Asked')
    <3>1. inbox \in Seq(Asked) /\ inbox' = inbox BY DEF IInv, Types, cmd_check
    <3>2. QED BY <1>3, <3>1, SeqMonotonic
  <2>2. unconfirmed' \subseteq Steps BY <1>2 DEF IInv, Types, cmd_check
  <2>3. CASE match \/ last_try
    <3>1. step' \in 1 .. 12 /\ i' = 0 /\ answered' = FALSE /\ phase' = "write"
      BY <1>2, <2>3 DEF cmd_check
    <3>2. (step \in Steps => 0 <= i /\ i < gprs_system_on[step].count)' BY <3>1, Counts
    <3>3. i' \in Int BY <3>1
    <3>4. answered' \in BOOLEAN BY <3>1
    <3>5. phase' \in {"write", "read"} BY <3>1
    <3>6. QED BY <2>1, <2>2, <3>1, <3>2, <3>3, <3>4, <3>5 DEF Types
  <2>4. CASE ~(match \/ last_try)
    <3>1. i + 1 # gprs_system_on[step].count BY <2>4 DEF last_try
    <3>2. i' = i + 1 /\ step' = step /\ answered' = answered
      BY <2>4 DEF cmd_check, next_try
    <3>3. QED BY <1>2, <2>1, <2>2, <3>1, <3>2, Counts DEF IInv, Types, cmd_check
  <2>5. QED BY <2>3, <2>4
<1>9. (Genuine(buffer) /\ Genuine(uart))'
  <2>1. uart' = "empty" /\ buffer' = received BY DEF cmd_check
  <2>2. \A s \in Steps : "empty" \notin gprs_system_on[s].check_value
    BY Table DEF Call, Registration
  <2>3. Genuine(uart)' BY <2>1, <2>2 DEF Genuine
  <2>4. CASE step' = step + 1
    <3>1. ASSUME step' \in Steps, received \in gprs_system_on[step'].check_value
          PROVE  Shared(step')
      <4>1. received # "empty" BY <2>2, <3>1
      <4>2. PICK e \in Steps : e <= step /\ received \in Answers(gprs_system_on[e].cmd)
        BY <1>4, <4>1 DEF Known, Asked
      <4>3. e < step' BY <2>4, <4>2, <1>2, Table
      <4>4. QED BY <3>1, <4>2, <4>3, Fresh
    <3>2. QED BY <2>1, <2>3, <3>1 DEF Genuine, Shared
  <2>5. CASE step' = step
    <3>1. answered' = answered BY <1>2, <2>5 DEF cmd_check
    <3>2. QED BY <1>6, <2>1, <2>3, <2>5, <3>1 DEF Genuine, Shared
  <2>6. QED BY <1>1, <2>4, <2>5
<1>10. QED BY <1>5, <1>7, <1>8, <1>9 DEF IInv

\* Every reachable state satisfies the strengthened invariant.
LEMMA Inductive == Spec => []IInv
<1>1. ASSUME IInv, [Next]_vars
      PROVE  IInv'
  <2>1. CASE UNCHANGED vars
    BY <1>1, <2>1 DEF vars, IInv, Types, Asked, Known, Genuine, Shared, MatchIsConfirmed
  <2>2. QED BY <1>1, <2>1, WriteIInv, AnswerIInv, CheckIInv DEF Next
<1>2. QED BY <1>1, InitIInv, PTL DEF Spec

-----------------------------------------------------------------------------
\* cmd_check's counter stays below its count, and the buffer and the line only ever hold
\* beginnings that one of the commands of gprs_system_on can be answered with.
THEOREM TypeCorrect == Spec => []TypeOK
<1>1. ASSUME IInv
      PROVE  TypeOK
  <2>1. Asked \subseteq {gprs_system_on[s].cmd : s \in Steps} BY DEF Asked
  <2>2. inbox \in Seq({gprs_system_on[s].cmd : s \in Steps}) BY <1>1, <2>1 DEF IInv, Types
  <2>3. \A answer : Known(answer) => answer \in Beginnings \cup {"empty"}
    BY DEF Known, Asked, Beginnings
  <2>4. step \in Steps => i \in 0 .. gprs_system_on[step].count - 1
    BY <1>1, Counts DEF IInv, Types
  <2>5. QED BY <1>1, <2>2, <2>3, <2>4, Table DEF IInv, Types, TypeOK
<1>2. QED BY <1>1, Inductive, PTL

\* A call of cmd_check that expects what no earlier call expects ends in a match only if the
\* module gave that answer to that command, for every count and however late the module answers.
THEOREM MatchesAreConfirmed == Spec => []MatchIsConfirmed
<1>1. IInv => MatchIsConfirmed BY DEF IInv
<1>2. QED BY <1>1, Inductive, PTL
=============================================================================
