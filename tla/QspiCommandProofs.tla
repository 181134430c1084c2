------------------------- MODULE QspiCommandProofs -------------------------
(***************************************************************************)
(* Proofs about QspiCommand, for any number of polls and of commands.      *)
(* Whatever the controller does, types are kept and a failure tells of a   *)
(* command that has ended; if two polls more than the controller may need  *)
(* are allowed for, the calls are sound until the controller is late.      *)
(***************************************************************************)
EXTENDS QspiCommand, TLAPS

\* CQSPI_REG_RETRY leaves room for what a command is expected to take.
Prompt == Latency + 2 <= Retry

\* What holds whatever the controller does.
AlwaysInv ==
    /\ TypeOK
    /\ pc = "wait" => count < Retry

\* The arguments of a call were good and it has not been answered yet.
Under == {"control", "execute", "poll", "test", "wait", "fetch"}
Quiet == {"free", "check", "control", "execute", "fetch", "return"}

\* While the controller is not late, the driver has always two polls more
\* than it can need, so that each of its loops is ended by the controller.
PromptInv ==
    /\ pc \in Quiet => ctl = "idle"
    /\ pc = "control" \/ pc = "execute" => retry = Retry
    /\ pc \in Under \union {"check"} => ret = "none"
    /\ pc \in Under => kind # "invalid"
    /\ pc = "poll" => active = cmd /\ retry >= left + 2
    /\ pc \in {"poll", "test", "wait"} /\ ctl # "running" => answer = cmd
    /\ pc = "test" => retry > 0
    /\ pc \in {"test", "wait"} => ctl # "running"
    /\ pc = "wait" => count + left + 2 <= Retry
    /\ pc = "fetch" => answer = cmd
    /\ FreshAnswer
    /\ CallsSucceed

IInv == AlwaysInv /\ (~late => PromptInv)

-----------------------------------------------------------------------------
LEMMA InitInv == Init => IInv
<1> SUFFICES ASSUME Init PROVE IInv
  OBVIOUS
<1>1. TypeOK
  <2>1. late \in BOOLEAN
    BY DEF Init
  <2>2. 0 \in 0 .. WordMod - 1 /\ 0 \in 0 .. Retry /\ 0 \in 0 .. Latency
        /\ 0 \in 0 .. MaxCommands
    BY RetryAssumption, WordModAssumption, LatencyAssumption,
       MaxCommandsAssumption
  <2> QED BY <2>1, <2>2 DEF Init, TypeOK
<1>2. PromptInv
  BY DEF Init, PromptInv, FreshAnswer, CallsSucceed, Quiet, Under
<1> QED BY <1>1, <1>2 DEF Init, IInv, AlwaysInv

LEMMA NextAlways ==
    ASSUME AlwaysInv, [Next]_vars
    PROVE  AlwaysInv'
<1> USE RetryAssumption, WordModAssumption, LatencyAssumption,
        MaxCommandsAssumption
        DEF AlwaysInv, TypeOK, driver, controller
<1>1. CASE Call
  BY <1>1 DEF Call
<1>2. CASE Refuse
  BY <1>2 DEF Refuse
<1>3. CASE Accept
  BY <1>3 DEF Accept
<1>4. CASE WriteControl
  BY <1>4 DEF WriteControl
<1>5. CASE Execute
  BY <1>5 DEF Execute
<1>6. CASE PollBusy
  BY <1>6 DEF PollBusy, AtWork
<1>7. CASE PollDone
  BY <1>7 DEF PollDone
<1>8. CASE PollExhausted
  BY <1>8 DEF PollExhausted
<1>9. CASE TestFails
  BY <1>9 DEF TestFails
<1>10. CASE TestPasses
  BY <1>10 DEF TestPasses
<1>11. CASE WaitIdle
  BY <1>11 DEF WaitIdle
<1>12. CASE WaitBusy
  BY <1>12 DEF WaitBusy, AtWork
<1>13. CASE Fetch
  BY <1>13 DEF Fetch
<1>14. CASE Return
  BY <1>14 DEF Return
<1>15. CASE Finish
  BY <1>15 DEF Finish
<1>16. CASE Settle
  BY <1>16 DEF Settle
<1>17. CASE UNCHANGED vars
  BY <1>17 DEF vars
<1> QED
  BY <1>1, <1>2, <1>3, <1>4, <1>5, <1>6, <1>7, <1>8, <1>9, <1>10, <1>11,
     <1>12, <1>13, <1>14, <1>15, <1>16, <1>17 DEF Next, Driver, Controller

LEMMA NextPrompt ==
    ASSUME Prompt, TypeOK, ~late => PromptInv, [Next]_vars, ~late'
    PROVE  PromptInv'
<1>0. ~late /\ PromptInv
  BY DEF Next, Driver, Controller, Call, Refuse, Accept, WriteControl, Execute,
         PollBusy, PollDone, PollExhausted, TestFails, TestPasses, WaitIdle,
         WaitBusy, Fetch, Return, Finish, Settle, AtWork, controller, vars, TypeOK
<1> USE <1>0, RetryAssumption, WordModAssumption, LatencyAssumption,
        MaxCommandsAssumption
        DEF PromptInv, TypeOK, FreshAnswer, CallsSucceed, Quiet, Under, driver,
            controller
<1>1. CASE Call
  BY <1>1 DEF Call
<1>2. CASE Refuse
  BY <1>2 DEF Refuse
<1>3. CASE Accept
  BY <1>3 DEF Accept
<1>4. CASE WriteControl
  BY <1>4 DEF WriteControl
<1>5. CASE Execute
  BY <1>5 DEF Execute, Prompt
<1>6. CASE PollBusy
  <2>1. left # 0
    BY <1>6, Zenon DEF PollBusy, AtWork
  <2>2. left > 0 /\ left' = left - 1
    BY <1>6, <2>1 DEF PollBusy, AtWork
  <2> QED BY <1>6, <2>2 DEF PollBusy, AtWork
<1>7. CASE PollDone
  BY <1>7 DEF PollDone, Prompt
<1>8. CASE PollExhausted
  BY <1>8 DEF PollExhausted
<1>9. CASE TestFails
  BY <1>9 DEF TestFails
<1>10. CASE TestPasses
  BY <1>10 DEF TestPasses, Prompt
<1>11. CASE WaitIdle
  BY <1>11 DEF WaitIdle
<1>12. CASE WaitBusy
  <2>1. left # 0
    BY <1>12, Zenon DEF WaitBusy, AtWork
  <2>2. left > 0 /\ left' = left - 1
    BY <1>12, <2>1 DEF WaitBusy, AtWork
  <2>3. pc' = "wait" /\ count' + left' + 2 <= Retry
    BY <1>12, <2>2 DEF WaitBusy
  <2> QED BY <1>12, <2>2, <2>3 DEF WaitBusy, AtWork
<1>13. CASE Fetch
  BY <1>13 DEF Fetch
<1>14. CASE Return
  BY <1>14 DEF Return
<1>15. CASE Finish
  BY <1>15 DEF Finish
<1>16. CASE Settle
  BY <1>16 DEF Settle
<1>17. CASE UNCHANGED vars
  BY <1>17 DEF vars
<1> QED
  BY <1>1, <1>2, <1>3, <1>4, <1>5, <1>6, <1>7, <1>8, <1>9, <1>10, <1>11,
     <1>12, <1>13, <1>14, <1>15, <1>16, <1>17 DEF Next, Driver, Controller

-----------------------------------------------------------------------------
\* What holds whatever the controller does.
THEOREM AlwaysInductive == Spec => []AlwaysInv
<1>1. Init => AlwaysInv
  BY InitInv DEF IInv
<1>2. AlwaysInv /\ [Next]_vars => AlwaysInv'
  BY NextAlways
<1> QED BY <1>1, <1>2, PTL DEF Spec

\* The bookkeeping of polls that the conditional properties below rest on.
THEOREM Inductive ==
    ASSUME Prompt PROVE Spec => []IInv
<1>1. Init => IInv
  BY InitInv
<1>2. IInv /\ [Next]_vars => IInv'
  BY NextAlways, NextPrompt DEF IInv, AlwaysInv
<1> QED BY <1>1, <1>2, PTL DEF Spec

\* Every variable keeps its type, however slow the controller is; retry in
\* particular wraps only to the largest value of its type.
THEOREM TypeCorrect == Spec => []TypeOK
<1>1. AlwaysInv => TypeOK
  BY DEF AlwaysInv
<1> QED BY <1>1, AlwaysInductive, PTL

\* A call that returns 0 has had its own command executed and returns its own
\* answer, for any number of polls, until the controller is late.
THEOREM AnswerIsFresh == ASSUME Prompt PROVE Spec => []FreshAnswer
<1>1. IInv => FreshAnswer
  BY DEF IInv, PromptInv, FreshAnswer
<1> QED BY <1>1, Inductive, PTL

\* No call with good arguments reports a failure until the controller is
\* late: the poll that leaves retry at 0 is not the one that finds the
\* command ended.
THEOREM NoFalseFailure == ASSUME Prompt PROVE Spec => []CallsSucceed
<1>1. IInv => CallsSucceed
  BY DEF IInv, PromptInv, CallsSucceed
<1> QED BY <1>1, Inductive, PTL

\* Until the controller is late wait_idle never gives up: it returns when the
\* controller is idle.
THEOREM IdleWhenDone == ASSUME Prompt PROVE Spec => []IdleOnSuccess
<1>1. IInv => IdleOnSuccess
  BY DEF IInv, PromptInv, IdleOnSuccess, Quiet
<1> QED BY <1>1, Inductive, PTL

\* Until the controller is late EXECUTE is only ever set when it is idle.
THEOREM OneAtATime == ASSUME Prompt PROVE Spec => NoOverlap
<1>1. IInv /\ [Next]_vars =>
        [pc = "execute" /\ pc' = "poll" /\ ~late => ctl = "idle"]_vars
  BY DEF IInv, PromptInv, Quiet
<1> QED BY <1>1, Inductive, PTL DEF Spec, NoOverlap
=============================================================================
