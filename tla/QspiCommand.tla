---------------------------- MODULE QspiCommand ----------------------------
(***************************************************************************)
(* Flash commands through the QSPI controller's STIG registers             *)
(* (spi/cadence_qspi_apb.c): command_read and command_write put a command  *)
(* in CMDCTRL, set EXECUTE, poll the in-progress bit, wait for the         *)
(* controller's idle bit and, for a read, fetch the answer.                *)
(*                                                                         *)
(* Commands are numbered.  The controller runs on its own: it is "running" *)
(* (in progress, not idle) from EXECUTE on, then "settling" (not in        *)
(* progress, not idle yet), then "idle"; its read-data register holds the  *)
(* answer of the last command that ended.  How slow it is is measured in   *)
(* polls: it is late once a command has been found at work more than       *)
(* Latency times.  It may be late at any time, and for ever.               *)
(***************************************************************************)
EXTENDS Naturals

CONSTANTS
    Retry,      \* CQSPI_REG_RETRY
    WordMod,    \* unsigned int arithmetic is modulo this
    Latency,    \* polls of a command before the controller counts as late
    MaxCommands \* bound on the number of commands

ASSUME RetryAssumption == Retry \in Nat \ {0}
ASSUME WordModAssumption == WordMod \in Nat /\ WordMod > Retry
ASSUME LatencyAssumption == Latency \in Nat
ASSUME MaxCommandsAssumption == MaxCommands \in Nat

VARIABLES
    pc,         \* where the driver is
    kind,       \* "read", "write", or "invalid": a call with bad arguments
    cmd,        \* the number of the current command
    retry,      \* exec_flash_cmd's retry
    count,      \* wait_idle's count
    rx,         \* the command whose answer is in rxbuf
    ret,        \* what the call returns: "ok" (0), "error" (-1), or "none" yet
    ctl,        \* the controller: "idle", "running" or "settling"
    active,     \* the command the controller has been given last
    answer,     \* the command whose answer is in CMDREADDATA
    left,       \* how many more polls may find the controller at work
    late        \* history: one more has

driver == <<pc, kind, cmd, retry, count, rx, ret>>
controller == <<ctl, active, answer, left, late>>
vars == <<pc, kind, cmd, retry, count, rx, ret, ctl, active, answer, left,
          late>>

TypeOK ==
    /\ pc \in {"free", "check", "control", "execute", "poll", "test", "wait",
               "fetch", "return"}
    /\ kind \in {"read", "write", "invalid"}
    /\ cmd \in 0 .. MaxCommands
    /\ retry \in 0 .. WordMod - 1
    /\ count \in 0 .. Retry
    /\ rx \in 0 .. MaxCommands
    /\ ret \in {"none", "ok", "error"}
    /\ ctl \in {"idle", "running", "settling"}
    /\ active \in 0 .. MaxCommands
    /\ answer \in 0 .. MaxCommands
    /\ left \in 0 .. Latency
    /\ late \in BOOLEAN

Init ==
    /\ pc = "free" /\ kind = "invalid" /\ cmd = 0
    /\ retry = 0 /\ count = 0 /\ rx = 0 /\ ret = "none"
    /\ ctl = "idle" /\ active = 0 /\ answer = 0 /\ left = 0 /\ late = FALSE

-----------------------------------------------------------------------------
(* The driver.  A definition with an underscore in its name is a mutated   *)
(* form of the one that follows it.                                        *)

\* command_read or command_write is called.
Call ==
    /\ pc = "free"
    /\ cmd < MaxCommands
    /\ cmd' = cmd + 1
    /\ kind' \in {"read", "write", "invalid"}
    /\ ret' = "none"
    /\ pc' = "check"
    /\ UNCHANGED <<retry, count, rx, controller>>

Refuse ==
    /\ pc = "check" /\ kind = "invalid"
    /\ ret' = "error"
    /\ pc' = "return"
    /\ UNCHANGED <<kind, cmd, retry, count, rx, controller>>

Accept_TooFew ==
    /\ pc = "check" /\ kind # "invalid"
    /\ retry' = Retry - 1
    /\ pc' = "control"
    /\ UNCHANGED <<kind, cmd, count, rx, ret, controller>>

\* The arguments are good: exec_flash_cmd is called.
Accept ==
    /\ pc = "check" /\ kind # "invalid"
    /\ retry' = Retry
    /\ pc' = "control"
    /\ UNCHANGED <<kind, cmd, count, rx, ret, controller>>

\* CMDCTRL without EXECUTE: nothing starts.
WriteControl ==
    /\ pc = "control"
    /\ pc' = "execute"
    /\ UNCHANGED <<kind, cmd, retry, count, rx, ret, controller>>

Execute_Forgotten ==
    /\ pc = "execute"
    /\ pc' = "poll"
    /\ UNCHANGED <<kind, cmd, retry, count, rx, ret, controller>>

\* EXECUTE given to a controller at work is lost or replaces the command.
Execute ==
    /\ pc = "execute"
    /\ pc' = "poll"
    /\ \/ /\ active' = cmd
          /\ ctl' = "running"
          /\ left' = Latency
       \/ /\ ctl # "idle"
          /\ UNCHANGED <<active, ctl, left>>
    /\ UNCHANGED <<kind, cmd, retry, count, rx, ret, answer, late>>

\* A poll may find the controller at work: time passes.
AtWork ==
    /\ ctl # "idle"
    /\ left' = IF left > 0 THEN left - 1 ELSE 0
    /\ late' = (late \/ left = 0)
    /\ UNCHANGED <<ctl, active, answer>>

PollBusy_Forever ==
    /\ pc = "poll" /\ retry > 0 /\ ctl = "running"
    /\ AtWork
    /\ UNCHANGED driver

\* while (retry--): the in-progress bit is set.
PollBusy ==
    /\ pc = "poll" /\ retry > 0 /\ ctl = "running"
    /\ AtWork
    /\ retry' = retry - 1
    /\ UNCHANGED <<pc, kind, cmd, count, rx, ret>>

\* The in-progress bit is clear: break, after retry-- all the same.
PollDone ==
    /\ pc = "poll" /\ retry > 0 /\ ctl # "running"
    /\ retry' = retry - 1
    /\ pc' = "test"
    /\ UNCHANGED <<kind, cmd, count, rx, ret, controller>>

\* The loop ends by its condition, whose retry-- goes from 0 to UINT_MAX.
PollExhausted ==
    /\ pc = "poll" /\ retry = 0
    /\ retry' = WordMod - 1
    /\ pc' = "test"
    /\ UNCHANGED <<kind, cmd, count, rx, ret, controller>>

\* if (!retry) return -1: after a command that has ended on the last poll, and
\* not after a timeout, whose wrapped retry passes for success.
TestFails ==
    /\ pc = "test" /\ retry = 0
    /\ ret' = "error"
    /\ pc' = "return"
    /\ UNCHANGED <<kind, cmd, retry, count, rx, controller>>

TestPasses ==
    /\ pc = "test" /\ retry # 0
    /\ count' = 0
    /\ pc' = "wait"
    /\ UNCHANGED <<kind, cmd, retry, rx, ret, controller>>

WaitIdle_Skipped ==
    /\ pc = "wait"
    /\ pc' = "fetch"
    /\ UNCHANGED <<kind, cmd, retry, count, rx, ret, controller>>

\* cadence_qspi_wait_idle returns 1 when the controller is idle ...
WaitIdle ==
    /\ pc = "wait" /\ ctl = "idle"
    /\ pc' = "fetch"
    /\ UNCHANGED <<kind, cmd, retry, count, rx, ret, controller>>

\* ... and also when Retry polls in all have found it at work.
WaitBusy ==
    /\ pc = "wait" /\ ctl # "idle"
    /\ AtWork
    /\ count' = count + 1
    /\ pc' = IF count + 1 >= Retry THEN "fetch" ELSE "wait"
    /\ UNCHANGED <<kind, cmd, retry, rx, ret>>

\* command_read fetches CMDREADDATA, command_write just returns.
Fetch ==
    /\ pc = "fetch"
    /\ rx' = IF kind = "read" THEN answer ELSE rx
    /\ ret' = "ok"
    /\ pc' = "return"
    /\ UNCHANGED <<kind, cmd, retry, count, controller>>

Return ==
    /\ pc = "return"
    /\ pc' = "free"
    /\ UNCHANGED <<kind, cmd, retry, count, rx, ret, controller>>

Driver ==
    \/ Refuse \/ Accept \/ WriteControl \/ Execute
    \/ PollBusy \/ PollDone \/ PollExhausted \/ TestFails \/ TestPasses
    \/ WaitIdle \/ WaitBusy \/ Fetch \/ Return

-----------------------------------------------------------------------------
(* The controller.                                                         *)

Finish ==
    /\ ctl = "running"
    /\ ctl' = "settling"
    /\ answer' = active
    /\ UNCHANGED <<driver, active, left, late>>

Settle ==
    /\ ctl = "settling"
    /\ ctl' = "idle"
    /\ UNCHANGED <<driver, active, answer, left, late>>

Controller == Finish \/ Settle

-----------------------------------------------------------------------------
Next == Call \/ Driver \/ Controller

\* The hart runs on.  Nothing obliges the controller to end what it was
\* given, or anyone to issue another command.
Fairness == WF_vars(Driver)

Spec == Init /\ [][Next]_vars /\ Fairness

-----------------------------------------------------------------------------
(* Properties.                                                             *)

\* Unless the controller is late, a call that returns 0 has had its own
\* command executed, and what a read returns is the answer to it, not to an
\* earlier one: the status a later loop looks at is never stale
\* (apb.c:664-681).
FreshAnswer ==
    ret = "ok" /\ ~late => answer = cmd /\ (kind = "read" => rx = cmd)

\* Unless the controller is late, a call that returns 0 leaves it idle, for
\* the register writes that follow (apb.c:636).
IdleOnSuccess == pc = "return" /\ ret = "ok" /\ ~late => ctl = "idle"

\* wait_idle goes on with "Return 1 if idle, otherwise return 0 (busy)"
\* (apb.c:357) only when the controller is idle, late or not.
OneMeansIdle == pc = "fetch" => ctl = "idle"

\* A controller that is not late is never given a command while at work.
NoOverlap == [][pc = "execute" /\ pc' = "poll" /\ ~late => ctl = "idle"]_vars

\* Unless the controller is late, a call with good arguments succeeds.
CallsSucceed == ret = "error" /\ ~late => kind = "invalid"

\* Every call returns, even if the controller never ends the command.
EveryCallReturns == (pc # "free") ~> (pc = "free")
=============================================================================
