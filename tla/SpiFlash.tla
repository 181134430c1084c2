------------------------------ MODULE SpiFlash ------------------------------
(***************************************************************************)
(* The NOR flash driver (spi/spi_flash.c): erase, program and read as      *)
(* sequences of SPI transfers to a flash chip.  The chip runs on its own:  *)
(* it accepts an erase, a program or a status write only when its          *)
(* write-enable latch is set and no earlier one is in progress, ignores    *)
(* it otherwise, and clears the latch when the work ends.                  *)
(*                                                                         *)
(* One transfer is one step.  It may fail at any time: the layer below     *)
(* returns -1, and the chip has or has not seen the command (QspiCommand   *)
(* shows that it usually has).  A transfer that returns 0 was seen.  A     *)
(* call or a chip that outlasts a poll loop is remembered in trouble.      *)
(*                                                                         *)
(* A byte of the flash is Erased, Byte(k) for the k-th byte of the buffer  *)
(* a program call was given, or Junk: anything else, in particular what    *)
(* programming a byte that is not erased leaves there.                     *)
(***************************************************************************)
EXTENDS Naturals

CONSTANTS
    PageSize,   \* bytes of a page: flash->page_size
    Size,       \* bytes of the flash
    AddrMod,    \* spi_flash_addr sends addresses modulo this, 2^24
    Timeout,    \* polls before wait_ready or wait_enable gives up
    Calls,      \* what the driver may be asked to do
    MaxCalls    \* bound on the number of calls

\* unit is the size an erase command erases, mode the mode argument of the
\* other two.
CallSet ==
    [kind : {"erase"}, start : 0 .. Size - 1, len : 0 .. Size, unit : 1 .. Size]
    \union
    [kind : {"program", "read"}, start : 0 .. Size - 1, len : 0 .. Size, mode : Nat]

ASSUME PageSizeAssumption == PageSize \in Nat \ {0}
ASSUME SizeAssumption == Size \in Nat \ {0} /\ Size % PageSize = 0
ASSUME AddrModAssumption == AddrMod \in Nat \ {0} /\ AddrMod % PageSize = 0
ASSUME TimeoutAssumption == Timeout \in Nat \ {0}
\* Callers stay inside the flash, and erase units are made of pages.
ASSUME CallsAssumption ==
    \A c \in Calls :
        /\ c \in CallSet
        /\ c.start + c.len <= Size
        /\ c.kind = "erase" => c.unit % PageSize = 0 /\ Size % c.unit = 0
ASSUME MaxCallsAssumption == MaxCalls \in Nat

VARIABLES
    pc,         \* where the driver is
    calls,      \* calls so far
    op,         \* the current call
    at,         \* the next byte to erase or to program
    polls,      \* timebase_1 of the polling loop it is in
    ret,        \* "ok" (0), "error" (-1), or "none" yet
    got,        \* what a read stored: "none", "data" or "garbage"
    cells,      \* the content of the flash
    wel,        \* its write-enable latch
    wip,        \* its write-in-progress bit
    job,        \* what the command in progress will store, by address
    before,     \* history: the content when the current call began
    asked,      \* history: every address a caller asked to change
    trouble     \* history: a transfer has failed or a poll loop timed out

driver == <<pc, calls, op, at, polls, ret, got>>
chip == <<cells, wel, wip, job>>
history == <<before, asked, trouble>>
vars == <<pc, calls, op, at, polls, ret, got, cells, wel, wip, job, before,
          asked, trouble>>

Address == 0 .. Size - 1
Erased == 0
Junk == 1
Byte(k) == k + 2
Contents == 0 .. Size + 1

Nothing == [a \in {} |-> Junk]
NoCall == [kind |-> "none", start |-> 0, len |-> 0]
Region(c) == c.start .. c.start + c.len - 1

TypeOK ==
    /\ pc \in {"free", "check", "statusEnable", "statusWrite", "statusReady",
               "statusDisable", "loop", "enable", "enabled", "erase", "program",
               "ready", "disable", "read", "return"}
    /\ calls \in 0 .. MaxCalls
    /\ op \in Calls \union {NoCall}
    /\ at \in op.start .. op.start + op.len
    /\ polls \in 0 .. Timeout - 1
    /\ ret \in {"none", "ok", "error"}
    /\ got \in {"none", "data", "garbage"}
    /\ cells \in [Address -> Contents] /\ before \in [Address -> Contents]
    /\ wel \in BOOLEAN /\ wip \in BOOLEAN
    /\ DOMAIN job \subseteq Address /\ (~wip => job = Nothing)
    /\ asked \subseteq Address
    /\ trouble \in BOOLEAN

Init ==
    /\ pc = "free" /\ calls = 0 /\ op = NoCall /\ at = 0
    /\ polls = 0 /\ ret = "none" /\ got = "none"
    /\ \E v \in {Erased, Junk} : cells = [a \in Address |-> v]
    /\ wel = FALSE /\ wip = FALSE /\ job = Nothing
    /\ before = cells /\ asked = {} /\ trouble = FALSE

-----------------------------------------------------------------------------
(* The chip.                                                               *)

ChipEnables  == wel' = (wel \/ ~wip) /\ UNCHANGED <<cells, wip, job>>
ChipDisables == wel' = (wel /\ wip)  /\ UNCHANGED <<cells, wip, job>>

ChipStarts(j) ==
    \/ /\ wel /\ ~wip
       /\ wip' = TRUE /\ job' = j
       /\ UNCHANGED <<cells, wel>>
    \/ /\ ~wel \/ wip
       /\ UNCHANGED chip

\* A poll that finds the chip at work, as any number of them may.
ChipAtWork == wip /\ UNCHANGED chip

ChipFinishes ==
    /\ wip
    /\ wip' = FALSE /\ wel' = FALSE /\ job' = Nothing
    /\ cells' = [a \in Address |-> IF a \in DOMAIN job THEN job[a] ELSE cells[a]]
    /\ UNCHANGED <<driver, history>>

\* spi_flash_addr: three bytes of the address.
Sent(a) == a % AddrMod

\* An erase command erases the unit its address lies in.
ErasesUnit(a) ==
    LET base == (a \div op.unit) * op.unit
    IN  [b \in (base .. base + op.unit - 1) \intersect Address |-> Erased]

\* A program command stays in the page its address lies in and wraps there.
InPage(a, j) == (a \div PageSize) * PageSize + ((a + j) % PageSize)

Programs(a, n) ==
    [b \in {InPage(a, j) : j \in 0 .. n - 1} |->
        IF cells[b] # Erased THEN Junk
        ELSE Byte(at - op.start + (CHOOSE j \in 0 .. n - 1 : InPage(a, j) = b))]

-----------------------------------------------------------------------------
(* The driver.  A definition with an underscore in its name is a mutated   *)
(* form of the one that follows it.                                        *)

Smooth(to) == pc' = to /\ UNCHANGED <<calls, op, at, ret, got>>

GoTo(to) == Smooth(to) /\ UNCHANGED history

\* After a failure or a time-out, for those that are not looked at ...
GoOn(to) == Smooth(to) /\ trouble' = TRUE /\ UNCHANGED <<before, asked>>

\* ... and for those that end the call.
Fail == /\ pc' = "return" /\ ret' = "error"
        /\ trouble' = TRUE
        /\ UNCHANGED <<calls, op, at, got, before, asked>>

\* What a transfer that returns -1 does to the chip: Effect or nothing.
Broken(Effect) == Effect \/ UNCHANGED chip

Call ==
    /\ pc = "free" /\ calls < MaxCalls
    /\ calls' = calls + 1
    /\ op' \in Calls
    /\ at' = op'.start
    /\ ret' = "none" /\ got' = "none"
    /\ before' = cells
    /\ asked' = IF op'.kind = "read" THEN asked ELSE asked \union Region(op')
    /\ pc' = "check"
    /\ UNCHANGED <<polls, chip, trouble>>

Misaligned == op.start % op.unit # 0 \/ op.len % op.unit # 0

\* Erase offset/length not multiple of erase size
Refuse ==
    /\ pc = "check" /\ op.kind = "erase"
    /\ Misaligned
    /\ pc' = "return" /\ ret' = "error"
    /\ UNCHANGED <<calls, op, at, got, history, polls, chip>>

\* An erase unprotects the flash first, mode 4 sets the quad-enable bit:
\* both write the status registers.
WritesStatus == IF op.kind = "erase" THEN TRUE ELSE op.mode = 4

AfterStatus == IF op.kind = "read" THEN "read" ELSE "loop"

Accept ==
    /\ pc = "check"
    /\ op.kind = "erase" => ~Misaligned
    /\ GoTo(IF WritesStatus THEN "statusEnable" ELSE AfterStatus)
    /\ UNCHANGED <<polls, chip>>

\* spi_flash_write_status: each failure ends it, and the caller ignores it.
\* The poll of the second status register that follows in mode 4 changes
\* nothing, and its result is ignored too.
StatusEnable ==
    /\ pc = "statusEnable"
    /\ \/ ChipEnables /\ GoTo("statusWrite")
       \/ Broken(ChipEnables) /\ GoOn(AfterStatus)
    /\ UNCHANGED polls

StatusWrite ==
    /\ pc = "statusWrite"
    /\ \/ ChipStarts(Nothing) /\ GoTo("statusReady")
       \/ Broken(ChipStarts(Nothing)) /\ GoOn(AfterStatus)
    /\ polls' = 0

StatusReady ==
    /\ pc = "statusReady"
    /\ \/ ~wip /\ GoTo("statusDisable") /\ UNCHANGED <<polls, chip>>
       \/ ChipAtWork /\ polls + 1 < Timeout /\ polls' = polls + 1 /\ GoTo(pc)
       \/ ChipAtWork /\ polls + 1 = Timeout /\ GoOn(AfterStatus) /\ UNCHANGED polls
       \/ GoOn(AfterStatus) /\ UNCHANGED <<polls, chip>>

StatusDisable ==
    /\ pc = "statusDisable"
    /\ \/ ChipDisables /\ GoTo(AfterStatus)
       \/ Broken(ChipDisables) /\ GoOn(AfterStatus)
    /\ UNCHANGED polls

\* ret is returned uninitialised when there was nothing to do.
LoopEnds ==
    /\ pc = "loop" /\ at = op.start + op.len
    /\ ret' \in IF op.len = 0 THEN {"ok", "error"} ELSE {"ok"}
    /\ pc' = "return"
    /\ UNCHANGED <<calls, op, at, polls, got, chip, history>>

LoopBody ==
    /\ pc = "loop" /\ at < op.start + op.len
    /\ GoTo("enable")
    /\ UNCHANGED <<polls, chip>>

Enable ==
    /\ pc = "enable"
    /\ \/ ChipEnables /\ GoTo(IF op.kind = "erase" THEN "erase" ELSE "enabled")
       \/ Broken(ChipEnables) /\ Fail
    /\ polls' = 0

\* spi_flash_cmd_wait_enable: polls for the latch; the caller does not see
\* a failure, and a time-out is not one.
WaitEnabled ==
    /\ pc = "enabled"
    /\ \/ wel /\ GoTo("program") /\ UNCHANGED <<polls, chip>>
       \/ /\ ~wel
          /\ ChipAtWork \/ (~wip /\ UNCHANGED chip)
          /\ \/ polls + 1 < Timeout /\ polls' = polls + 1 /\ GoTo(pc)
             \/ polls + 1 = Timeout /\ GoOn("program") /\ UNCHANGED polls
       \/ GoOn("program") /\ UNCHANGED <<polls, chip>>

EraseUnit ==
    /\ pc = "erase"
    /\ \/ ChipStarts(ErasesUnit(Sent(at))) /\ GoTo("ready")
       \/ Broken(ChipStarts(ErasesUnit(Sent(at)))) /\ Fail
    /\ polls' = 0

Least(m, n) == IF m <= n THEN m ELSE n

ChunkLen_WholePage == Least(op.start + op.len - at, PageSize)

\* As much as is left of the page and of the data.
ChunkLen == Least(op.start + op.len - at, PageSize - (at % PageSize))

\* Mode 1 gives up when the transfer fails; mode 4 overwrites its result;
\* any other mode does not transfer anything.
Program ==
    /\ pc = "program"
    /\ polls' = 0
    /\ \/ /\ op.mode \in {1, 4}
          /\ ChipStarts(Programs(Sent(at), ChunkLen))
          /\ GoTo("ready")
       \/ /\ op.mode = 1
          /\ Broken(ChipStarts(Programs(Sent(at), ChunkLen)))
          /\ Fail
       \/ /\ op.mode = 4
          /\ Broken(ChipStarts(Programs(Sent(at), ChunkLen)))
          /\ GoOn("ready")
       \/ /\ op.mode \notin {1, 4}
          /\ GoTo("ready")
          /\ UNCHANGED chip

WaitReady_Once ==
    /\ pc = "ready"
    /\ \/ GoTo("disable") /\ UNCHANGED <<polls, chip>>
       \/ Fail /\ UNCHANGED <<polls, chip>>

WaitReady_StartsOver ==
    /\ pc = "ready"
    /\ \/ ~wip /\ GoTo("disable") /\ UNCHANGED <<polls, chip>>
       \/ ChipAtWork /\ polls' = (polls + 1) % Timeout /\ GoTo(pc)
       \/ Fail /\ UNCHANGED <<polls, chip>>

\* spi_flash_cmd_wait_ready
WaitReady ==
    /\ pc = "ready"
    /\ \/ ~wip /\ GoTo("disable") /\ UNCHANGED <<polls, chip>>
       \/ ChipAtWork /\ polls + 1 < Timeout /\ polls' = polls + 1 /\ GoTo(pc)
       \/ ChipAtWork /\ polls + 1 = Timeout /\ Fail /\ UNCHANGED polls
       \/ Fail /\ UNCHANGED <<polls, chip>>

\* offset += erase_size, or offset += chunk_len
Step == IF op.kind = "erase" THEN op.unit ELSE ChunkLen

Disable_Forgotten ==
    /\ pc = "disable"
    /\ pc' = "loop" /\ at' = at + Step
    /\ UNCHANGED <<calls, op, ret, got, history, polls, chip>>

Disable ==
    /\ pc = "disable"
    /\ \/ /\ ChipDisables
          /\ pc' = "loop" /\ at' = at + Step
          /\ UNCHANGED <<calls, op, ret, got, history>>
       \/ Broken(ChipDisables) /\ Fail
    /\ UNCHANGED polls

\* A chip at work does not answer a read.
ReadData ==
    /\ pc = "read"
    /\ \/ /\ got' = IF wip THEN "garbage" ELSE "data"
          /\ ret' = "ok" /\ pc' = "return"
          /\ UNCHANGED <<calls, op, at, history>>
       \/ Fail
    /\ UNCHANGED <<polls, chip>>

Return ==
    /\ pc = "return"
    /\ GoTo("free")
    /\ UNCHANGED <<polls, chip>>

Driver ==
    \/ Refuse \/ Accept
    \/ StatusEnable \/ StatusWrite \/ StatusReady \/ StatusDisable
    \/ LoopEnds \/ LoopBody \/ Enable \/ WaitEnabled \/ EraseUnit \/ Program
    \/ WaitReady \/ Disable \/ ReadData \/ Return

Next == Call \/ Driver \/ ChipFinishes

\* The hart runs on.  Nothing is assumed of the chip, which may never end what
\* it began: every wait has its own timeout.
Fairness == WF_vars(Driver)

Spec == Init /\ [][Next]_vars /\ Fairness

-----------------------------------------------------------------------------
(* Properties.                                                             *)

Succeeded(kind) == pc = "return" /\ ret = "ok" /\ op.kind = kind

\* Unless there was trouble, an erase that returns 0 has erased every byte it
\* was asked to (spi_flash.c:282-349).
EraseDone ==
    Succeeded("erase") /\ ~trouble => \A a \in Region(op) : cells[a] = Erased

\* Unless there was trouble, a program that returns 0 has stored every byte of
\* the buffer that went to an erased byte of the flash, whatever page
\* boundaries it crosses (spi_flash.c:373-469).
ProgramDone ==
    Succeeded("program") /\ ~trouble =>
        \A k \in 0 .. op.len - 1 :
            before[op.start + k] = Erased => cells[op.start + k] = Byte(k)

\* Unless there was trouble, a read that returns 0 was answered: no earlier
\* call left the chip at work (spi_flash.c:335, 452).
ReadAnswered == Succeeded("read") /\ ~trouble => got = "data"

\* Trouble or not, no byte changes that no caller has asked to change: a
\* program does not wrap inside its page, an erase does not reach past its
\* region, a command that a busy chip ignored is not made up for elsewhere
\* (spi_flash.c:29-35, 408).
Confined ==
    [][\A a \in Address : cells'[a] # cells[a] => a \in asked]_vars

\* Trouble or not, an erase or a program that returns 0 leaves the chip idle
\* and its latch clear (spi_flash.c:335-341, 452-463).
LeftProtected ==
    (Succeeded("erase") \/ Succeeded("program")) /\ op.len > 0 => ~wip /\ ~wel

\* Trouble or not, every call returns, even from a chip that never ends what
\* it began (spi_flash.c:119-134).
EveryCallReturns == (pc # "free") ~> (pc = "free")
=============================================================================
