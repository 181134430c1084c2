------------------------------ MODULE SpiSetup ------------------------------
(***************************************************************************)
(* Setting up a slave (spi/cadence_qspi.c): cadence_spi4x_setup_slave      *)
(* configures the controller and, unless the same request was calibrated   *)
(* last, has spi_calibration look for the read-data capture delay: it      *)
(* reads the chip's ID at the slowest clock, then at the requested one     *)
(* with each delay in turn, and settles on the middle of those that read   *)
(* the same ID.                                                            *)
(*                                                                         *)
(* Calibration does not select the chip: the one that answers is the one   *)
(* that the last transfer has selected.  Which delays work for which chip  *)
(* at which clock is a fact about the board, chosen once and for all; the  *)
(* slowest clock always works.  Reading the ID may fail at any time.       *)
(***************************************************************************)
EXTENDS Integers, FiniteSetsExt, SpiTransfer

CONSTANTS
    Taps,       \* CQSPI_READ_CAPTURE_MAX_DELAY
    MaxHz,      \* plat->max_hz; the clocks are 1, 2, ...
    Windows,    \* the sets of delays that may work at a clock
    MaxCalls    \* bound on the number of calls of the flash's functions

ASSUME TapsAssumption == Taps \in Nat \ {0, 1}
ASSUME MaxHzAssumption == MaxHz \in Nat \ {0}
ASSUME WindowsAssumption == Windows \subseteq SUBSET (0 .. Taps - 1)
ASSUME MaxCallsAssumption == MaxCalls \in Nat

VARIABLES
    pc,             \* where the driver is
    calls,          \* calls so far
    hz, cs,         \* what this call asks for, hz at most MaxHz
    i,              \* the delay spi_calibration tries
    rangeLo,        \* its range_lo and range_hi
    rangeHi,
    previousHz,     \* previous_hz, 0 at first
    calibratedHz,   \* qspi_calibrated_hz and qspi_calibrated_cs
    calibratedCs,
    ret,            \* "slave", "null", or "none" yet
    fresh,          \* history: this call has calibrated
    failed,         \* history: a calibration has failed since the last that
                    \* ran to its end
    tunedOn,        \* history: the chip that the last calibration talked to
    baud,           \* the clock it runs at, 0 being the slowest
    delay,          \* the capture delay it uses
    window          \* the delays that work, by chip and clock

cache == <<previousHz, calibratedHz, calibratedCs>>
scan == <<i, rangeLo, rangeHi>>
controller == <<baud, delay>>
setupVars == <<pc, calls, hz, cs, scan, cache, ret, fresh, failed, tunedOn,
               controller, window>>

SetupTypeOK ==
    /\ pc \in {"free", "golden", "scan", "settle", "finish", "return"}
    /\ calls \in 0 .. MaxCalls
    /\ hz \in 0 .. MaxHz /\ cs \in Chips
    /\ i \in 0 .. Taps
    /\ rangeLo \in -1 .. Taps - 1 /\ rangeHi \in -1 .. Taps - 1
    /\ previousHz \in 0 .. MaxHz /\ calibratedHz \in 0 .. MaxHz
    /\ calibratedCs \in Chips /\ tunedOn \in Chips
    /\ ret \in {"none", "slave", "null"}
    /\ fresh \in BOOLEAN /\ failed \in BOOLEAN
    /\ baud \in 0 .. MaxHz /\ delay \in 0 .. Taps - 1
    /\ window \in [Chips -> [1 .. MaxHz -> Windows]]

\* cadence_plat and spi_priv are in .bss.
SetupInit ==
    /\ pc = "free" /\ calls = 0 /\ hz = 0 /\ cs = slave
    /\ i = 0 /\ rangeLo = -1 /\ rangeHi = -1
    /\ previousHz = 0 /\ calibratedHz = 0 /\ calibratedCs = 0
    /\ ret = "none" /\ fresh = FALSE /\ failed = FALSE /\ tunedOn = cs
    /\ baud = 0 /\ delay = 0
    /\ window \in [Chips -> [1 .. MaxHz -> Windows]]

-----------------------------------------------------------------------------
(* A definition with an underscore in its name is a mutated form of the    *)
(* one that follows it.                                                    *)

Least(m, n) == IF m <= n THEN m ELSE n

Calibrated_AnyHz(f, c) == previousHz # 0 /\ calibratedCs = c

\* The request was calibrated last, as far as the driver knows.
Calibrated(f, c) == previousHz = f /\ calibratedHz = f /\ calibratedCs = c

\* The clock mode and the device sizes are written.
SetupSlave ==
    /\ pc = "free" /\ calls < MaxCalls
    /\ calls' = calls + 1
    /\ \E request \in 1 .. MaxHz + 1 : hz' = Least(request, MaxHz)
    /\ cs' \in Chips
    /\ ret' = "none" /\ fresh' = ~Calibrated(hz', cs')
    /\ pc' = IF Calibrated(hz', cs') THEN "finish" ELSE "golden"
    /\ UNCHANGED <<scan, cache, failed, tunedOn, controller, window>>

ReadFails == pc' = "return" /\ ret' = "null" /\ failed' = TRUE

\* The ID is read at the slowest clock with delay 0; then the clock is the
\* requested one.
ReadGolden ==
    /\ pc = "golden"
    /\ delay' = 0
    /\ \/ /\ baud' = hz
          /\ i' = 0 /\ rangeLo' = -1 /\ rangeHi' = -1
          /\ pc' = "scan" /\ UNCHANGED <<ret, failed>>
       \/ /\ ReadFails
          /\ baud' = 0
          /\ UNCHANGED scan
    /\ UNCHANGED <<calls, hz, cs, cache, fresh, tunedOn, window>>

\* An iteration sets the delay and reads the ID; the four actions that follow
\* are what it makes of the answer.
Try == /\ pc = "scan" /\ i < Taps
       /\ delay' = i
       /\ UNCHANGED <<calls, hz, cs, cache, fresh, tunedOn, baud, window>>

TryFails == Try /\ ReadFails /\ UNCHANGED scan

Next_i == i' = i + 1 /\ UNCHANGED <<pc, ret, failed>>

FindLow == /\ Try /\ rangeLo = -1 /\ i \in window[selected][hz]
           /\ rangeLo' = i /\ UNCHANGED rangeHi /\ Next_i

FindHigh_Inclusive ==
            /\ Try /\ rangeLo # -1 /\ i \notin window[selected][hz]
            /\ rangeHi' = i
            /\ pc' = "settle"
            /\ UNCHANGED <<i, rangeLo, ret, failed>>

FindHigh == /\ Try /\ rangeLo # -1 /\ i \notin window[selected][hz]
            /\ rangeHi' = i - 1
            /\ pc' = "settle"
            /\ UNCHANGED <<i, rangeLo, ret, failed>>

KeepLooking == /\ Try /\ (rangeLo # -1 <=> i \in window[selected][hz])
               /\ rangeHi' = i /\ UNCHANGED rangeLo /\ Next_i

ScanEnds ==
    /\ pc = "scan" /\ i = Taps
    /\ pc' = "settle"
    /\ UNCHANGED <<calls, hz, cs, scan, cache, ret, fresh, failed, tunedOn,
                   controller, window>>

Settle_NotWritten ==
    /\ pc = "settle" /\ rangeLo # -1
    /\ calibratedHz' = hz /\ calibratedCs' = cs
    /\ tunedOn' = selected /\ failed' = FALSE
    /\ pc' = "finish"
    /\ UNCHANGED <<calls, hz, cs, scan, previousHz, ret, fresh, controller,
                   window>>

Settle ==
    /\ pc = "settle" /\ rangeLo # -1
    /\ delay' = (rangeHi + rangeLo) \div 2
    /\ calibratedHz' = hz /\ calibratedCs' = cs
    /\ tunedOn' = selected /\ failed' = FALSE
    /\ pc' = "finish"
    /\ UNCHANGED <<calls, hz, cs, scan, previousHz, ret, fresh, baud, window>>

\* No delay works: spi_calibration returns err, which the last read has set
\* to 0.
SettleForNone ==
    /\ pc = "settle" /\ rangeLo = -1
    /\ tunedOn' = selected /\ failed' = FALSE
    /\ pc' = "finish"
    /\ UNCHANGED <<calls, hz, cs, scan, cache, ret, fresh, controller, window>>

\* previous_hz is set if the call has calibrated, and is hz already if not.
Finish ==
    /\ pc = "finish"
    /\ previousHz' = hz
    /\ slave' = cs
    /\ ret' = "slave"
    /\ pc' = "return"
    /\ UNCHANGED <<calls, hz, cs, scan, calibratedHz, calibratedCs, fresh,
                   failed, tunedOn, controller, window>>

\* What follows SetupSlave in a call.
SetupStep ==
    \/ /\ \/ ReadGolden
          \/ TryFails \/ FindLow \/ FindHigh \/ KeepLooking \/ ScanEnds
          \/ Settle \/ SettleForNone
       /\ UNCHANGED slave
    \/ Finish

-----------------------------------------------------------------------------
(* Properties.                                                             *)

\* The first run of delays that work, and the middle of it.
FirstRun(w) ==
    LET lo == Min(w)
    IN  {t \in w : lo .. t \subseteq w}

Middle(w) == (Min(w) + Max(FirstRun(w))) \div 2

Works(c) == baud = hz /\ delay = Middle(window[c][hz])

\* The chip has a delay that works at this clock and is not the last one.
Calibratable(c) == \E t \in window[c][hz] : t < Taps - 1

\* A slave that was just calibrated uses the requested clock and the middle
\* of the delays that work at it, whatever was set up or failed before, if
\* its chip can be calibrated and is the one that the last transfer has
\* selected (cadence_qspi.c:76-116).
FreshSlaveReads ==
    pc = "return" /\ ret = "slave" /\ fresh /\ selected = cs
        /\ Calibratable(cs) => Works(cs)

\* So does a slave whose calibration was skipped, whatever transfers and
\* failures came between, unless a calibration has failed since the last that
\* ran to its end, or that one talked to another chip: what was calibrated
\* last is what the controller still uses (cadence_qspi.c:181-193).
CachedSlaveReads ==
    pc = "return" /\ ret = "slave" /\ ~fresh /\ ~failed /\ tunedOn = cs
        /\ Calibratable(cs) => Works(cs)
=============================================================================
