----------------------------- MODULE FlashProbe -----------------------------
(***************************************************************************)
(* spi_flash_probe (spi/spi_probe.c) and the operations of the flash that  *)
(* it returns, over the set-up of the slave and the transfers of the       *)
(* driver.  There is one slave and one flash, vic_spi_slave and            *)
(* g_spi_flash: every probe hands out the same two.  The ID is read        *)
(* without regard to whether the transfers succeed, into bytes that        *)
(* nothing initialises, and looked up in a table that no entry ends.       *)
(***************************************************************************)
EXTENDS SpiSetup

CONSTANTS
    Table,   \* the IDs of spi_flash_table, in its order
    Ids,     \* the IDs that may be read
    Boards   \* the IDs of the chips, by chip select

NoId == "0x000000"
Rdid == "rdid"

ASSUME TableAssumption == Table \in Seq(Ids \ {NoId})
ASSUME BoardsAssumption == Boards \subseteq [Chips -> Ids]
ASSUME IdsAssumption == NoId \in Ids /\ Rdid \in Ops

VARIABLES
    at,       \* where the caller is: idle, setup, id, nor or operation
    id,       \* idcode, a local of spi_flash_probe
    entry,    \* the entry of g_spi_flash, 0 while it is not set
    probed,   \* what the last probe has returned
    asked,    \* history: the operation
    trouble,  \* history: the last reading of an ID has failed
    chip      \* the IDs of the chips

probeVars == <<at, id, entry, probed, asked, trouble, chip>>
vars == <<probeVars, setupVars, transferVars>>

\* The entry past the end of the table, whatever is there.
Beyond == Len(Table) + 1

\* The operations of a flash (spi_flash.c), by the form of their transfers.
Operations == [cmd : [op : Ops \ {Rdid}, addressed : BOOLEAN],
               data : {"none", "in", "out"}]
ReadId == [cmd |-> Command(Rdid, FALSE), data |-> "in"]

TypeOK ==
    /\ SetupTypeOK /\ TransferTypeOK
    /\ at \in {"idle", "setup", "id", "nor", "operation"}
    /\ id \in Ids
    /\ entry \in 0 .. Beyond
    /\ probed \in {"none", "null", "flash"}
    /\ asked \in Operations \union {ReadId}
    /\ trouble \in BOOLEAN
    /\ chip \in Boards

Init ==
    /\ TransferInit /\ SetupInit
    /\ at = "idle" /\ id = NoId /\ entry = 0 /\ probed = "none"
    /\ asked = ReadId
    /\ trouble = FALSE
    /\ chip \in Boards

-----------------------------------------------------------------------------
\* cadence_qspi_init has registered the driver: the dispatch of spi.c finds
\* its functions.
Probe ==
    /\ at = "idle" /\ SetupSlave
    /\ at' = "setup"
    /\ UNCHANGED <<id, entry, probed, asked, trouble, chip, transferVars>>

SetUp ==
    /\ at = "setup" /\ SetupStep
    /\ UNCHANGED <<probeVars, selected, cmd, xfers, issued>>

SetupReturns == pc = "return" /\ pc' = "free"
                /\ UNCHANGED <<calls, hz, cs, scan, cache, ret, fresh, failed,
                               tunedOn, controller, window>>

NoSlave ==
    /\ at = "setup" /\ SetupReturns /\ ret = "null"
    /\ at' = "idle" /\ probed' = "null"
    /\ UNCHANGED <<id, entry, asked, trouble, chip, transferVars>>

\* spi_read_id: the status of neither transfer is looked at.
SlaveReady ==
    /\ at = "setup" /\ SetupReturns /\ ret = "slave"
    /\ at' = "id"
    /\ asked' = ReadId
    /\ xfers' = ReadWrite(ReadId.cmd, ReadId.data) /\ issued' = <<>>
    /\ UNCHANGED <<id, entry, probed, trouble, chip, slave, selected, cmd>>

SendRdid ==
    /\ at = "id" /\ BeginTransfer
    /\ UNCHANGED <<probeVars, setupVars>>

\* The controller reads well at the slowest clock, or with a delay that works.
ReadsWell(c) == baud = 0 \/ delay \in window[c][baud]

GetId ==
    /\ at = "id" /\ EndTransfer
    /\ id' \in IF ReadsWell(selected') THEN {chip[selected']} ELSE Ids
    /\ trouble' = FALSE
    /\ at' = "nor"
    /\ UNCHANGED <<entry, probed, asked, chip, setupVars>>

\* The read fails, and idcode is what was on the stack.
MissId ==
    /\ at = "id" /\ EndTransfer
    /\ id' \in Ids
    /\ trouble' = TRUE
    /\ at' = "nor"
    /\ UNCHANGED <<entry, probed, asked, chip, setupVars>>

NoFlash ==
    /\ at = "nor" /\ id = NoId
    /\ at' = "idle" /\ probed' = "null"
    /\ UNCHANGED <<id, entry, asked, trouble, chip, setupVars, transferVars>>

\* Where the scan ends: at the first entry with the ID, or past the end.
Found(x) ==
    {k \in 1 .. Beyond :
        /\ k = Beyond \/ Table[k] = x
        /\ \A j \in 1 .. k - 1 : Table[j] # x}

NameFlash ==
    /\ at = "nor" /\ id # NoId
    /\ entry' \in Found(id)
    /\ id' = NoId
    /\ at' = "idle" /\ probed' = "flash"
    /\ UNCHANGED <<asked, trouble, chip, setupVars, transferVars>>

-----------------------------------------------------------------------------
(* Operations of the flash.                                                *)

Operate ==
    /\ at = "idle" /\ probed = "flash" /\ calls < MaxCalls
    /\ calls' = calls + 1
    /\ asked' \in Operations
    /\ xfers' = ReadWrite(asked'.cmd, asked'.data) /\ issued' = <<>>
    /\ at' = "operation"
    /\ UNCHANGED <<id, entry, probed, trouble, chip, slave, selected, cmd, pc,
                   hz, cs, scan, cache, ret, fresh, failed, tunedOn,
                   controller, window>>

\* What the operation does to the chip is SpiFlash's.
TransferOfOperation ==
    /\ at = "operation" /\ (BeginTransfer \/ EndTransfer)
    /\ at' = IF xfers' = <<>> THEN "idle" ELSE at
    /\ UNCHANGED <<id, entry, probed, asked, trouble, chip, setupVars>>

Next ==
    \/ Probe \/ SetUp \/ NoSlave \/ SlaveReady
    \/ SendRdid \/ GetId \/ MissId \/ NoFlash \/ NameFlash
    \/ Operate \/ TransferOfOperation

Spec == Init /\ [][Next]_vars

-----------------------------------------------------------------------------
(* Properties.                                                             *)

\* What an operation needs of the controller: its FIFOs for data that has an
\* address, the STIG registers for anything else.
Path(o) ==
    LET addressed == o.cmd.addressed /\ o.data # "none"
    IN  IF o.data = "in" THEN IF addressed THEN "indirect read" ELSE "stig read"
        ELSE IF addressed THEN "indirect write" ELSE "stig write"

\* However calls have followed one another and failed, an operation or the
\* reading of an ID has the controller do one thing: its own command, to the
\* chip of the slave, in the mode that its address and data call for
\* (cadence_qspi.c:209-300).
OneCommandEach ==
    at = "nor" \/ (at = "idle" /\ asked # ReadId) =>
        issued = <<[mode |-> Path(asked), chip |-> slave, op |-> asked.cmd.op]>>

\* The ID can be relied on: its last reading did not fail, and the delay was
\* calibrated, by the last calibration to end and none since, on the very
\* chip, which can be calibrated.  The program sees to none of it.
IdIsGood == ~trouble /\ ~failed /\ tunedOn = slave /\ Calibratable(slave)

Listed(x) == \E k \in DOMAIN Table : Table[k] = x

\* Whatever probes and operations came before, and however they failed, a good
\* ID gives a flash only if there is a chip, and if the chip is one of the
\* table's, the flash is described by the chip's entry (spi_probe.c:163-222).
FlashIsTheSlaves ==
    at = "idle" /\ probed = "flash" /\ IdIsGood =>
        /\ chip[slave] # NoId
        /\ Listed(chip[slave]) =>
             entry \in DOMAIN Table /\ Table[entry] = chip[slave]
=============================================================================
