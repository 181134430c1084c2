---------------------------- MODULE SpiTransfer -----------------------------
(***************************************************************************)
(* Transfers (spi_xfer in spi/spi.c, cadence_spi_xfer in                   *)
(* spi/cadence_qspi.c).  An operation of a flash is a transfer that both   *)
(* begins and ends, or two: the first puts the command in the driver's     *)
(* buffer, the second has the controller execute it with the data.  The    *)
(* controller answers or fails.                                            *)
(***************************************************************************)
EXTENDS Naturals, Sequences

CONSTANTS
    Chips,   \* the chip selects
    Ops      \* the commands of the flashes

\* vic_spi_slave is in .bss.
ASSUME ChipsAssumption == 0 \in Chips
\* An empty buffer is no command.
ASSUME OpsAssumption == "none" \notin Ops

VARIABLES
    slave,     \* the cs of vic_spi_slave, the only slave there is
    selected,  \* the chip that the configuration register selects
    cmd,       \* cmd_buf and cmd_len
    xfers,     \* the transfers of the operation that are still to come
    issued     \* history: what the operation had the controller do

transferVars == <<slave, selected, cmd, xfers, issued>>

\* addressed: the command is longer than a byte (CQSPI_IS_ADDR).
Command(op, addressed) == [op |-> op, addressed |-> addressed]
Empty == Command("none", FALSE)

\* data: which of din and dout the caller gives for data; bytes: data_bytes,
\* 1 standing for any number of them.
Begin(c) ==
    [begin |-> TRUE, end |-> FALSE, cmd |-> c, data |-> "none", bytes |-> 0]
End(data) ==
    [begin |-> FALSE, end |-> TRUE, cmd |-> Empty, data |-> data, bytes |-> 1]
BeginEnd(c) ==
    [begin |-> TRUE, end |-> TRUE, cmd |-> c, data |-> "none", bytes |-> 0]

\* spi_flash_read_write: one transfer if there is no data, or two.
ReadWrite(c, data) ==
    IF data = "none" THEN <<BeginEnd(c)>> ELSE <<Begin(c), End(data)>>

Transfers == {Begin(c) : c \in [op : Ops, addressed : BOOLEAN]} \union
             {BeginEnd(c) : c \in [op : Ops, addressed : BOOLEAN]} \union
             {End(data) : data \in {"in", "out"}}

TransferTypeOK ==
    /\ slave \in Chips /\ selected \in Chips
    /\ cmd \in [op : Ops, addressed : BOOLEAN] \union {Empty}
    /\ xfers \in Seq(Transfers)

TransferInit ==
    /\ slave = 0
    /\ selected \in Chips
    /\ cmd = Empty /\ xfers = <<>> /\ issued = <<>>

-----------------------------------------------------------------------------
\* din && data_bytes, and else dout && !(flags & SPI_XFER_BEGIN): a transfer
\* of no bytes is neither.
Reads(t) == t.data = "in" /\ t.bytes # 0
Writes(t) == t.data = "out" /\ ~t.begin

\* How the controller is used: through the STIG registers, or the FIFOs.
Mode(t, c) ==
    IF Reads(t) THEN IF c.addressed THEN "indirect read" ELSE "stig read"
    ELSE IF Writes(t) /\ c.addressed THEN "indirect write" ELSE "stig write"

Select_Never == UNCHANGED selected

\* cadence_qspi_apb_chipselect, in every transfer
Select == selected' = slave

BeginTransfer ==
    /\ xfers # <<>> /\ ~Head(xfers).end
    /\ cmd' = Head(xfers).cmd
    /\ Select
    /\ xfers' = Tail(xfers)
    /\ UNCHANGED <<slave, issued>>

\* The command of the transfer that ends.
Loaded(t) == IF t.begin THEN t.cmd ELSE cmd

\* The command, if there is one, is executed, and the buffer is cleared
\* whatever comes of it.
EndTransfer ==
    /\ xfers # <<>> /\ Head(xfers).end
    /\ Select
    /\ LET t == Head(xfers)
           c == Loaded(t)
       IN  issued' = IF c = Empty THEN issued
                     ELSE Append(issued, [mode |-> Mode(t, c),
                                          chip |-> selected', op |-> c.op])
    /\ cmd' = Empty
    /\ xfers' = Tail(xfers)
    /\ UNCHANGED slave
=============================================================================
