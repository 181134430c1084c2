------------------------------ MODULE BringUp -------------------------------
(***************************************************************************)
(* Hart 0 from _start to the end of the board set-up: start.S makes the    *)
(* program's memory ready, BootMain (boot/bootmain.c) switches the clocks, *)
(* lets the buses out of reset and routes the pads through the generated   *)
(* macros, and uart_init makes the console usable, after which messages    *)
(* are printed.  The hardware follows the resets and sends the characters  *)
(* in its own time.                                                        *)
(***************************************************************************)
EXTENDS ControlRegs, ClkgenLayout, RstgenLayout, SysconLayout, Startup,
        Console

\* The registers of the chip, <<block, word>>.
Block(name, layout) ==
    [r \in {<<name, k>> : k \in DOMAIN layout} |-> layout[r[2]]]

ChipLayout ==
    Block("clkgen", ClkgenLayout) @@ Block("rstgen", ResetLayout) @@
    Block("sysmain", SysmainLayout) @@ Block("iopad", IopadLayout)

FieldIn(block, name, a) == [reg |-> <<block, name>>, at |-> a]
Set(field, v) == [kind |-> "set", field |-> field, value |-> v]

Switch(clock, ways, k) ==
    Set(FieldIn("clkgen", clock, Source(ways)), Choice(k))
GateOf(clock) == FieldIn("clkgen", clock, Gate)
Enable(clock) == Set(GateOf(clock), {0})
AssertReset(reset) == Set(ResetNamed(reset), {0})
ClearReset(reset) == Set(ResetNamed(reset), {})
Sysmain(name, a, v) == Set(FieldIn("sysmain", name, a), v)
Pad(w, a, v) == Set(FieldIn("iopad", w, a), v)
Funcshare(i, v) == Pad(32 + i, Config(0, 32), v)

-----------------------------------------------------------------------------
(* What BootMain does before uart_init.                                    *)

chip_clk_init ==
    <<Switch("cpundbus_root", 4, 1), Switch("dla_root", 3, 1),
      Switch("dsp_root", 4, 3), Switch("perh0_root", 2, 1)>>

BusesOut_ClockLast ==
    <<ClearReset("rstn_usbnoc_axi"), ClearReset("rstn_hifi4noc_axi"),
      ClearReset("rstn_x2c_axi"), Enable("x2c_axi"),
      ClearReset("rstn_dspx2c_axi"), ClearReset("rstn_dma1p_axi"),
      Enable("msi_apb"), ClearReset("rstn_msi_apb"),
      AssertReset("rstn_x2c_axi"), ClearReset("rstn_x2c_axi")>>

BusesOut ==
    <<ClearReset("rstn_usbnoc_axi"), ClearReset("rstn_hifi4noc_axi"),
      Enable("x2c_axi"), ClearReset("rstn_x2c_axi"),
      ClearReset("rstn_dspx2c_axi"), ClearReset("rstn_dma1p_axi"),
      Enable("msi_apb"), ClearReset("rstn_msi_apb"),
      AssertReset("rstn_x2c_axi"), ClearReset("rstn_x2c_axi")>>

PadsRouted ==
    <<Pad(104, Config(0, 3), {1, 2}),
      Funcshare(0, {22, 23}), Funcshare(1, {6, 7, 22, 23}),
      Funcshare(2, {6, 7, 22, 23}), Funcshare(3, {6, 7, 22, 23}),
      Funcshare(7, {0, 1, 6, 7, 16, 17, 22, 23}), Funcshare(6, {22, 23})>>

BootMain ==
    chip_clk_init \o <<Funcshare(18, {6, 7, 22, 23})>> \o BusesOut \o
    <<Sysmain("register69", Config(0, 1), {0})>> \o PadsRouted

-----------------------------------------------------------------------------
vars == <<regVars, startVars, consoleVars>>

Init == StartInit /\ RegInit /\ ConsoleInit

Start == StartNext /\ UNCHANGED <<regVars, consoleVars>>

SetUpBoard == crt = "main" /\ Macro /\ UNCHANGED <<startVars, consoleVars>>

UseConsole ==
    /\ crt = "main" /\ todo = <<>>
    /\ ConsoleNext
    /\ UNCHANGED <<regVars, startVars>>

Hart0 == Start \/ SetUpBoard \/ UseConsole

BlockFollows ==
    (\E f \in Played : Follow(f)) /\ UNCHANGED <<startVars, consoleVars>>
WordDriven ==
    (\E r \in DOMAIN word : Drive(r)) /\ UNCHANGED <<startVars, consoleVars>>
CharacterSent == Transmit /\ UNCHANGED <<regVars, startVars>>

Next == Hart0 \/ BlockFollows \/ WordDriven \/ CharacterSent

\* The macros wait for one reset at a time, so that one condition on the
\* blocks stands for one on each.
Spec ==
    /\ Init /\ [][Next]_vars
    /\ WF_vars(Hart0) /\ WF_vars(BlockFollows) /\ WF_vars(CharacterSent)

-----------------------------------------------------------------------------
\* The gates of the clocks that BootMain opens, with the reset of each block.
GatedBlocks ==
    {[reset |-> ResetNamed("rstn_x2c_axi"), gate |-> GateOf("x2c_axi")],
     [reset |-> ResetNamed("rstn_msi_apb"), gate |-> GateOf("msi_apb")]}

(* A block that BootMain opens the clock of leaves its reset with the      *)
(* clock running, however long the hardware takes to follow.               *)
ReleasedWithClock ==
    [][\A b \in GatedBlocks :
           b.gate \in Played /\ b.reset \in status' \ status =>
               0 \in Value(b.gate)]_vars

(* The set-up ends, whatever was in the registers and in the memory: no    *)
(* loop of start.S, no poll of a reset's status and no wait for the        *)
(* transmitter lasts for ever.                                             *)
HandsOver == <>(todo = <<>> /\ con = "done")
=============================================================================
