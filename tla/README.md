# Verification of the JH7100 second boot

TLA+ models, TLC runs and TLAPS proofs for the second-stage boot program of the
JH7100 (StarFive), a two-hart RISC-V SoC. The boot ROM loads this program into
on-chip memory and starts hart 0 in it. Hart 0 sets up clocks and pads, takes
hart 1 out of the boot ROM, loads the DDR-init image from a SPI NOR flash and
jumps to it; hart 1 waits for an interrupt and jumps to it too.

Source paths below are relative to `src/`. `PROJECT.json` holds the map from
each definition to the lines it models, the runs, the mutants each property was
tested against, the hazards and the theorems.

## 1. The system

### Components

| Component | State it keeps | Operations | What makes it correct |
|---|---|---|---|
| **Two-hart hand-off** (`boot/start.S`, `boot/bootmain.c`) | the mailbox word `0x1801fffc`, hart 1's `msip` in the CLINT, the image at `0x18080000`, where each hart is | hart 0: plant the mailbox, wake hart 1, load, release hart 1, jump; hart 1: clear `msip`, `wfi`, look at `mip`, clear, jump | nobody enters an image that was not loaded, or after a failure; the wake-up interrupt is never taken for the release; hart 1 does follow |
| **Image loading** (`load_data`) | size, page count, flash offset, memory address | read a page, copy 252 bytes of the first, loop | every byte of the file in its place; bounded overrun; a failure is never reported as success |
| **Flash operations** (`spi/spi_flash.c`) | the position in the erase or program loop; the chip's latch, busy bit and content | erase, program, read, status write, polling loops | what was asked is done, nothing else is touched, the chip is left idle and protected, every call returns |
| **Slave setup and calibration** (`spi/cadence_qspi.c`) | the cache of the last calibration; the controller's clock and capture delay | `cadence_spi4x_setup_slave`, `spi_calibration` | a slave handed out is configured for its clock with a delay that works |
| **QSPI controller driver** (`spi/cadence_qspi_apb.c`) | retry counters, positions in buffers; the controller's registers and FIFO | STIG command, indirect read, indirect write | the answer is that of the command, each byte goes where it belongs, no FIFO is over- or underrun, the controller is left at rest, every call returns |
| **SPI dispatch and transfer** (`spi/spi.c`, `cadence_spi_xfer`) | the command kept between BEGIN and END; the chip selected | choose one of the four controller operations | an operation of a flash has the controller do one thing: its own command, on its chip |
| **Flash probe** (`spi/spi_probe.c`) | the one slave and the one flash there are | read the ID, search the table, fill in the flash | the flash returned is the one of the chip the slave selects |
| **Reset, clock, pads** (`BootMain`) | where in the sequence of macros it is | clock switches, resets, pad words, in order | clock before reset, whole pulses, every poll ends |
| **Generated macros** (`common/*_ctrl_macro.h`) | about 370 registers and their fields | read, modify, write; wait for a status | a macro changes its own field alone; a reset has been followed when it returns |
| **UART and printk** (`uart/uart.c`) | UART registers, the formatter's buffer | set the line up, format, polled output | the line is set whatever it was; what goes out is the message, cut to the buffer |
| **C runtime, layout** (`boot/start.S`, `build/bootloader.lds`) | `.data`, `.bss` | copy, clear | memory is as linked and nothing else is written |
| **Timer** (`timer/timer.c`) | `mtime` | `udelay`, which nobody calls | |
| **Trap handler** (`boot/trap.c`) | none | print and return | |
| **Helpers** (`common/util.c`, `common/div64.h`) | none | memcpy, memset, strings | |
| **Build** (`build/`) | none | prepends the file's size to it | |

### How they interact

`start.S` makes memory ready and calls `BootMain`, which sets up clocks, buses and
pads with the generated macros, starts the console and plants the mailbox. From
there calls go straight down: `boot_from_spi` → `spi_flash_probe`
(→ slave setup → calibration, → the ID's two transfers) and `load_data` → `spi_flash_read` →
`spi_xfer` → `cadence_spi_xfer` → one of the controller operations. There are no
callbacks, no interrupts inside the program on hart 0 and no allocation.
Concurrency comes from outside the call tree:

* hart 1 runs beside hart 0 and shares the mailbox, `msip` and the image with it,
  through plain volatile accesses (`common/comdef.h`) and no fence on hart 0;
* the QSPI controller executes commands, fills or drains its FIFO and sets DONE
  while the driver polls it;
* the flash chip erases and programs while the driver polls its status;
* the blocks of the chip follow their resets, the hardware changes status bits that
  share a word with configuration bits, and the UART sends, while `BootMain` goes on.

All timeouts are counts of polls. All errors are return values, some of which
their callers do not look at.

### What is hard

The interleaving of the two harts around one interrupt bit that serves twice;
the order in which stores become visible; polling loops of the form
`while (retry--) { ... break; }  if (!retry)`, whose counter is at `UINT_MAX` after
a timeout and at 0 after a last-poll success; status bits that outlive the
operation they belong to; a chip that silently ignores a command while it is
busy; a size read from flash; a cache of what the controller was calibrated for,
kept apart from the chip that was selected at the time; read-modify-write of words
that others change; registers with two uses each.
`PROJECT.json` lists these as hazards, each at its line.

## 2. The modules

| Module | Models | Proofs |
|---|---|---|
| `BootGate` | abstract: a gate in front of the image that two harts pass | |
| `ImageLoad` | abstract: a file that becomes whole or is given up | |
| `LoadData` (`MCLoadData`) | `load_data` byte by byte; implements `ImageLoad` | `LoadDataProofs` |
| `SecondBoot` (`MCSecondBoot`) | both harts, the ROM's wake-up, both store buffers; extends `LoadData`; implements `BootGate` | `SecondBootProofs` |
| `QspiCommand` | STIG commands against a controller of any pace | `QspiCommandProofs` |
| `QspiRead` | indirect read and its FIFO | `QspiReadProofs` |
| `QspiWrite` | indirect write, its FIFO and three polling loops | `QspiWriteProofs` |
| `SpiFlash` (`MCSpiFlash`) | `spi_flash.c` against a NOR chip | `SpiFlashProofs` |
| `SpiTransfer` | `spi_xfer`: the command buffer, the chip select, the choice of operation | |
| `SpiSetup` | slave setup and calibration; extends `SpiTransfer` | |
| `FlashProbe` (`MCFlashProbe`) | the probe and the operations of its flash; composes the two | `FlashProbeProofs`, of all three |
| `FieldStore` | abstract: a store of independent fields, and blocks that follow their resets | |
| `RegisterFields` | the shapes of a field: where it is, which macros it has | |
| `ClkgenLayout`, `RstgenLayout`, `SysconLayout` | the words of the four generated headers and their fields | |
| `ControlRegs` | the macros and the hardware under them; implements `FieldStore` | in `BringUpProofs` |
| `Startup` | the two loops of `start.S` between the linker's symbols | in `BringUpProofs` |
| `Console` | `uart_init`, `printk`, and the UART | in `BringUpProofs` |
| `BringUp` (`MCBringUp`) | hart 0 from `_start` to the mailbox; composes the seven above it from `RegisterFields` on | `BringUpProofs` |

In every module a definition with an underscore in its name is a mutated form of
the definition after it, a bug the code does not have: the properties are tested
against those, and nothing else uses them.

**SecondBoot.** `pc0` and `pc1` are the places in the code; one action is one
shared access or one decision on one. While hart 0 is in `load_data` its steps are
those of `LoadData` (`LoadStep`), and the result it returns decides what follows
(`LoadReturns`). A store goes into its hart's buffer
(`Store`) and reaches memory by `DrainHartZero`/`DrainHartOne`. Hart 0's stores
are numbered in program order; all stores of one page are one element, and those of a
read that failed half-way are not followed into the buffer, since nobody enters after it.
`LoadData`'s `mem` is memory as hart 0 sees it, `image` the pages of it that hart 1 can
see. A store may leave the buffer before an earlier one unless the two are to one
location, which RVWMO keeps, or are a pair of `KeptOrder`: nothing for RVWMO without a
fence, which is what the code has (`boot`, `boot_reordered`), and all pairs
(`ProgramOrder`) for a machine that keeps program order (`boot_lost_ipi`).
Hart 1's first wake-up is the boot ROM's (external): it jumps through the
mailbox word, wherever that leads if the word is not there yet (`"wild"`), and may or may
not have cleared `msip` by then. `wfi` may resume at
any time, as the ISA allows. `NUM_CORES` is 2, so `bltu a0, a2` always branches
for hart 1. `mip` is taken to follow `msip`, so the `csrw mip, 0` that follow the
clears change nothing. In the gate a load or probe that failed is `failed`, a load that
returned 0 is `loaded`, and the release takes effect when the second interrupt
reaches the CLINT.

**LoadData.** A byte of memory is the flash address it was copied from. `PageSize`
and `WordMod` are parameters; the code writes 256 as 255, 8 and 252. A failed page
read may have stored a part of the page (`PageFails`).

**QspiCommand, QspiRead, QspiWrite.** The three operations of
`cadence_qspi_apb.c`. Each has the driver's program points, its `retry` as an
unsigned word that wraps (`WordMod`), and the controller as a process of its own.
Time is measured in polls: `late` becomes TRUE once more than `Latency` polls have
found the controller at work, which may happen at any point and last for ever.
In `QspiRead` bytes are their positions and the FIFO is a pair of counters, for it
never reorders; DONE may come at any delay after the last word, `CANCEL` empties
the FIFO and does not clear DONE. In `QspiWrite` a word is the position of its
first byte, and a word pushed into a full FIFO is lost.

**SpiFlash.** One `spi_flash_read_write` is one step and may fail at any time, with
or without the chip having seen the command. The chip (external) starts work only
when its latch is set and it is not busy, and clears the latch when it ends. The
results the code does not look at are steps that go on (`GoOn`), the others end
the call (`Fail`); both set `trouble`. The chip may be at work for any number of polls, or for
ever. The content of the flash is tracked byte by
byte, page wrap-around and programming of bytes that are not erased included.

**SpiTransfer, SpiSetup, FlashProbe.** One state machine in three modules. A
transfer is one step: BEGIN stores the command, END has the controller execute it
and clears it, both select the chip of the slave. There is one `vic_spi_slave` and
one `g_spi_flash`, so a later probe changes what an earlier one handed out; that is
why `slave` and `entry` are variables and not results. Which delays work for which
chip at which clock is chosen once, in `SetupInit`, from a set of windows. The scan,
the four ways an iteration may go, the three cache variables and each early return
are the code's. Calibration reads the ID of the chip that the last transfer has
selected, whichever the caller wants. `failed` says that a calibration has failed since the
last that ran to its end, `trouble` that the last reading of an ID has. `Path` says which of
the controller's four operations a flash's operation needs, by its address and data;
`Mode` how `cadence_spi_xfer` chooses, by the transfer's pointers, length and flags.
`MissId` is the ID read whose result nobody
looks at: the three bytes are then any. The slot past the end of the table
(`Beyond`) stands for what the scan finds there: the table has no entry that ends it,
so that a scan may also run further than one slot, which no property promises
anything about.

**RegisterFields, the layouts, ControlRegs.** A register is the set of its bits that
are 1. A layout gives for each word the fields there are macros for; the about 1500
macros of the headers are `SetField`, `SetReset` with `PollStatus`, `GetField` and
`ReadResetStatus` at those fields. `ReadWord` and the store after it are two steps,
between which the hardware may change the bits it drives. The blocks of the resets are
`status`; `Follow` lets one follow its line at any time. Empty `_ENABLE_CLOCK_` macros
have no field.

**Startup.** Memory is a function from addresses to bytes, the initialised data
numbered by their place. Addresses are those of the linker script, in a region `rom`
of `RomLength` bytes; the sections' sizes are inputs. `SectionsAssumption` says that
the region is a multiple of 64 and that the data fit it, as they do when the linker
accepts the program.

**Console.** A format string is cut into items, each a literal character or a
conversion, and `vnprintf` reads it one letter per step, with the code's `format`,
`longarg`, `pos`, buffer and `va_list` (`vl`, an item whose argument is next or one before
it). A message carries what is meant by it (`meant`, and where in it each item ends:
`cuts`) beside the items, and every item what its argument prints as, taken as an `int`
and taken as a `long`: `IsMessage` says when they agree, and the formatter never looks at
`meant`. `%x` and `%d` differ only in those texts. The UART decodes an offset by its DLAB
bit.

**BringUp.** `BootMain` is the sequence of macro calls as the function makes them.
The three parts run one after the other on hart 0 and share no variable; the
hardware under each is a process of its own.

## 3. The runs

Seven runs pass. Five show a disagreement between the code and a comment or a message
beside it. A type invariant is in every module (`TypeOK`) and is proved, not run, where
there are proofs.

| Run | Question | Bounds |
|---|---|---|
| `boot` | is the file whole and the overrun bounded; is nobody let into an image that was not loaded, released, or failed; is a parked hart 1 released? | 8-byte pages, a 5-bit size word, every size that fits, 0 to 24; `KeptOrder` empty |
| `boot_reordered` | is the image whole in memory when hart 1 enters it? **No** | the same, sizes 0, 8, 16 and 24 |
| `boot_lost_ipi` | does hart 1 always follow? **No** | the same sizes; all stores kept in program order |
| `load_overflow` | is the file whole for every size word? **No** | `LoadData` alone, 8-byte pages, all sizes of a 6-bit word |
| `command` | answers, success, overlap, return, at any pace of the controller | 3 commands, retry 5, latency 3 |
| `command_idle` | does 1 mean idle? **No** | 1 command |
| `read` | data in place, FIFO never underrun, rest between reads, return | 3 reads of 1, 4, 7 or 13 bytes, FIFO of 2 words, retry 3 |
| `read_dead` | does a read return when the controller stops? **No** | the same |
| `write` | buffer sent, FIFO never overrun, rest between writes, success, return | 2 writes of 1, 8, 13 or 21 bytes, 8-byte pages, FIFO of 3 words, retry 8 |
| `flash` | is what was asked done and nothing else, whatever fails? | 2 calls, 4 pages of 2 bytes, units of 1 and 2 pages, timeout 2 |
| `probe` | is a slave handed out configured right, does an operation do its one thing, does a good ID give the chip's flash? | 3 calls of probe or operation, 2 clocks, 2 chip selects, 4 delays, 3 windows for each chip and clock, 2 boards, the table of the build |
| `bringup` | is memory as linked, each macro right, the line set, the message sent, and does the set-up end? | `BootMain`'s whole program from three states of the registers; a short program for every field of the four headers; 5 sizes of the sections, 3 states of the line, 8 messages, a buffer of 6 |

**Why the bounds are enough.** `boot`: a page more adds an element to a buffer
whose elements behave alike, and the narrow word makes every size, on both sides of each
page boundary, one that the header may hold; the theorems are for any page, word and
sizes. `command`: three
commands let an answer be stale by two; the retry is at least two polls above the
latency, the least at which nothing may fail, and below it `late` leads through
both ends of each loop. `read`: the lengths are a dangling byte, a whole word, a
word and a dangling part, and more than the FIFO holds; with three reads a failed
read leaves its DONE to a second one and that one's to a third. `write`: the same,
with `Threshold + PageSize / 4 = FifoWords`, the tightest FIFO the assumption
allows (the program has 50 + 64 of 128 words), and a length over two pages so that
the counter is set again for each. `flash`: two calls let the first leave the chip
in any state to the second; calls start on and off page and unit boundaries and
cross them. `probe`: the third call may
follow a success and a failure in either order, on the same chip or the other; the
windows are none, a run with a gap after it, and a run up to the last delay. `bringup`:
the programs of single fields read each field back after each value a macro writes;
`BootMain`'s own values are in it; the inputs of its three parts vary one at a time, for
the parts share no variable. The sizes of the sections end on, before and after a
multiple of 8 and of 64, the messages fill the buffer exactly, one more, and cross its
end inside each kind of conversion.

**Conditions in the properties.** Where the code gives a promise only as long as
nothing goes wrong, the model keeps a history variable that records that something
has (`late`, `failed`, `trouble`) and the property says `~late`, and so on. The
failing behaviours are in the same state space: what the code still promises in
them (types, confinement, termination, what a 0 or a -1 means) carries no such
condition.

**Fairness.** Weak fairness of each hart (`HartZero`, `HartOne`) or of the driver:
the code does not block, and a polling loop is a sequence of enabled steps. Weak
fairness of a store buffer: stores drain. A block follows its reset and a character is
sent: the macros and `_putc` have no timeout, so the code itself counts on it. The QSPI
controller is fair only in `read`, under `~MayStall`; `command` and `write` assume nothing
of it, and `flash` nothing of the chip. Nothing obliges an image to return or a caller to
call.

**Deadlock** is not checked where the model ends on purpose: no more calls than the
bound, or both harts in the image.

### What the violations show

1. `boot_reordered`. `writel` is a plain volatile store and hart 0 executes no fence
   between the stores of the image and the one that releases hart 1 (`bootmain.c:92-115`).
   RVWMO lets the second become visible first: hart 1 executes the image while pages of it
   are still in hart 0's store buffer. What the code does ensure is `EntersLoadedImage`: by
   then every page is in memory or on its way.
2. `boot_lost_ipi`. `start.S:80` clears `msip` when hart 1 arrives from the ROM,
   and hart 0 sends the releasing interrupt (`bootmain.c:115`) without knowing
   whether it has. If the whole load is quicker than hart 1's way to its first
   clear, the clear erases the release and hart 1 stays in `wfi`. The load makes
   this unlikely; nothing in the code excludes it.
3. `load_overflow`. `(fileSize + 255) >> 8` overflows for the 255 largest sizes. An
   erased header is one of them: `load_data` returns 0 with 252 bytes in place, and
   hart 0 jumps there.
4. `command_idle`. `cadence_qspi_wait_idle` returns 1 after its last busy poll too.
5. `read_dead`. After a timeout `retry` is `UINT_MAX`, `if (!retry)` does not see it
   and `qspi_read_sram_fifo_poll` polls for ever.

### Other divergences met while modelling

These are in the models too; the conditional properties above leave room for them
and name the condition.

* A failed probe returns NULL, which `load_data` dereferences (`bootmain.c:67`;
  `DereferenceNull` in `SecondBoot`).
* There is no fence before the first interrupt either (`bootmain.c:190`): without one the
  boot ROM may be woken before the mailbox is written, and hart 1 leaves for wherever it
  points (`pc1 = "wild"`, reachable in `boot`). No comment says otherwise, so no run is
  about it; section 4 says what a fence would give.
* `load_data` reads one page more than a file spans when its size modulo 256 is 1 to 252,
  and just as many when it is 0 or 253 to 255: the size word is counted as a page of its
  own (`bootmain.c:82-90`). A file that fills its region makes it read past it.
* The timeout test of a command is inverted (`cadence_qspi_apb.c:623-633`): a command that
  ends on the very last poll leaves `retry` at 0 and is reported as "flash command execution
  timeout", while a real timeout leaves it at `UINT_MAX` and is taken for success
  (`TestFails`, `TestPasses`). No property blesses it: `CallsSucceed` is about a controller
  that is not late.
* A full write FIFO is pushed into once the wait for room has run out (`:322`).
* DONE is looked at once after a read (`:833`): a read may fail with all its data in
  place, and its late DONE makes the next read succeed early. The data is right all
  the same (`Delivered`). The write path has the same leftover after a `CANCEL`.
* A failed unprotect is ignored before an erase (`spi_flash.c:312`), the result of a
  mode-4 program is overwritten (`:447`), a program in mode 2 sends nothing (`:419`),
  and the wait for the latch returns 0 when it times out (`:186`).
* Three bytes of an address reach the chip (`spi_flash.c:32`), and the table has a
  32 MiB chip (`spi_probe.c:158`): an erase above 16 MiB erases the byte 16 MiB below.
  The constants of `SpiFlash` tell the two sizes apart (`Size`, `AddrMod`); `Confined` is
  proved for `Size <= AddrMod`, and `flash` runs there. The boot program only reads, and
  below.
* Two entries of the table have the ID `0x1960C8` (`spi_probe.c:158`): the second is never
  found, and a 16 MiB GD25LQ128 is taken for 32 MiB.
* An ID that is not in the table, or that was not read, takes the scan past the end of
  the table (`spi_probe.c:179`; `Beyond`), where `spi_flash.h:67` promises
  NULL. Both results of the ID's transfers are ignored (`:235`; `MissId`).
* `~(1 << (1 | 2))` clears bit 3, not the two clock mode bits (`cadence_qspi_apb.c:495`);
  only mode 0 is ever asked for.
* `BootMain` takes four blocks out of reset whose clock gates it never opens
  (`usbnoc`, `hifi4noc`, `dspx2c`, `dma1p`; `bootmain.c:163-170`, gates at
  `common/clkgen_ctrl_macro.h:1971`, `2070`, `2122`, `2205`): `ReleasedWithClock` is about
  the two whose gates it opens, and nothing is claimed of these four.
* `printk` counts what it does not store: with `%c` past the end the argument is not taken
  (`uart.c:322`), so a conversion after it would print the wrong one, past the end too.
* A calibration that fails leaves the cache at the one before while the controller
  has changed (`cadence_qspi.c:185`); a window that is the last delay alone is
  missed (`:97`); when no delay works, 0 is returned (`:110`).

## 4. The proofs

All with TLAPS, for every value of the constants that the named assumptions admit.

| Module | Theorems | Assumes |
|---|---|---|
| `SecondBootProofs` | `RunsLoadData` (LoadSpec), `TypeCorrect`, `HeldUntilGo` (HartOneHeld), `LoadedFirst` (EntersLoadedImage), `Refinement` (BootGate) | nothing: any sizes, any order of stores |
| `LoadDataProofs` | `LoadTypeCorrect`, `OverrunIsBounded`, `CopiesInPlace` | nothing |
| | `WholeFile` (LoadedIsFile), `LoadRefinement` (ImageLoad) | `SizesFit`: no size overflows the alignment |
| `QspiCommandProofs` | `TypeCorrect` | nothing |
| | `AnswerIsFresh`, `NoFalseFailure`, `IdleWhenDone`, `OneAtATime` | `Prompt`: `Latency + 2 <= Retry` |
| `QspiReadProofs` | `TypeCorrect`, `DeliversAll` (Delivered), `StaysInBuffer` (InOrder), `NeverUnderflows`, `RestsBetweenReads` (IdleAtStart) | nothing |
| `QspiWriteProofs` | `TypeCorrect`, `WholeBuffer` (SentAll), `RestsBetweenWrites` (RestAtStart), `FifoHolds` (NoOverflow), `NoFalseFailure` (WritesSucceed) | the module's own: a page above the threshold fits the FIFO, and `Retry > FifoWords * Latency + 1` (`PaceAssumption`) |
| `SpiFlashProofs` | `TypeCorrect`, `Protects` (LeftProtected) | nothing |
| | `NothingElse` (Confined) | `Size <= AddrMod` |
| | `ErasesAll` (EraseDone), `ProgramsAll` (ProgramDone), `ReadsAnswered` | `Fits`: the same; `Modes`: programs in mode 1 or 4 |
| `FlashProbeProofs` | `TypeCorrect`, `OneCommand`, `FreshReads`, `CachedReads`, `RightFlash` (FlashIsTheSlaves) | nothing |
| `BringUpProofs` | of `RegSpec`: `TypeCorrect`, `Refinement` (FieldStore), `PulseIsFull` (FullPulse); of `Spec`: `BoardRefines` (FieldStore) | `ControlRegs`' own: fields of a word are disjoint |
| | `MemoryReady` (RamReady) | `SectionsAssumption` |
| | `LineIsSet` (LineSet), `MessageSent` (SentIsMessage) | `MessagesAssumption`, `CharactersAssumption`: what a message is |
| | `ClockBeforeRelease` (ReleasedWithClock) | `OpensClocks(p)` for every program `p` |
| | `BootMainOpens`: `OpensClocks(BootMain)` | nothing |

**SecondBoot.** Every step of the whole is a step of `LoadData` or leaves its variables
alone (`RunsLoadData`), so `LoadData`'s invariant is one of the boot. None of the
properties is inductive: they speak of memory, and memory
changes when a buffer drains. `BufferInv` says that the buffer holds only stores that
were issued and that an issued store is in the buffer or in memory; `OrderInv` that a
store still in the buffer holds back those the machine keeps behind it; `PhaseInv` ties
hart 0's place to `load_data`'s; `InterruptInv` says which interrupt a set `msip` is, by
where hart 1 is. All this is an invariant whatever `KeptOrder` is, for a store is never
issued after one numbered higher (`StoreKeepsOrder`), and so are the listed theorems. Two
lemmas say what the missing fences would give: `FenceForImage` that `EntersWholeImage`
holds if the pages are visible before the release, `FenceForMailbox` that hart 1 is never
sent elsewhere if the mailbox word is visible before the wake-up. The code assures
neither premise, so they are not among the results.

**LoadData.** `Placed` (all memory written comes from its place in the flash) and
`InStep` (what has been written is one interval, as long as what was read) are
inductive together with `addr + 4 = i * PageSize`, for every size word: an alignment
that overflows gives fewer pages (`FewPages`), so it loses the end of the file and
writes nothing that it should not. Only that the pages are enough (`EnoughPages`) needs
`SizesFit`. The products of two variables are kept behind `Pages` so that
each leaf is linear.

**QspiCommand.** `AlwaysInv` needs nothing of the controller. `PromptInv`, which holds
until it is late, counts: when polling the driver has two polls more than the controller
may still use, so each loop is ended by the controller, never by its counter, and
the wrap of `retry` is out of reach.

**QspiRead.** `AgreeInv` ties bytes stored to words popped (`Stored = 4 * popped` as long
as something is wanted) and words popped to words pushed; `DestInv` makes the buffer
a prefix of the read. `RestInv` says that a set DONE means a whole read in the FIFO, so
that nothing is left in it when DONE is cleared.

**QspiWrite.** `Handed` accounts for every byte: pushed, in the chunk, or not handed out.
`InFifo` says that the words in the FIFO are those of the buffer if none was lost, and
`Settled` that only a failed write leaves something behind. `InTime` holds until the
controller is late: it compares what is left of `retry` with the polls that the
controller may still use for all the words in the FIFO, which is where `PaceAssumption`
enters, and says that the rest of a chunk fits. It is nonlinear; `PollsAdd` and
`PollsGrow` keep the products apart from the steps.

**SpiFlash.** `Kinds` ties the driver's place to the kind of call, `Aligned` keeps the
position on a unit, `Permitted` says that what the chip is about to change was asked
for, and `Closed` that a finished unit or chunk leaves the chip idle and its latch
clear. For what was asked, `Ready` says that without trouble the chip is idle and its
latch as the place requires, and `Progress` that everything before the position is done
and nothing after it touched, or that the chip is at the work that makes it so. The effect
of a unit and of a chunk is a lemma of its own (`ErasesEffect`, `ProgramsEffect`), and
so is the arithmetic of units (`WholeUnits`, `NextUnit`, `Remainder`).

**FlashProbe.** `TInv` bounds the scan; `CInv` says what is in the command buffer by the
transfers still to come, so that a leftover is never issued. `RunInv` is the scan's
invariant (what was tried from `rangeLo` on works, what was before does not),
`TuneInv` ties the cache to the controller's settings unless a calibration has failed
since the last that ended, and
`FInv` carries the ID of the chip from its reading to the entry.

**BringUp.** The proofs are in four parts: one per component, and the three together. A
step of the whole is a step of one component and leaves the others alone (`PartsNext`), so
that an invariant of a component is one of the whole.

*ControlRegs.* Nothing but disjointness is needed of the layout: `ModifiedReads` and
`ModifiedKeeps` are the two halves of a field's independence, `MacroInv` says that the
word in the cache differs from the register at most in bits the hardware drives, which a
store does not reach. `Settled` (every block is where its reset says but the one
waited for) gives the pulse.

*Startup.* `RegistersInv` keeps the two pointers 8 bytes at a time between the linker's
symbols; `MemoryInv` says that every byte is copied, cleared or as it was, up to
`CopiedTo` and `ClearedTo`. The load address is below all that is written because the data
fit the region (`Symbols`), and the copy's last 8 bytes may run past `_edata` but not past
`_bss_start` (`Apart8`): both facts are needed for the copy to read what was linked.

*Console.* `LineInv` says which registers `uart_init` has set by its next write, and when
DLAB is set. `FormatInv` ties the formatter to the message: either it is in step, with
`pos` where the item begins in what is meant and the argument list at the item or at
literals before it, or the buffer is full and so is what is meant (`BufferFull`). The
second case is not an artefact: `%c` past the end takes no argument, and from there on the
formatter prints the wrong arguments where nobody sees them. In both the buffer agrees
with what is meant as far as `pos`. `SendInv` then says that what was sent is the message up
to `ch`, and that the NUL is where the cut message ends.

*Clocks.* `ReleasedWithClock` follows from `Settled` (only the block that a macro waits for
can leave its reset) and `ClocksInv`: in the calls still to be made no reset of a gated
block is cleared but after a call that opens its gate, or with the gate open by now. It is
an invariant of every program that starts so (`OpensClocks`); that `BootMain` does is a
computation on its 23 calls, for which the names of the resets must be told apart
(`ResetsApart`).

TLC evaluates the assumptions on the layouts, the sections and the messages:
`DisjointAssumption` and `ShapesAssumption` are checked of all the words of the four
headers by `bringup`, so that the theorems apply to them.

Only model-checked: the six liveness properties, which are outside what the prover can
do. Every safety property that a passing run checks is a theorem.

## 5. What is not modelled, and why

* The instruction fetch after the load (there is no `fence.i` before either jump):
  the models look at memory.
* The stacks: `bootloader.lds:116` leaves room for one of 4 KiB, and hart 1's begins
  4 KiB lower. Hart 1 pushes nothing in `start.S`. The image itself is external.
* The dispatch of `spi.c` (`spi_register`, `spi_unregister`, the range check of the bus in
  all four functions): assumed. There is one controller (`SPI_CONTROLLER_NUM`), which
  `cadence_qspi_init` registers as bus 0 before the only probe, for bus 0, and which nobody
  unregisters.
* The register encodings of the QSPI controller: opcodes, dummy bytes, dividers,
  capture bits, delays in nanoseconds. Nothing reads them back; `SpiSetup` has the
  effect of those that matter to a property.
* Code without callers: `udelay`, `do_div`, `serial_gets` and the other input functions,
  `print_ubyte_hex`, `rlSendString`, the two poll variants and `spi_flash_cmd_read_fast` of
  `spi_flash.c`. `vic_module_reset_clkgen.h` is used only under `#if 0`.
* Trap handler: interrupts are off, only a fault reaches it, and it returns by `ret` into
  whatever called nothing. Memory helpers: assignments where they are called. Build: runs
  on the host; `LoadData` takes the file's format from what `load_data` reads.
  `encoding.h`: CSR numbers.

## 6. Plan

The modules were written from the hand-off, which is what the program is for, through
the load and the layers below it, to the board set-up before it. What is left:

1. The composition of `FlashProbe` with `QspiCommand`, `QspiRead` and `QspiWrite`: a
   transfer is one step here, and each of the three has its own driver and controller; an
   abstract controller that the three implement would join them.
2. `SecondBoot` over `FlashProbe`'s result instead of a choice (`ProbeFlash`).
3. The baud divider and the delays in nanoseconds, as operators checked against what they
   promise (never faster than asked).
