----------------------------- MODULE SecondBoot -----------------------------
(***************************************************************************)
(* The hand-off between the two harts of the JH7100 (boot/start.S,         *)
(* boot/bootmain.c).  Hart 0 runs BootMain: it plants the entry point of   *)
(* this program in the boot ROM's mailbox, wakes hart 1 out of the ROM     *)
(* with a first software interrupt, loads the DDR-init image from the SPI  *)
(* flash with load_data (the steps of LoadData are taken over), sends a    *)
(* second software interrupt and calls the image.  Hart 1 enters at        *)
(* _start, clears the interrupt that woke it, parks in a wfi loop and      *)
(* jumps to the image on the next interrupt.                               *)
(*                                                                         *)
(* The shared state is memory: the mailbox word, hart 1's msip register in *)
(* the CLINT and the image.  writel/readl (common/comdef.h) are plain      *)
(* volatile accesses and hart 0 executes no fence, so a store sits in its  *)
(* hart's store buffer until it drains.  LoadData's mem is the memory as   *)
(* hart 0 sees it; image is what the other hart can see of it.  Hart 0's   *)
(* stores are numbered in program order, and its buffer is the set of      *)
(* those not yet visible.  RVWMO keeps the order of two of them only if    *)
(* they are to one location (KeptOrder = {}); KeptOrder says which others  *)
(* the machine at hand keeps.                                              *)
(***************************************************************************)
EXTENDS LoadData

CONSTANTS
    KeptOrder   \* the pairs of hart 0's stores that become visible in order

VARIABLES
    pc0,      \* where hart 0 is in BootMain and the functions it calls
    pc1,      \* where hart 1 is in the boot ROM or in start.S
    pend0,    \* hart 0's stores that are not visible to others yet
    pend1,    \* hart 1's store of 0 to its msip is not in memory yet
    mailbox,  \* 0x1801fffc holds the address of _start
    msip,     \* hart 1's msip at 0x2000004: "none", or the store that set it
    image,    \* the flash pages whose data is visible at 0x18080000
    flash     \* what spi_flash_probe returned

hart0 == <<pc0, flash, loadVars>>
memory == <<mailbox, msip, image>>
vars == <<pc0, pc1, pend0, pend1, mailbox, msip, image, flash, loadVars>>

-----------------------------------------------------------------------------
(* Hart 0's stores, numbered in program order.                             *)

MaxPages == WordMod - 1             \* no endPage of load_data is larger

MailboxStore == 0                   \* writel(0x18000000, 0x1801fffc)
WakeStore == 1                      \* BootMain's writel(1, 0x2000004)
PageStore(p) == 2 + p               \* the stores of page p's data
GoStore == 2 + MaxPages + 1         \* load_and_run_ddr's writel(1, 0x2000004)

Stores == 0 .. GoStore
SameLocation(s, t) == {s, t} = {WakeStore, GoStore}

ASSUME KeptOrderAssumption == KeptOrder \subseteq Stores \X Stores

\* The strongest machine: all of hart 0's stores become visible in order.
ProgramOrder == {o \in Stores \X Stores : o[1] < o[2]}

TypeOK ==
    /\ pc0 \in {"mailbox", "wake", "probe", "load", "go", "run",
                "image", "returned", "failed", "undefined"}
    /\ pc1 \in {"rom", "clear", "fence", "wfi", "check", "clear2", "fence2",
                "image", "wild"}
    /\ pend0 \subseteq Stores
    /\ pend1 \in BOOLEAN
    /\ mailbox \in BOOLEAN
    /\ msip \in {"none", "wake", "go"}
    /\ image \subseteq 0 .. MaxPages
    /\ flash \in {"unknown", "found", "null"}

Init ==
    /\ pc0 = "mailbox" /\ pc1 = "rom"
    /\ pend0 = {} /\ pend1 = FALSE
    /\ mailbox = FALSE /\ msip = "none" /\ image = {}
    /\ flash = "unknown"
    /\ LoadInit

-----------------------------------------------------------------------------
(* Hart 0.  A definition with an underscore in its name is a mutated form  *)
(* of the one that follows it: what a bug would make of it.                *)

Store(s) == pend0' = pend0 \union {s}

GoTo0(from, to) == pc0 = from /\ pc0' = to

WriteMailbox ==
    /\ GoTo0("mailbox", "wake")
    /\ Store(MailboxStore)
    /\ UNCHANGED <<pc1, pend1, memory, flash, loadVars>>

WakeHartOne ==
    /\ GoTo0("wake", "probe")
    /\ Store(WakeStore)
    /\ UNCHANGED <<pc1, pend1, memory, flash, loadVars>>

\* spi_flash_probe returns a flash or NULL; the caller does not look.
ProbeFlash ==
    /\ GoTo0("probe", "load")
    /\ flash' \in {"found", "null"}
    /\ UNCHANGED <<pc1, pend0, pend1, memory, loadVars>>

\* load_data reads spi_flash->page_size first: undefined if the probe failed.
DereferenceNull ==
    /\ flash = "null"
    /\ GoTo0("load", "undefined")
    /\ UNCHANGED <<pc1, pend0, pend1, memory, flash, loadVars>>

\* load_data: the steps that make a whole page's stores, and the others.  A
\* page of which the driver stored only a part is not followed any further.
LoadStep ==
    /\ pc0 = "load" /\ flash = "found"
    /\ \/ ReadHeader /\ Store(PageStore(0))
       \/ ReadPage /\ Store(PageStore(i))
       \/ /\ HeaderFails \/ EmptyFile \/ PageFails \/ Done
          /\ UNCHANGED pend0
    /\ UNCHANGED <<pc0, pc1, pend1, memory, flash>>

LoadReturns_Unchecked ==
    /\ pc \in {"ok", "failed"}
    /\ GoTo0("load", "go")
    /\ UNCHANGED <<pc1, pend0, pend1, memory, flash, loadVars>>

\* load_and_run_ddr goes on only if load_data returned 0.
LoadReturns ==
    /\ pc \in {"ok", "failed"}
    /\ GoTo0("load", IF pc = "ok" THEN "go" ELSE "failed")
    /\ UNCHANGED <<pc1, pend0, pend1, memory, flash, loadVars>>

SendGo ==
    /\ GoTo0("go", "run")
    /\ Store(GoStore)
    /\ UNCHANGED <<pc1, pend1, memory, flash, loadVars>>

RunImage ==
    /\ GoTo0("run", "image")
    /\ UNCHANGED <<pc1, pend0, pend1, memory, flash, loadVars>>

\* start2run32 is a call: an image that returns ends in while(1).
ImageReturns ==
    /\ GoTo0("image", "returned")
    /\ UNCHANGED <<pc1, pend0, pend1, memory, flash, loadVars>>

HartZero ==
    \/ WriteMailbox \/ WakeHartOne \/ ProbeFlash
    \/ DereferenceNull \/ LoadStep \/ LoadReturns \/ SendGo \/ RunImage

-----------------------------------------------------------------------------
(* Hart 1.                                                                 *)

\* The boot ROM: on a software interrupt it jumps where the mailbox says.
\* It may or may not have cleared the interrupt by then.
RomWake ==
    /\ pc1 = "rom"
    /\ msip # "none"
    /\ msip' \in {msip, "none"}
    /\ pc1' = IF mailbox THEN "clear" ELSE "wild"
    /\ UNCHANGED <<hart0, pend0, pend1, mailbox, image>>

GoTo1(from, to) == pc1 = from /\ pc1' = to

ClearFirst_Forgotten ==
    GoTo1("clear", "fence") /\ UNCHANGED <<hart0, pend0, pend1, memory>>

ClearFirst ==
    /\ GoTo1("clear", "fence")
    /\ pend1' = TRUE
    /\ UNCHANGED <<hart0, pend0, memory>>

\* fence: hart 1 goes on when its own store has reached the CLINT.
FenceFirst ==
    /\ GoTo1("fence", "wfi")
    /\ ~pend1
    /\ UNCHANGED <<hart0, pend0, pend1, memory>>

\* wfi may resume at any time, which is why the code looks at mip after it.
Wfi ==
    /\ GoTo1("wfi", "check")
    /\ UNCHANGED <<hart0, pend0, pend1, memory>>

CheckMip ==
    /\ GoTo1("check", IF msip = "none" THEN "wfi" ELSE "clear2")
    /\ UNCHANGED <<hart0, pend0, pend1, memory>>

ClearSecond ==
    /\ GoTo1("clear2", "fence2")
    /\ pend1' = TRUE
    /\ UNCHANGED <<hart0, pend0, memory>>

FenceSecond_ParksAgain ==
    GoTo1("fence2", "wfi") /\ ~pend1 /\ UNCHANGED <<hart0, pend0, pend1,
                                                    memory>>

\* bltu a0, NUM_CORES always branches: hart 1 is the last of two.
FenceSecond ==
    /\ GoTo1("fence2", "image")
    /\ ~pend1
    /\ UNCHANGED <<hart0, pend0, pend1, memory>>

HartOne == ClearFirst \/ FenceFirst \/ Wfi \/ CheckMip \/ ClearSecond \/ FenceSecond

-----------------------------------------------------------------------------
(* The store buffers.                                                      *)

\* s may not leave hart 0's buffer before an earlier store to its location,
\* nor before one that the machine keeps before it.
Kept(t, s) == t < s /\ (SameLocation(t, s) \/ <<t, s>> \in KeptOrder)

MayDrain(s) == \A t \in pend0 : ~Kept(t, s)

DrainHartZero ==
    \E s \in pend0 :
        /\ MayDrain(s)
        /\ pend0' = pend0 \ {s}
        /\ mailbox' = (mailbox \/ s = MailboxStore)
        /\ msip' = IF s = WakeStore THEN "wake"
                    ELSE IF s = GoStore THEN "go" ELSE msip
        /\ image' = image \union {p \in 0 .. MaxPages : PageStore(p) = s}
        /\ UNCHANGED <<hart0, pc1, pend1>>

DrainHartOne ==
    /\ pend1
    /\ pend1' = FALSE
    /\ msip' = "none"
    /\ UNCHANGED <<hart0, pc1, pend0, mailbox, image>>

-----------------------------------------------------------------------------
Next ==
    \/ HartZero \/ ImageReturns
    \/ RomWake \/ HartOne
    \/ DrainHartZero \/ DrainHartOne

\* Each hart runs on its own, and a store buffer does not keep a store
\* forever.  Nothing obliges the image to return.
Fairness ==
    /\ WF_vars(HartZero)
    /\ WF_vars(RomWake) /\ WF_vars(HartOne)
    /\ WF_vars(DrainHartZero) /\ WF_vars(DrainHartOne)

SafeSpec == Init /\ [][Next]_vars
Spec == SafeSpec /\ Fairness

-----------------------------------------------------------------------------
(* Properties.                                                             *)

\* Hart 1 executes the image only when every page load_data counted is in
\* memory, and hart 0 only when every such page is in memory or in its own
\* store buffer: what start.S:90 means by "safe to boot".
EntersWholeImage ==
    \A p \in 0 .. endPage :
        /\ pc1 = "image" => p \in image
        /\ pc0 = "image" => p \in image \/ PageStore(p) \in pend0

\* What the code ensures of it with no fence before bootmain.c:115: whichever
\* hart is in the image, load_data has returned 0, and what hart 1 may miss
\* of the image is on its way, in hart 0's store buffer, and nowhere else.
EntersLoadedImage ==
    "image" \in {pc0, pc1} =>
        /\ pc = "ok"
        /\ \A p \in 0 .. endPage : p \in image \/ PageStore(p) \in pend0

\* The interrupt that takes hart 1 out of the boot ROM never passes for the
\* one that releases it: hart 1 leaves its wfi loop only after hart 0 has
\* loaded the image and sent the second interrupt (start.S:75-107).
HartOneHeld ==
    pc1 \in {"clear2", "fence2", "image"} => pc0 \in {"run", "image", "returned"}

\* The harts implement the gate: see BootGate.  The release takes effect
\* when hart 0's second interrupt reaches the CLINT.
Released == pc0 \in {"run", "image", "returned"} /\ GoStore \notin pend0

gateStage == IF pc = "failed" \/ pc0 = "undefined" THEN "failed"
             ELSE IF Released THEN "released"
             ELSE IF pc = "ok" THEN "loaded" ELSE "loading"

gateInside == {h \in {0, 1} : <<h, "image">> \in {<<0, pc0>>, <<1, pc1>>}}

Gate == INSTANCE BootGate WITH stage <- gateStage, inside <- gateInside

\* Every step of the two harts is a step of the gate or leaves it alone: hart
\* 0 enters only what load_data has returned 0 for, hart 1 only after hart 0's
\* second interrupt has been delivered, and after a failed load or probe
\* neither ever enters (bootmain.c:111-121, start.S:89-113).
ImplementsGate == Gate!Spec

\* A hart 1 that is parked when hart 0 is about to send the second interrupt
\* does get out of its loop and into the image (start.S:89-113).
ParkedHartFollows ==
    (pc0 = "go" /\ pc1 \in {"wfi", "check"}) ~> (pc1 = "image")

\* Once hart 0 runs the image, hart 1 follows it there: "Wait for an IPI to
\* signal that its safe to boot" (start.S:90) ends with the IPI.
HartOneFollows == (pc0 = "image") ~> (pc1 = "image")
=============================================================================
