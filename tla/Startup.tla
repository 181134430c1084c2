------------------------------ MODULE Startup -------------------------------
(***************************************************************************)
(* What hart 0 does from _start to the call of BootMain (boot/start.S): it *)
(* copies the initialised data from where the boot ROM loaded the program  *)
(* to where the program was linked, and clears .bss, both in steps of 8    *)
(* bytes, between the symbols that build/bootloader.lds places.  Sections  *)
(* start on multiples of 64 and the end of the data need not be a multiple *)
(* of 8.                                                                   *)
(*                                                                         *)
(* Memory is a function from addresses to bytes: k > 0 is byte k of the    *)
(* program's data as linked, 0 a zero, and Junk what was there before.     *)
(***************************************************************************)
EXTENDS Integers

CONSTANTS
    RomLength,     \* the length of the region rom; the region ram follows it
    SectionSizes   \* the sizes [data, sdata, bss] that the program may have

Junk == -1
Align(a, n) == ((a + n - 1) \div n) * n

\* Regions and sections start on multiples of 64, and what is linked at the
\* start of ram fits where it is loaded, in rom (the linker sees to that).
ASSUME SectionsAssumption ==
    /\ RomLength \in Nat /\ RomLength % 64 = 0
    /\ SectionSizes \subseteq [data : Nat, sdata : Nat, bss : Nat]
    /\ \A s \in SectionSizes :
           Align(RomLength + s.data, 64) + s.sdata <= 2 * RomLength

VARIABLES
    sizes,   \* the sizes of the program's sections
    mem,     \* memory, from the load address of the data up
    t0, t1,  \* the registers of the two loops
    crt      \* where start.S is

startVars == <<sizes, mem, t0, t1, crt>>

\* The symbols of the linker script; the load address of the data is 0.
DataLma == 0
Data == RomLength
Sdata == Align(Data + sizes.data, 64)
Edata == Sdata + sizes.sdata
BssStart_Down == Edata - (Edata % 8)
BssStart == Align(Edata, 8)
Bss == Align(Edata, 64)
BssEnd == Align(Bss + sizes.bss, 8)

\* The region rom holds the program as loaded, its data at the end.
Image == 0 .. Edata - Data - 1
Initialised == Data .. Edata - 1
Untouched == DOMAIN mem \ (Data .. BssEnd - 1)

StartInit ==
    /\ sizes \in SectionSizes
    /\ mem = [a \in 0 .. BssEnd + 7 |-> IF a \in Image THEN a + 1 ELSE Junk]
    /\ t0 = DataLma /\ t1 = Data
    /\ crt = "copy?"

\* An ld or sd at a of 8 bytes.
Dword(a) == a .. a + 7

\* beq t0, t1, 2f; bgeu t1, t2, 2f
EnterCopy ==
    /\ crt = "copy?"
    /\ crt' = IF t0 = t1 \/ t1 >= Edata THEN "clear?" ELSE "copy"
    /\ UNCHANGED <<sizes, mem, t0, t1>>

\* ld t3, 0(t0); sd t3, 0(t1); ... bltu t1, t2, 1b
CopyDword ==
    /\ crt = "copy"
    /\ mem' = [a \in DOMAIN mem |->
                  IF a \in Dword(t1) THEN mem[t0 + (a - t1)] ELSE mem[a]]
    /\ t0' = t0 + 8 /\ t1' = t1 + 8
    /\ crt' = IF t1' < Edata THEN "copy" ELSE "clear?"
    /\ UNCHANGED sizes

\* la t1, _bss_start; bgeu t1, t2, 4f
EnterClear ==
    /\ crt = "clear?"
    /\ t1' = BssStart
    /\ crt' = IF t1' >= BssEnd THEN "main" ELSE "clear"
    /\ UNCHANGED <<sizes, mem, t0>>

\* sd x0, 0(t1); ... blt t1, t2, 3b
ClearDword ==
    /\ crt = "clear"
    /\ mem' = [a \in DOMAIN mem |-> IF a \in Dword(t1) THEN 0 ELSE mem[a]]
    /\ t1' = t1 + 8
    /\ crt' = IF t1' < BssEnd THEN "clear" ELSE "main"
    /\ UNCHANGED <<sizes, t0>>

StartNext == EnterCopy \/ CopyDword \/ EnterClear \/ ClearDword

(* When BootMain is called every initialised byte has its value although   *)
(* the last copy may run past the data, every byte of .bss is zero, and    *)
(* nothing outside the two, stacks and loaded program included, has been   *)
(* written.                                                                *)
RamReady ==
    crt = "main" =>
        /\ \A a \in Initialised : mem[a] = (a - Data) + 1
        /\ \A a \in Bss .. BssEnd - 1 : mem[a] = 0
        /\ \A a \in Untouched : mem[a] = IF a \in Image THEN a + 1 ELSE Junk
=============================================================================
