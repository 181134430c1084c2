------------------------------ MODULE LoadData ------------------------------
(***************************************************************************)
(* load_data (boot/bootmain.c): copies a file from the SPI flash to memory *)
(* one page at a time.  The first four bytes of the file's first page are  *)
(* its size; the file follows them.  One read of the flash is one step;    *)
(* the driver below it is the subject of other modules.                    *)
(*                                                                         *)
(* A byte is abstracted to where it came from: mem[k] is the flash address *)
(* of the byte now at des_addr + k, so that "the file is in place" says    *)
(* that mem[k] is the flash address of the file's k-th byte.               *)
(*                                                                         *)
(* PageSize is 256 in the program, which also writes it as the constants   *)
(* 255, 8 and 252; WordMod is 2^32.  Both are parameters so that TLC can   *)
(* look at every value of a narrow size word.                              *)
(*                                                                         *)
(* A definition with an underscore in its name is a mutated form of the    *)
(* one that follows it.                                                    *)
(***************************************************************************)
EXTENDS Naturals

CONSTANTS
    PageSize,   \* bytes of a flash page
    WordMod,    \* u32 arithmetic is modulo this
    PageOffset, \* page_offset: the page the file starts at
    Sizes       \* what the size word may hold

ASSUME PageSizeAssumption == PageSize \in Nat /\ PageSize > 4
ASSUME WordModAssumption == WordMod \in Nat /\ WordMod > 0
ASSUME PageOffsetAssumption == PageOffset \in Nat
ASSUME SizesAssumption == Sizes \subseteq Nat

VARIABLES
    pc,         \* "header", "page", or the value returned: "ok", "failed"
    fileSize,
    endPage,
    i,          \* the loop counter: pages read so far
    offset,     \* where in the flash the next read starts
    addr,       \* where in memory the next read goes, less des_addr
    mem         \* the memory written so far, by flash address

loadVars == <<pc, fileSize, endPage, i, offset, addr, mem>>

Base == PageOffset * PageSize
SizeBytes == 4                      \* the size word

\* n bytes from flash address src on, stored at a.
Put(m, a, n, src) ==
    [k \in DOMAIN m \union a .. a + n - 1 |->
        IF k \in a .. a + n - 1 THEN src + (k - a) ELSE m[k]]

LoadTypeOK ==
    /\ pc \in {"header", "page", "ok", "failed"}
    /\ fileSize \in Sizes \union {0}
    /\ endPage \in 0 .. WordMod - 1
    /\ i \in 0 .. endPage + 1
    /\ offset \in Nat /\ addr \in Nat
    /\ DOMAIN mem \subseteq Nat

LoadInit ==
    /\ pc = "header"
    /\ fileSize = 0 /\ endPage = 0 /\ i = 0
    /\ offset = Base /\ addr = 0
    /\ mem = [k \in {} |-> 0]

-----------------------------------------------------------------------------
\* The first read goes to a buffer on the stack; if it fails, nothing is
\* stored.
HeaderFails ==
    /\ pc = "header"
    /\ pc' = "failed"
    /\ UNCHANGED <<fileSize, endPage, i, offset, addr, mem>>

EmptyFile ==
    /\ pc = "header"
    /\ 0 \in Sizes
    /\ pc' = "failed"
    /\ UNCHANGED <<fileSize, endPage, i, offset, addr, mem>>

PageAlign_Down(n) == n \div PageSize

\* (fileSize + 255) >> 8, in u32.
PageAlign(n) == ((n + (PageSize - 1)) % WordMod) \div PageSize

\* What follows the size word in the first page is copied from the buffer.
ReadHeader ==
    /\ pc = "header"
    /\ fileSize' \in Sizes \ {0}
    /\ endPage' = PageAlign(fileSize')
    /\ mem' = Put(mem, addr, PageSize - SizeBytes, offset + SizeBytes)
    /\ offset' = offset + PageSize
    /\ addr' = addr + (PageSize - SizeBytes)
    /\ i' = 1
    /\ pc' = "page"

MorePages_TooMany == i <= endPage + 1

MorePages == i <= endPage

ReadPage ==
    /\ pc = "page"
    /\ MorePages
    /\ mem' = Put(mem, addr, PageSize, offset)
    /\ offset' = offset + PageSize
    /\ addr' = addr + PageSize
    /\ i' = i + 1
    /\ UNCHANGED <<pc, fileSize, endPage>>

PageFails_Ignored ==
    /\ pc = "page"
    /\ MorePages
    /\ offset' = offset + PageSize
    /\ addr' = addr + PageSize
    /\ i' = i + 1
    /\ UNCHANGED <<pc, fileSize, endPage, mem>>

\* The driver may have stored a part of the page before it failed.
PageFails ==
    /\ pc = "page"
    /\ MorePages
    /\ \E n \in 0 .. PageSize - 1 : mem' = Put(mem, addr, n, offset)
    /\ pc' = "failed"
    /\ UNCHANGED <<fileSize, endPage, i, offset, addr>>

Done ==
    /\ pc = "page"
    /\ ~MorePages
    /\ pc' = "ok"
    /\ UNCHANGED <<fileSize, endPage, i, offset, addr, mem>>

\* The caller goes on: SecondBoot takes load_data's steps into its own.
Returned == pc \in {"ok", "failed"} /\ UNCHANGED loadVars

LoadNext ==
    \/ HeaderFails \/ EmptyFile \/ ReadHeader
    \/ ReadPage \/ PageFails \/ Done \/ Returned

LoadSpec == LoadInit /\ [][LoadNext]_loadVars

-----------------------------------------------------------------------------
(* Properties.                                                             *)

\* When load_data returns 0 every byte of the file is in its place: the 252
\* bytes of the first page and the whole pages that follow join without a
\* gap or an overlap, and the last page is not missed (bootmain.c:82-100,
\* "read Remaining pages data").
LoadedIsFile ==
    pc = "ok" => \A k \in 0 .. fileSize - 1 :
                    k \in DOMAIN mem /\ mem[k] = Base + SizeBytes + k

\* Whole pages are stored, so memory past the file is written too: what may
\* lie there is bounded.  Less than two pages after the last byte.
BoundedOverrun ==
    \A k \in DOMAIN mem : k + SizeBytes < fileSize + 2 * PageSize

\* load_data implements ImageLoad.
Load == INSTANCE ImageLoad WITH
            status <- IF pc = "header" THEN "start"
                      ELSE IF pc = "page" THEN "loading" ELSE pc,
            size   <- fileSize,
            placed <- {k \in DOMAIN mem : mem[k] = Base + SizeBytes + k}

\* Every step places bytes of the file, gives up, or finishes a whole file.
ImplementsLoad == Load!Spec
=============================================================================
