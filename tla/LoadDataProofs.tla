--------------------------- MODULE LoadDataProofs ---------------------------
(***************************************************************************)
(* Proofs about LoadData for every page size and every place of the file   *)
(* in the flash.  What load_data may write is bounded for every size word; *)
(* that the file is whole needs an alignment to a page that fits the word. *)
(***************************************************************************)
EXTENDS LoadData, TLAPS

\* No size overflows fileSize + 255.
SizesFit == \A n \in Sizes : n + PageSize <= WordMod

\* The bytes of n pages.
Pages(n) == n * PageSize

\* What is stored is a part of the file, or of what follows it in the flash.
Placed == \A k \in DOMAIN mem : mem[k] = Base + SizeBytes + k

\* Memory and flash move in step: what is stored next follows in memory what
\* was stored last, and in the flash as well.
InStep ==
    pc \in {"page", "ok"} => /\ DOMAIN mem = 0 .. addr - 1
                             /\ Base + addr + SizeBytes = offset

LoadIInv ==
    /\ LoadTypeOK
    /\ pc = "header" => /\ i = 0 /\ offset = Base /\ addr = 0
                        /\ DOMAIN mem = {}
    /\ pc \in {"page", "ok"} =>
        /\ fileSize \in Sizes \ {0}
        /\ endPage = PageAlign(fileSize)
        /\ i > 0 /\ i <= endPage + 1
        /\ addr + SizeBytes = Pages(i)
    /\ InStep
    /\ Placed
    /\ pc = "ok" => i = endPage + 1
    /\ BoundedOverrun

-----------------------------------------------------------------------------
\* Alignment to a page gives less than one page too many, for every size: an
\* overflow of fileSize + 255 makes it fewer.
LEMMA FewPages ==
    ASSUME NEW n \in Sizes
    PROVE  /\ PageAlign(n) \in Nat /\ PageAlign(n) < WordMod
           /\ Pages(PageAlign(n)) < n + PageSize
<1> DEFINE w == n + (PageSize - 1)
           r == w % WordMod
           q == r \div PageSize
           bytes == q * PageSize
<1>1. n \in Nat /\ w \in Nat /\ w < n + PageSize
  BY SizesAssumption, PageSizeAssumption
<1>2. r \in Nat /\ r < WordMod /\ r <= w
  <2>1. r \in 0 .. WordMod - 1
    BY <1>1, WordModAssumption
  <2>2. CASE w < WordMod
    <3>1. r = w
      BY <1>1, <2>2, WordModAssumption
    <3> HIDE DEF w, r
    <3> QED BY <1>1, <2>1, <2>2, <3>1
  <2>3. CASE ~ (w < WordMod)
    BY <1>1, <2>1, <2>3, WordModAssumption
  <2> QED BY <2>2, <2>3
<1> HIDE DEF w, r
<1>3. q \in Nat /\ q <= r /\ bytes \in Nat /\ bytes <= r
  BY <1>2, PageSizeAssumption
<1>4. PageAlign(n) = q /\ Pages(q) = bytes
  BY DEF PageAlign, Pages, w, r
<1> HIDE DEF q, bytes
<1> QED BY <1>1, <1>2, <1>3, <1>4, PageSizeAssumption, WordModAssumption

\* And it gives pages enough, when nothing overflows.
LEMMA EnoughPages ==
    ASSUME SizesFit, NEW n \in Sizes
    PROVE  n <= Pages(PageAlign(n))
<1> DEFINE w == n + (PageSize - 1)
           q == w \div PageSize
<1>1. n \in Nat /\ n + PageSize <= WordMod
  BY SizesAssumption DEF SizesFit
<1>2. w \in Nat /\ w < WordMod
  BY <1>1, PageSizeAssumption, WordModAssumption
<1>3. w % WordMod = w
  BY <1>2, WordModAssumption
<1>4. q * PageSize \in Nat /\ w < q * PageSize + PageSize
  BY <1>1, PageSizeAssumption
<1>5. Pages(PageAlign(n)) = q * PageSize
  BY <1>3 DEF PageAlign, Pages
<1> QED BY <1>1, <1>4, <1>5, PageSizeAssumption

LEMMA BaseNat == Base \in Nat
BY PageSizeAssumption, PageOffsetAssumption DEF Base

\* The successor of a multiple, spelled out for the provers.
LEMMA NextMultiple ==
    ASSUME NEW n \in Nat
    PROVE  /\ Pages(n) \in Nat
           /\ Pages(n + 1) = Pages(n) + PageSize
           /\ Pages(1) = PageSize
BY PageSizeAssumption DEF Pages

\* Multiplying by the size of a page keeps order.
LEMMA OrderedMultiples ==
    ASSUME NEW m \in Nat, NEW n \in Nat, m <= n
    PROVE  Pages(m) <= Pages(n)
BY PageSizeAssumption DEF Pages

\* What Put stores, and that it leaves the rest alone.
LEMMA PutPlaces ==
    ASSUME NEW n \in Nat, addr \in Nat, offset \in Nat, LoadTypeOK, Placed,
           DOMAIN mem = 0 .. addr - 1,
           NEW src \in Nat, src = Base + SizeBytes + addr
    PROVE  /\ DOMAIN Put(mem, addr, n, src) = 0 .. addr + n - 1
           /\ \A k \in DOMAIN Put(mem, addr, n, src) :
                 Put(mem, addr, n, src)[k] = Base + SizeBytes + k
<1>1. 0 .. addr - 1 \union addr .. addr + n - 1 = 0 .. addr + n - 1
  OBVIOUS
<1>2. \A k \in addr .. addr + n - 1 : src + (k - addr) = Base + SizeBytes + k
  BY BaseNat DEF SizeBytes
<1> QED BY <1>1, <1>2 DEF Put, Placed

LEMMA LoadInitInv == LoadInit => LoadIInv
BY PageSizeAssumption, WordModAssumption, BaseNat
   DEF LoadInit, LoadIInv, LoadTypeOK, InStep, Placed, BoundedOverrun

LEMMA LoadNextInv ==
    ASSUME LoadIInv, [LoadNext]_loadVars
    PROVE  LoadIInv'
<1> USE PageSizeAssumption, WordModAssumption, SizesAssumption, BaseNat
        DEF SizeBytes
<1>1. CASE HeaderFails \/ EmptyFile
  BY <1>1 DEF HeaderFails, EmptyFile, LoadIInv, LoadTypeOK, InStep, Placed, BoundedOverrun
<1>2. CASE ReadHeader
  <2> DEFINE n == PageSize - 4
  <2>1. /\ fileSize' \in Sizes \ {0} /\ fileSize' \in Nat /\ fileSize' > 0
        /\ endPage' = PageAlign(fileSize')
        /\ mem' = Put(mem, addr, n, offset + 4)
        /\ offset' = offset + PageSize /\ addr' = addr + n /\ i' = 1
        /\ pc = "header" /\ pc' = "page"
    BY <1>2 DEF ReadHeader
  <2>2. addr = 0 /\ offset = Base /\ DOMAIN mem = 0 .. addr - 1
    BY <2>1 DEF LoadIInv
  <2>3. /\ DOMAIN mem' = 0 .. addr + n - 1
        /\ \A k \in DOMAIN mem' : mem'[k] = Base + 4 + k
    <3>1. n \in Nat /\ addr \in Nat /\ offset \in Nat /\ offset + 4 \in Nat
          /\ offset + 4 = Base + SizeBytes + addr
      BY <2>2
    <3>2. LoadTypeOK /\ Placed
      BY DEF LoadIInv
    <3> HIDE DEF n
    <3> QED BY <2>1, <2>2, <3>1, <3>2, PutPlaces
  <2>4. endPage' \in Nat /\ endPage' \in 0 .. WordMod - 1
    BY <2>1, FewPages
  <2>5. LoadTypeOK' /\ InStep' /\ Placed'
    BY <2>1, <2>2, <2>3, <2>4 DEF LoadTypeOK, InStep, Placed
  <2>6. BoundedOverrun'
    BY <2>1, <2>2, <2>3 DEF BoundedOverrun
  <2>7. Pages(1) = PageSize
    BY NextMultiple
  <2> QED BY <2>1, <2>2, <2>4, <2>5, <2>6, <2>7 DEF LoadIInv
<1>3. ASSUME pc = "page", MorePages
      PROVE  /\ i \in Nat /\ i > 0 /\ i <= endPage /\ endPage \in Nat
             /\ fileSize \in Sizes \ {0} /\ fileSize \in Nat
             /\ offset = Base + 4 + addr /\ addr \in Nat /\ offset \in Nat
             /\ DOMAIN mem = 0 .. addr - 1
             /\ addr + 4 = Pages(i) /\ Pages(i) \in Nat
             /\ endPage = PageAlign(fileSize)
             /\ Pages(i) < fileSize + PageSize
  <2>1. /\ i \in Nat /\ i > 0 /\ i <= endPage /\ endPage \in Nat
        /\ fileSize \in Sizes \ {0} /\ fileSize \in Nat
        /\ endPage = PageAlign(fileSize)
        /\ offset = Base + 4 + addr /\ addr \in Nat /\ offset \in Nat
        /\ DOMAIN mem = 0 .. addr - 1
        /\ addr + 4 = Pages(i)
    BY <1>3 DEF LoadIInv, LoadTypeOK, InStep, MorePages
  <2>2. Pages(i) <= Pages(endPage)
    BY <2>1, OrderedMultiples
  <2>3. Pages(endPage) < fileSize + PageSize
    BY <2>1, FewPages
  <2>4. Pages(i) \in Nat /\ Pages(endPage) \in Nat
    BY <2>1, NextMultiple
  <2> QED BY <2>1, <2>2, <2>3, <2>4
<1>4. CASE ReadPage
  <2>1. /\ pc = "page" /\ MorePages /\ mem' = Put(mem, addr, PageSize, offset)
        /\ offset' = offset + PageSize /\ addr' = addr + PageSize /\ i' = i + 1
        /\ pc' = pc /\ fileSize' = fileSize /\ endPage' = endPage
    BY <1>4 DEF ReadPage
  <2>2. /\ DOMAIN mem' = 0 .. addr + PageSize - 1
        /\ \A k \in DOMAIN mem' : mem'[k] = Base + 4 + k
    <3>1. PageSize \in Nat /\ addr \in Nat /\ offset \in Nat
          /\ offset = Base + SizeBytes + addr /\ DOMAIN mem = 0 .. addr - 1
      BY <1>3, <2>1
    <3>2. LoadTypeOK /\ Placed
      BY DEF LoadIInv
    <3> QED BY <2>1, <3>1, <3>2, PutPlaces
  <2>3. LoadTypeOK' /\ InStep' /\ Placed'
    BY <1>3, <2>1, <2>2 DEF LoadIInv, LoadTypeOK, InStep, Placed
  <2>4. addr' + 4 = Pages(i')
    <3>1. Pages(i + 1) = Pages(i) + PageSize
      BY <1>3, <2>1, NextMultiple
    <3> QED BY <1>3, <2>1, <3>1
  <2>5. BoundedOverrun'
    <3>1. addr + 4 < fileSize + PageSize /\ addr \in Nat /\ fileSize \in Nat
      BY <1>3, <2>1
    <3>2. \A k \in 0 .. addr + PageSize - 1 : k + 4 < fileSize + 2 * PageSize
      BY <3>1
    <3> QED BY <2>1, <2>2, <3>2 DEF BoundedOverrun
  <2>6. /\ pc' = "page" /\ fileSize' \in Sizes \ {0}
    BY <1>3, <2>1
  <2>7. endPage' = PageAlign(fileSize')
    <3>1. endPage = PageAlign(fileSize)
      BY <1>3, <2>1
    <3> QED BY <2>1, <3>1
  <2>8. i' > 0 /\ i' <= endPage' + 1
    <3>1. i \in Nat /\ i > 0 /\ i <= endPage /\ endPage \in Nat
      BY <1>3, <2>1
    <3>2. i' = i + 1 /\ endPage' = endPage
      BY <2>1
    <3>3. i + 1 > 0 /\ i + 1 <= endPage + 1
      BY <3>1
    <3> QED BY <3>2, <3>3
  <2> QED BY <2>3, <2>4, <2>5, <2>6, <2>7, <2>8 DEF LoadIInv
<1>5. CASE PageFails
  <2>1. PICK n \in 0 .. PageSize - 1 : mem' = Put(mem, addr, n, offset)
    BY <1>5 DEF PageFails
  <2>2. /\ pc = "page" /\ MorePages /\ pc' = "failed"
        /\ UNCHANGED <<fileSize, endPage, i, offset, addr>>
    BY <1>5 DEF PageFails
  <2>3. /\ DOMAIN mem' = 0 .. addr + n - 1
        /\ \A k \in DOMAIN mem' : mem'[k] = Base + 4 + k
    <3>1. n \in Nat /\ addr \in Nat /\ offset \in Nat
          /\ offset = Base + SizeBytes + addr /\ DOMAIN mem = 0 .. addr - 1
      BY <1>3, <2>2
    <3>2. LoadTypeOK /\ Placed
      BY DEF LoadIInv
    <3> QED BY <2>1, <3>1, <3>2, PutPlaces
  <2>4. LoadTypeOK' /\ InStep' /\ Placed'
    BY <1>3, <2>2, <2>3 DEF LoadIInv, LoadTypeOK, InStep, Placed
  <2>5. BoundedOverrun'
    <3>1. addr + 4 < fileSize + PageSize /\ addr \in Nat /\ fileSize \in Nat
      BY <1>3, <2>2
    <3>2. \A k \in 0 .. addr + n - 1 : k + 4 < fileSize + 2 * PageSize
      BY <3>1
    <3> QED BY <2>2, <2>3, <3>2 DEF BoundedOverrun
  <2> QED BY <2>2, <2>4, <2>5 DEF LoadIInv
<1>6. CASE Done
  BY <1>6 DEF Done, MorePages, LoadIInv, LoadTypeOK, InStep, Placed, BoundedOverrun
<1>7. CASE UNCHANGED loadVars
  BY <1>7 DEF loadVars, LoadIInv, LoadTypeOK, InStep, Placed, BoundedOverrun
<1> QED
  BY <1>1, <1>2, <1>4, <1>5, <1>6, <1>7 DEF LoadNext, Returned

\* When the loop ends it has stored one byte past the file, or more.
LEMMA LoopEndCovers ==
    ASSUME SizesFit, LoadIInv, pc \in {"page", "ok"}, i = endPage + 1
    PROVE  0 .. fileSize - 1 \subseteq DOMAIN mem
<1> USE PageSizeAssumption, SizesAssumption
<1>1. /\ fileSize \in Sizes \ {0} /\ fileSize \in Nat /\ endPage = PageAlign(fileSize)
      /\ addr + 4 = Pages(i) /\ addr \in Nat
      /\ DOMAIN mem = 0 .. addr - 1 /\ endPage \in Nat
  BY DEF LoadIInv, LoadTypeOK, InStep, SizeBytes
<1>2. fileSize <= Pages(endPage)
  BY <1>1, EnoughPages
<1>3. Pages(i) = Pages(endPage) + PageSize /\ Pages(endPage) \in Nat
  BY <1>1, NextMultiple
<1> QED BY <1>1, <1>2, <1>3

-----------------------------------------------------------------------------
\* The strengthening that follows the loop: memory and flash move in step and
\* what is stored is a prefix of the file, for every size word.
THEOREM LoadInductive == LoadSpec => []LoadIInv
<1>1. LoadInit => LoadIInv
  BY LoadInitInv
<1>2. LoadIInv /\ [LoadNext]_loadVars => LoadIInv'
  BY LoadNextInv
<1> QED BY <1>1, <1>2, PTL DEF LoadSpec

\* The types of load_data's variables, the page counter's bound included.
THEOREM LoadTypeCorrect == LoadSpec => []LoadTypeOK
<1>1. LoadIInv => LoadTypeOK
  BY DEF LoadIInv
<1> QED BY <1>1, LoadInductive, PTL

\* Whatever the size word says, and whether the load ends or fails, a byte of
\* memory that load_data has written is the one the file has for that place,
\* or the flash after the file: the address pair never gets out of step.
THEOREM CopiesInPlace == LoadSpec => []Placed
<1>1. LoadIInv => Placed
  BY DEF LoadIInv
<1> QED BY <1>1, LoadInductive, PTL

\* A load that returns 0 has put every byte of the file in its place, if the
\* alignment did not overflow.
THEOREM WholeFile == ASSUME SizesFit PROVE LoadSpec => []LoadedIsFile
<1>1. ASSUME LoadIInv PROVE LoadedIsFile
  <2> SUFFICES ASSUME pc = "ok", NEW k \in 0 .. fileSize - 1
               PROVE  k \in DOMAIN mem /\ mem[k] = Base + SizeBytes + k
    BY DEF LoadedIsFile
  <2>1. k \in DOMAIN mem
    BY <1>1, LoopEndCovers DEF LoadIInv
  <2> QED BY <1>1, <2>1 DEF LoadIInv, Placed
<1> QED BY <1>1, LoadInductive, PTL

\* Memory is never written two pages or more past the end of the file, not
\* even for a size word that overflows the alignment (bootmain.c:82).
THEOREM OverrunIsBounded == LoadSpec => []BoundedOverrun
<1>1. LoadIInv => BoundedOverrun
  BY DEF LoadIInv
<1> QED BY <1>1, LoadInductive, PTL

-----------------------------------------------------------------------------
\* load_data implements ImageLoad: it never takes back a byte it has placed
\* and never reports a file it has not wholly placed.
THEOREM LoadRefinement == ASSUME SizesFit PROVE LoadSpec => ImplementsLoad
<1>1. LoadInit => Load!Init
  BY DEF LoadInit, Load!Init
<1>2. ASSUME LoadIInv, LoadIInv', [LoadNext]_loadVars PROVE [Load!Next]_(Load!vars)
  <2> DEFINE placed == {k \in DOMAIN mem : mem[k] = Base + SizeBytes + k}
  <2>1. placed = DOMAIN mem /\ placed' = DOMAIN mem'
    BY <1>2 DEF LoadIInv, Placed
  <2>2. CASE HeaderFails \/ EmptyFile \/ PageFails
    <3>1. DOMAIN mem \subseteq DOMAIN mem'
      BY <2>2 DEF HeaderFails, EmptyFile, PageFails, Put
    <3>2. Load!GiveUp
      BY <2>1, <2>2, <3>1 DEF HeaderFails, EmptyFile, PageFails, Load!GiveUp
    <3> QED BY <3>2 DEF Load!Next
  <2>3. CASE ReadHeader
    <3>1. DOMAIN mem = {} /\ fileSize' \in Nat \ {0}
      BY <1>2, <2>3, SizesAssumption DEF ReadHeader, LoadIInv
    <3>2. Load!Begin
      BY <2>1, <2>3, <3>1 DEF ReadHeader, Load!Begin
    <3> QED BY <3>2 DEF Load!Next
  <2>4. CASE ReadPage
    <3>1. DOMAIN mem \subseteq DOMAIN mem'
      BY <2>4 DEF ReadPage, Put
    <3>2. Load!Place
      BY <2>1, <2>4, <3>1 DEF ReadPage, Load!Place
    <3> QED BY <3>2 DEF Load!Next
  <2>5. CASE Done
    <3>1. 0 .. fileSize - 1 \subseteq DOMAIN mem
      <4>1. pc = "page" /\ ~MorePages
        BY <2>5 DEF Done
      <4>2. i \in Nat /\ endPage \in Nat /\ i <= endPage + 1
        BY <1>2 DEF LoadIInv, LoadTypeOK
      <4>3. i = endPage + 1
        BY <4>1, <4>2 DEF MorePages
      <4> QED BY <1>2, <4>1, <4>3, LoopEndCovers
    <3>2. Load!Finish
      BY <2>1, <2>5, <3>1 DEF Done, Load!Finish
    <3> QED BY <3>2 DEF Load!Next
  <2>6. CASE UNCHANGED loadVars
    BY <2>6 DEF loadVars, Load!vars
  <2> QED
    BY <1>2, <2>2, <2>3, <2>4, <2>5, <2>6 DEF LoadNext, Returned
<1> QED BY <1>1, <1>2, LoadInductive, PTL DEF LoadSpec, Load!Spec, ImplementsLoad
=============================================================================
