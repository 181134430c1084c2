-------------------------- MODULE SecondBootProofs --------------------------
(***************************************************************************)
(* Proofs about SecondBoot for every image and every order of hart 0's     *)
(* stores: no theorem assumes anything of KeptOrder.  The two lemmas at    *)
(* the end, about what fences would restore, say what they assume.         *)
(***************************************************************************)
EXTENDS SecondBoot, LoadDataProofs

\* What a fence between bootmain.c:189 and 190 would keep.
MailboxFirst == <<MailboxStore, WakeStore>> \in KeptOrder

\* What a fence before bootmain.c:115 would keep.
ImageFirst == \A p \in 0 .. MaxPages : <<PageStore(p), GoStore>> \in KeptOrder

\* How far into its numbered stores hart 0 is, whatever it is doing.
Issued(s) ==
    \/ s = MailboxStore /\ pc0 # "mailbox"
    \/ s = WakeStore /\ pc0 \notin {"mailbox", "wake"}
    \/ \E p \in 0 .. MaxPages : s = PageStore(p) /\ p < i
    \/ s = GoStore /\ pc0 \in {"run", "image", "returned"}

\* A buffer holds nothing hart 0 has not stored yet, and a store that is not
\* in the buffer any more is in memory.
BufferInv ==
    /\ \A s \in pend0 : Issued(s)
    /\ pc0 # "mailbox" => mailbox \/ MailboxStore \in pend0
    /\ \A p \in 0 .. MaxPages : p < i => p \in image \/ PageStore(p) \in pend0
    /\ pend1 => pc1 \in {"fence", "fence2"}

\* A store that waits holds back those the machine keeps behind it.
OrderInv ==
    \A s \in pend0, t \in Stores : Kept(s, t) /\ Issued(t) => t \in pend0

\* load_data runs after the two first stores, and hart 0 goes on only when it
\* has returned 0.
PhaseInv ==
    /\ pc0 \in {"mailbox", "wake", "probe"} => pc = "header"
    /\ pc0 \in {"go", "run", "image", "returned"} => pc = "ok"
    /\ pc0 = "failed" => pc = "failed"
    /\ pc0 = "undefined" \/ flash # "found" => pc = "header"

\* A set msip tells which of the two interrupts is meant, and hart 1 never
\* takes the first for the second.
InterruptInv ==
    /\ msip # "none" \/ pc1 # "rom" => Issued(WakeStore) /\ WakeStore \notin pend0
    /\ msip = "wake" => pc1 \in {"rom", "clear", "fence", "wild"}
    /\ pc1 = "fence" /\ ~pend1 => msip # "wake"
    /\ msip = "go" \/ pc1 \in {"clear2", "fence2", "image"} =>
         Issued(GoStore) /\ GoStore \notin pend0

\* The one part of it that depends on the order.
RomInv == MailboxFirst => pc1 # "wild"

IInv == TypeOK /\ BufferInv /\ OrderInv /\ PhaseInv /\ InterruptInv /\ RomInv

-----------------------------------------------------------------------------
(* load_data, as hart 0's other steps see it.                              *)

LoadPhases == {"header", "page", "ok", "failed"}

LEMMA MaxPagesNat == MaxPages \in Nat
BY WordModAssumption DEF MaxPages

LEMMA LoadBounds ==
    ASSUME LoadIInv
    PROVE  /\ pc \in LoadPhases
           /\ endPage \in 0 .. MaxPages /\ i \in 0 .. MaxPages + 1
           /\ pc = "header" => i = 0
           /\ pc = "ok" => i = endPage + 1
<1> USE WordModAssumption DEF MaxPages
<1>1. endPage \in 0 .. WordMod - 1 /\ i \in 0 .. endPage + 1
  BY DEF LoadIInv, LoadTypeOK
<1>2. pc \in LoadPhases /\ (pc = "header" => i = 0) /\ (pc = "ok" => i = endPage + 1)
  BY DEF LoadIInv, LoadTypeOK, LoadPhases
<1> QED BY <1>1, <1>2

\* Every step of the two harts is a step of load_data or leaves it alone.
LEMMA StepsLoad == [Next]_vars => [LoadNext]_loadVars
<1> SUFFICES ASSUME [Next]_vars PROVE [LoadNext]_loadVars
  OBVIOUS
<1>1. CASE LoadStep
  BY <1>1 DEF LoadStep, LoadNext
<1>2. CASE \/ WriteMailbox \/ WakeHartOne \/ ProbeFlash \/ DereferenceNull
           \/ LoadReturns \/ SendGo \/ RunImage \/ ImageReturns
  BY <1>2 DEF WriteMailbox, WakeHartOne, ProbeFlash, DereferenceNull, LoadReturns,
              SendGo, RunImage, ImageReturns
<1>3. CASE RomWake \/ HartOne
  BY <1>3 DEF RomWake, HartOne, ClearFirst, FenceFirst, Wfi, CheckMip, ClearSecond,
              FenceSecond, hart0
<1>4. CASE DrainHartZero \/ DrainHartOne
  BY <1>4 DEF DrainHartZero, DrainHartOne, hart0
<1>5. CASE UNCHANGED vars
  BY <1>5 DEF vars
<1> QED BY <1>1, <1>2, <1>3, <1>4, <1>5 DEF Next, HartZero

\* So what is proved of load_data alone holds of it here.
THEOREM RunsLoadData == Spec => LoadSpec
<1>1. Init => LoadInit
  BY DEF Init
<1> QED BY <1>1, StepsLoad, PTL DEF Spec, SafeSpec, LoadSpec

-----------------------------------------------------------------------------
LEMMA InitInv == Init => IInv
<1> SUFFICES ASSUME Init PROVE IInv
  OBVIOUS
<1> USE DEF Init, LoadInit
<1>1. TypeOK
  <2>1. pend1 \in BOOLEAN /\ mailbox \in BOOLEAN
    OBVIOUS
  <2> QED BY <2>1 DEF TypeOK
<1>3. BufferInv /\ OrderInv
  BY MaxPagesNat DEF BufferInv, OrderInv
<1>2. PhaseInv /\ InterruptInv /\ RomInv
  BY DEF PhaseInv, InterruptInv, RomInv
<1> QED BY <1>1, <1>2, <1>3 DEF IInv

\* A store that hart 0 adds to its buffer waits behind those in it.
LEMMA StoreKeepsOrder ==
    ASSUME OrderInv, NEW x \in Nat, Store(x), pend0 \subseteq Stores,
           \A t \in Stores : Issued(t)' => t <= x /\ (t = x \/ Issued(t))
    PROVE  OrderInv'
<1>1. x \in pend0' /\ pend0' = pend0 \union {x}
  BY DEF Store
<1>2. Stores \subseteq Nat /\ Stores' = Stores
  BY MaxPagesNat DEF Stores, GoStore
<1>3. ASSUME NEW s \in pend0', NEW t \in Stores, Kept(s, t), Issued(t)'
      PROVE  t \in pend0'
  <2>1. t <= x /\ s < t
    BY <1>3 DEF Kept
  <2>2. CASE t = x
    BY <1>1, <2>2
  <2>3. CASE t # x
    <3>1. s \in pend0
      BY <1>1, <1>2, <1>3, <2>1
    <3> QED BY <1>1, <1>3, <2>3, <3>1 DEF OrderInv
  <2> QED BY <2>2, <2>3
<1>4. \A s, t : Kept(s, t)' <=> Kept(s, t)
  BY DEF Kept, SameLocation
<1> QED BY <1>2, <1>3, <1>4 DEF OrderInv

\* Nothing that hart 0 or hart 1 does without a store disturbs the buffer.
LEMMA OrderStays ==
    ASSUME OrderInv, pend0' = pend0, \A t \in Stores : Issued(t)' => Issued(t)
    PROVE  OrderInv'
BY DEF OrderInv, Kept, SameLocation, Stores

\* A step of hart 0 that stores nothing and reads no page.
LEMMA QuietStep ==
    ASSUME IInv, UNCHANGED <<pc1, pend0, pend1, memory, i>>,
           TypeOK', PhaseInv', pc0 # "mailbox",
           \A t \in Stores : Issued(t)' <=> Issued(t)
    PROVE  IInv'
<1>1. OrderInv' /\ RomInv'
  BY OrderStays DEF IInv, RomInv, MailboxFirst
<1>2. Stores \subseteq Nat /\ WakeStore \in Stores /\ GoStore \in Stores
  BY MaxPagesNat DEF Stores, WakeStore, GoStore
<1>3. BufferInv'
  BY DEF IInv, TypeOK, BufferInv, memory, Stores
<1>4. InterruptInv'
  BY <1>2 DEF IInv, InterruptInv, memory
<1> QED BY <1>1, <1>3, <1>4 DEF IInv

LEMMA NextInv ==
    ASSUME LoadIInv, LoadIInv', IInv, [Next]_vars
    PROVE  IInv'
<1> USE MaxPagesNat DEF IInv, TypeOK, Stores, MailboxStore, WakeStore,
        PageStore, GoStore, GoTo0, GoTo1, hart0, memory
<1>0. /\ endPage \in 0 .. MaxPages /\ i \in 0 .. MaxPages + 1
      /\ pc = "header" => i = 0
  BY LoadBounds
<1>1. CASE WriteMailbox
  <2> USE <1>1 DEF WriteMailbox
  <2>0. i = 0 /\ i' = 0 /\ pc' = pc
    BY <1>0 DEF PhaseInv, loadVars
  <2>1. \A t \in Stores : Issued(t)' => t <= MailboxStore
    BY <2>0 DEF Issued
  <2>2. \A t \in Stores : t <= MailboxStore => t = MailboxStore
    OBVIOUS
  <2>3. OrderInv'
    BY <2>1, <2>2, StoreKeepsOrder
  <2>4. TypeOK' /\ PhaseInv' /\ RomInv'
    BY <2>0 DEF Store, PhaseInv, RomInv, MailboxFirst
  <2>5. BufferInv' /\ InterruptInv'
    BY <2>0 DEF Store, BufferInv, InterruptInv, Issued
  <2> QED BY <2>3, <2>4, <2>5
<1>2. CASE WakeHartOne
  <2> USE <1>2 DEF WakeHartOne
  <2>0. i = 0 /\ i' = 0 /\ pc' = pc
    BY <1>0 DEF PhaseInv, loadVars
  <2>1. \A t \in Stores : Issued(t)' => t <= WakeStore /\ (t = WakeStore \/ Issued(t))
    BY <2>0 DEF Issued
  <2>2. OrderInv'
    BY <2>1, StoreKeepsOrder
  <2>3. TypeOK' /\ PhaseInv' /\ RomInv'
    BY <2>0 DEF Store, PhaseInv, RomInv, MailboxFirst
  <2>4. BufferInv' /\ InterruptInv'
    BY <2>0 DEF Store, BufferInv, InterruptInv, Issued
  <2> QED BY <2>2, <2>3, <2>4
<1>3. CASE ProbeFlash \/ DereferenceNull \/ LoadReturns \/ RunImage \/ ImageReturns
  <2> USE <1>3 DEF ProbeFlash, DereferenceNull, LoadReturns, RunImage, ImageReturns
  <2>1. UNCHANGED <<pc1, pend0, pend1, memory, i, pc>> /\ pc0 # "mailbox"
    BY DEF loadVars
  <2>2. \A t \in Stores : Issued(t)' <=> Issued(t)
    BY <2>1 DEF Issued
  <2>3. TypeOK'
    BY <2>1
  <2>4. PhaseInv'
    BY <2>1, LoadBounds DEF PhaseInv, LoadPhases
  <2> HIDE <1>3
  <2> QED BY <2>1, <2>2, <2>3, <2>4, QuietStep
<1>4. CASE LoadStep
  <2> USE DEF LoadStep
  <2>1. /\ pc0 = "load" /\ flash = "found" /\ UNCHANGED <<pc0, pc1, pend1, memory, flash>>
    BY <1>4
  <2>2. CASE /\ HeaderFails \/ EmptyFile \/ PageFails \/ Done
             /\ UNCHANGED pend0
    <3>1. UNCHANGED i
      BY <2>2 DEF HeaderFails, EmptyFile, PageFails, Done
    <3>2. \A t \in Stores : Issued(t)' <=> Issued(t)
      BY <2>1, <3>1 DEF Issued
    <3>3. TypeOK' /\ PhaseInv'
      BY <2>1, <2>2 DEF PhaseInv
    <3> QED BY <2>1, <2>2, <3>1, <3>2, <3>3, QuietStep
  <2>3. CASE \/ ReadHeader /\ Store(PageStore(0))
             \/ ReadPage /\ Store(PageStore(i))
    <3>1. PICK n \in 0 .. MaxPages : n = i /\ i' = n + 1 /\ Store(PageStore(n))
      BY <1>0, <2>3 DEF ReadHeader, ReadPage, MorePages
    <3>2. \A t \in Stores :
            Issued(t)' => t <= PageStore(n) /\ (t = PageStore(n) \/ Issued(t))
      BY <2>1, <3>1 DEF Issued
    <3>3. /\ \A t \in Stores : Issued(t) => Issued(t)'
          /\ Issued(PageStore(n))'
      BY <2>1, <3>1 DEF Issued
    <3>4. OrderInv'
      BY <3>1, <3>2, StoreKeepsOrder
    <3>5. TypeOK' /\ PhaseInv' /\ RomInv'
      BY <2>1, <3>1 DEF Store, PhaseInv, RomInv, MailboxFirst
    <3>6. BufferInv'
      <4>1. \A s \in pend0' : Issued(s)'
        BY <3>1, <3>3 DEF BufferInv, Store
      <4>2. \A p \in 0 .. MaxPages : p < i' => p \in image' \/ PageStore(p) \in pend0'
        BY <2>1, <3>1 DEF BufferInv, Store
      <4> QED BY <2>1, <3>1, <4>1, <4>2 DEF BufferInv, Store
    <3>7. InterruptInv'
      BY <2>1, <3>1, <3>3 DEF InterruptInv, Store
    <3> QED BY <3>4, <3>5, <3>6, <3>7
  <2> QED BY <1>4, <2>2, <2>3
<1>5. CASE SendGo
  <2> USE <1>5 DEF SendGo
  <2>0. UNCHANGED <<i, pc>>
    BY DEF loadVars
  <2>1. \A t \in Stores : Issued(t)' => t <= GoStore /\ (t = GoStore \/ Issued(t))
    BY <1>0, <2>0 DEF Issued
  <2>2. OrderInv'
    BY <2>1, StoreKeepsOrder
  <2>3. TypeOK' /\ PhaseInv' /\ RomInv'
    BY <2>0 DEF Store, PhaseInv, RomInv, MailboxFirst
  <2>4. /\ \A t \in Stores : Issued(t) => Issued(t)'
        /\ Issued(GoStore)'
    BY <2>0 DEF Issued
  <2>5. BufferInv'
    BY <2>0, <2>4 DEF BufferInv, Store
  <2>6. InterruptInv'
    BY <2>0, <2>4 DEF InterruptInv, Store, Issued
  <2> QED BY <2>2, <2>3, <2>5, <2>6
<1>6. CASE RomWake
  <2> USE <1>6 DEF RomWake
  <2>0. UNCHANGED <<i, pc>>
    BY DEF loadVars
  <2>1. \A t \in Stores : Issued(t)' <=> Issued(t)
    BY <2>0 DEF Issued
  <2>2. OrderInv'
    BY <2>1, OrderStays
  <2>3. Issued(WakeStore) /\ WakeStore \notin pend0
    BY DEF InterruptInv
  <2>4. ASSUME MailboxFirst PROVE mailbox
    <3>1. MailboxStore \notin pend0
      BY <2>3, <2>4 DEF OrderInv, Kept, MailboxFirst
    <3>2. pc0 # "mailbox"
      BY <2>3 DEF Issued
    <3> QED BY <3>1, <3>2 DEF BufferInv
  <2>5. RomInv'
    BY <2>4 DEF RomInv, MailboxFirst
  <2>6. TypeOK' /\ BufferInv' /\ PhaseInv'
    BY <2>0, <2>1 DEF BufferInv, PhaseInv
  <2>7. InterruptInv'
    BY <2>1, <2>3 DEF InterruptInv
  <2> QED BY <2>2, <2>5, <2>6, <2>7
<1>7. CASE HartOne
  <2>0. UNCHANGED <<pc0, flash, i, pc, pend0, memory>>
    BY <1>7 DEF HartOne, ClearFirst, FenceFirst, Wfi, CheckMip, ClearSecond,
                FenceSecond, loadVars
  <2>1. \A s \in Stores : Issued(s)' <=> Issued(s)
    BY <2>0 DEF Issued
  <2>2. PhaseInv' /\ OrderInv'
    BY <2>0, <2>1, OrderStays DEF PhaseInv
  <2>3. CASE ClearFirst
    BY <2>0, <2>1, <2>2, <2>3 DEF ClearFirst, BufferInv, InterruptInv, RomInv, MailboxFirst
  <2>4. CASE FenceFirst
    BY <2>0, <2>1, <2>2, <2>4 DEF FenceFirst, BufferInv, InterruptInv, RomInv, MailboxFirst
  <2>5. CASE Wfi
    BY <2>0, <2>1, <2>2, <2>5 DEF Wfi, BufferInv, InterruptInv, RomInv, MailboxFirst
  <2>6. CASE CheckMip
    BY <2>0, <2>1, <2>2, <2>6 DEF CheckMip, BufferInv, InterruptInv, RomInv, MailboxFirst
  <2>7. CASE ClearSecond
    BY <2>0, <2>1, <2>2, <2>7 DEF ClearSecond, BufferInv, InterruptInv, RomInv, MailboxFirst
  <2>8. CASE FenceSecond
    BY <2>0, <2>1, <2>2, <2>8 DEF FenceSecond, BufferInv, InterruptInv, RomInv, MailboxFirst
  <2> QED BY <1>7, <2>3, <2>4, <2>5, <2>6, <2>7, <2>8 DEF HartOne
<1>8. CASE DrainHartZero
  <2>1. PICK s \in pend0 : /\ MayDrain(s)
                           /\ pend0' = pend0 \ {s}
                           /\ mailbox' = (mailbox \/ s = MailboxStore)
                           /\ msip' = IF s = WakeStore THEN "wake"
                                       ELSE IF s = GoStore THEN "go" ELSE msip
                           /\ image' = image \union {p \in 0 .. MaxPages : PageStore(p) = s}
                           /\ UNCHANGED <<hart0, pc1, pend1>>
    BY <1>8 DEF DrainHartZero
  <2>2. UNCHANGED <<i, pc, pc0, flash, pc1, pend1>>
    BY <2>1 DEF loadVars
  <2>3. /\ TypeOK' /\ PhaseInv' /\ RomInv'
        /\ \A t \in Stores : Issued(t)' <=> Issued(t)
    <3>1. TypeOK'
      BY <2>1
    <3>2. PhaseInv' /\ RomInv'
      BY <2>2 DEF PhaseInv, RomInv, MailboxFirst
    <3>3. \A t \in Stores : Issued(t)' <=> Issued(t)
      BY <2>2 DEF Issued
    <3> QED BY <3>1, <3>2, <3>3
  <2>4. BufferInv'
    <3>1. \A t \in pend0' : Issued(t)'
      BY <2>1, <2>3 DEF BufferInv
    <3>2. pc0 # "mailbox" => mailbox' \/ MailboxStore \in pend0'
      BY <2>1 DEF BufferInv
    <3>3. \A p \in 0 .. MaxPages : p < i => p \in image' \/ PageStore(p) \in pend0'
      BY <2>1 DEF BufferInv
    <3> QED BY <2>2, <3>1, <3>2, <3>3 DEF BufferInv
  <2>5. OrderInv'
    <3>1. ASSUME NEW t \in pend0', NEW u \in Stores, Kept(t, u), Issued(u)
          PROVE  u \in pend0'
      BY <2>1, <3>1 DEF OrderInv, MayDrain
    <3>2. \A t, u : Kept(t, u)' <=> Kept(t, u)
      BY DEF Kept, SameLocation
    <3> QED BY <2>3, <3>1, <3>2 DEF OrderInv
  <2>6. CASE s = WakeStore
    <3>1. Issued(WakeStore)
      BY <2>1, <2>6 DEF BufferInv
    <3>2. msip = "none" /\ pc1 = "rom" /\ msip' = "wake"
      BY <2>1, <2>6 DEF InterruptInv
    <3>3. InterruptInv'
      BY <2>1, <2>2, <2>3, <2>6, <3>1, <3>2 DEF InterruptInv
    <3> QED BY <2>3, <2>4, <2>5, <3>3
  <2>7. CASE s = GoStore
    <3>1. Issued(GoStore) /\ msip' = "go"
      BY <2>1, <2>7 DEF BufferInv
    <3>2. Issued(WakeStore)
      BY <3>1, <1>0 DEF Issued
    <3>3. Kept(WakeStore, GoStore)
      BY DEF Kept, SameLocation
    <3>4. WakeStore \notin pend0
      BY <2>1, <2>7, <3>3 DEF MayDrain
    <3>5. InterruptInv'
      BY <2>1, <2>2, <2>3, <2>7, <3>1, <3>2, <3>4 DEF InterruptInv
    <3> QED BY <2>3, <2>4, <2>5, <3>5
  <2>8. CASE s # WakeStore /\ s # GoStore
    <3>1. InterruptInv'
      BY <2>1, <2>2, <2>3, <2>8 DEF InterruptInv
    <3> QED BY <2>3, <2>4, <2>5, <3>1
  <2> QED BY <2>6, <2>7, <2>8
<1>9. CASE DrainHartOne \/ UNCHANGED vars
  <2>0. /\ UNCHANGED <<pc0, pc1, pend0, mailbox, image, flash, i, pc>>
        /\ (pend1' = FALSE /\ msip' = "none") \/ UNCHANGED <<pend1, msip>>
    BY <1>9 DEF DrainHartOne, vars, loadVars
  <2>1. \A t \in Stores : Issued(t)' <=> Issued(t)
    BY <2>0 DEF Issued
  <2>2. OrderInv'
    BY <2>0, <2>1, OrderStays
  <2>3. BufferInv' /\ PhaseInv' /\ RomInv'
    BY <2>0, <2>1 DEF BufferInv, PhaseInv, RomInv, MailboxFirst
  <2>5. TypeOK'
    <3>1. pend1' \in BOOLEAN /\ mailbox' \in BOOLEAN
      BY <2>0
    <3> QED BY <2>0, <3>1
  <2>4. InterruptInv'
    BY <2>0, <2>1 DEF InterruptInv
  <2> QED BY <2>2, <2>3, <2>4, <2>5
<1> QED
  BY <1>1, <1>2, <1>3, <1>4, <1>5, <1>6, <1>7, <1>8, <1>9 DEF Next, HartZero

-----------------------------------------------------------------------------
\* The strengthening of the safety properties below, with load_data's own, is
\* an invariant whatever order is kept.
THEOREM Inductive == Spec => [](LoadIInv /\ IInv)
<1>1. Spec => []LoadIInv
  BY RunsLoadData, LoadInductive, PTL
<1>2. Init => IInv
  BY InitInv
<1>3. LoadIInv /\ LoadIInv' /\ IInv /\ [Next]_vars => IInv'
  BY NextInv
<1> QED BY <1>1, <1>2, <1>3, PTL DEF Spec, SafeSpec

\* Every variable keeps its type: in particular hart 0's buffer holds no store
\* that it does not make (bootmain.c:54-116).
THEOREM TypeCorrect == Spec => [](TypeOK /\ LoadTypeOK)
<1>1. LoadIInv /\ IInv => TypeOK /\ LoadTypeOK
  BY DEF IInv, LoadIInv
<1> QED BY <1>1, Inductive, PTL

\* Past its wfi loop hart 1 knows that hart 0 has sent the second interrupt.
LEMMA GoIsSent ==
    ASSUME LoadIInv, IInv, pc1 \in {"clear2", "fence2", "image"}
    PROVE  /\ pc0 \in {"run", "image", "returned"}
           /\ Issued(GoStore) /\ GoStore \notin pend0
<1>1. Issued(GoStore) /\ GoStore \notin pend0
  BY DEF IInv, InterruptInv
<1>2. pc0 \in {"run", "image", "returned"}
  BY <1>1, LoadBounds, MaxPagesNat
     DEF Issued, GoStore, PageStore, MailboxStore, WakeStore, IInv, TypeOK
<1> QED BY <1>1, <1>2

\* The interrupt of bootmain.c:190 is never taken for that of line 115: hart 1
\* is past its wfi loop only once hart 0 has sent the second one.  The two
\* are stores to one location, whose order every machine keeps.
THEOREM HeldUntilGo == Spec => []HartOneHeld
<1>1. LoadIInv /\ IInv => HartOneHeld
  BY GoIsSent DEF HartOneHeld
<1> QED BY <1>1, Inductive, PTL

\* What hart 0 has loaded is visible or in its own store buffer.
LEMMA LoadedImage ==
    ASSUME LoadIInv, IInv, pc = "ok"
    PROVE  \A p \in 0 .. endPage : p \in image \/ PageStore(p) \in pend0
BY LoadBounds, MaxPagesNat DEF IInv, BufferInv

\* Whichever hart is in the image, load_data has returned 0 and every page it
\* counted is in memory or on its way (bootmain.c:90-116, start.S:89-113).
THEOREM LoadedFirst == Spec => []EntersLoadedImage
<1>1. ASSUME LoadIInv, IInv PROVE EntersLoadedImage
  <2> SUFFICES ASSUME "image" \in {pc0, pc1} PROVE pc = "ok"
    BY <1>1, LoadedImage DEF EntersLoadedImage
  <2>1. pc0 \in {"run", "image", "returned"}
    BY <1>1, GoIsSent
  <2> QED BY <1>1, <2>1 DEF IInv, PhaseInv
<1> QED BY <1>1, Inductive, PTL

-----------------------------------------------------------------------------
\* The two harts implement the gate of BootGate: hart 0 enters only what
\* load_data has returned 0 for, hart 1 only after it was released, and a
\* failed load or probe lets nobody in.
THEOREM Refinement == Spec => ImplementsGate
<1> USE DEF Gate!vars, gateStage, gateInside
<1>1. Init => Gate!Init
  BY DEF Init, LoadInit, Gate!Init, Released
<1>2. ASSUME LoadIInv, IInv, [Next]_vars PROVE [Gate!Next]_(Gate!vars)
  <2> USE DEF Released, GoTo0, GoTo1, hart0, memory, loadVars
  <2>0. PhaseInv /\ pc \in LoadPhases
    BY <1>2, LoadBounds DEF IInv
  <2>1. CASE WriteMailbox \/ WakeHartOne \/ ProbeFlash \/ LoadReturns
    BY <2>0, <2>1 DEF WriteMailbox, WakeHartOne, ProbeFlash, LoadReturns, PhaseInv
  <2>2. CASE DereferenceNull
    <3>1. CASE pc = "header"
      <4>1. Gate!Fail
        BY <2>2, <3>1 DEF DereferenceNull, Gate!Fail
      <4> QED BY <4>1 DEF Gate!Next
    <3> QED BY <2>0, <2>2, <3>1 DEF DereferenceNull, PhaseInv
  <2>3. CASE LoadStep
    <3>1. pc0 = "load" /\ UNCHANGED <<pc0, pc1>>
      BY <2>3 DEF LoadStep
    <3>2. CASE ReadHeader \/ ReadPage
      BY <3>1, <3>2 DEF ReadHeader, ReadPage
    <3>3. CASE HeaderFails \/ EmptyFile \/ PageFails
      <4>1. Gate!Fail
        BY <3>1, <3>3 DEF HeaderFails, EmptyFile, PageFails, Gate!Fail
      <4> QED BY <4>1 DEF Gate!Next
    <3>4. CASE Done
      <4>1. Gate!Load
        BY <3>1, <3>4 DEF Done, Gate!Load
      <4> QED BY <4>1 DEF Gate!Next
    <3> QED BY <2>3, <3>2, <3>3, <3>4 DEF LoadStep
  <2>4. CASE SendGo
    BY <2>4 DEF SendGo, Store
  <2>5. CASE RunImage
    <3>1. pc = "ok"
      BY <2>0, <2>5 DEF RunImage, PhaseInv
    <3>2. Gate!EnterLoader
      BY <2>5, <3>1 DEF RunImage, Gate!EnterLoader
    <3> QED BY <3>2 DEF Gate!Next
  <2>6. CASE ImageReturns
    <3>1. Gate!LeaveLoader
      BY <2>6 DEF ImageReturns, Gate!LeaveLoader
    <3> QED BY <3>1 DEF Gate!Next
  <2>7. CASE RomWake
    BY <2>7 DEF RomWake
  <2>8. CASE ClearFirst \/ FenceFirst \/ Wfi \/ CheckMip \/ ClearSecond
    BY <2>8 DEF ClearFirst, FenceFirst, Wfi, CheckMip, ClearSecond
  <2>9. CASE FenceSecond
    <3>1. Released
      BY <1>2, <2>9, GoIsSent DEF FenceSecond
    <3>2. pc = "ok"
      BY <2>0, <3>1 DEF PhaseInv
    <3>3. Gate!EnterOther
      BY <2>9, <3>1, <3>2 DEF FenceSecond, Gate!EnterOther
    <3> QED BY <3>3 DEF Gate!Next
  <2>10. CASE DrainHartZero
    <3>1. UNCHANGED <<pc0, pc1, pc>> /\ pend0' \subseteq pend0
      BY <2>10 DEF DrainHartZero
    <3>2. UNCHANGED gateInside
      BY <3>1
    <3>3. CASE Released
      BY <3>1, <3>2, <3>3
    <3>4. CASE ~Released /\ ~Released'
      BY <3>1, <3>2, <3>4
    <3>5. CASE ~Released /\ Released'
      <4>1. pc = "ok"
        BY <2>0, <3>1, <3>5 DEF PhaseInv
      <4>2. gateStage = "loaded" /\ gateStage' = "released"
        BY <3>1, <3>5, <4>1
      <4> QED BY <3>2, <4>2 DEF Gate!Next, Gate!Release
    <3> QED BY <3>3, <3>4, <3>5
  <2>11. CASE DrainHartOne \/ UNCHANGED vars
    BY <2>11 DEF DrainHartOne, vars
  <2> QED
    BY <1>2, <2>1, <2>2, <2>3, <2>4, <2>5, <2>6, <2>7, <2>8, <2>9, <2>10,
       <2>11 DEF Next, HartZero, HartOne
<1> QED BY <1>1, <1>2, Inductive, PTL
        DEF Spec, SafeSpec, Gate!Spec, ImplementsGate

-----------------------------------------------------------------------------
(* What two fences would restore.  The program has neither of them.        *)

\* A fence before the interrupt of bootmain.c:115 is enough for hart 1 to
\* find the whole image.
LEMMA FenceForImage == ASSUME ImageFirst PROVE Spec => []EntersWholeImage
<1>1. ASSUME LoadIInv, IInv PROVE EntersWholeImage
  <2>1. ASSUME "image" \in {pc0, pc1}
        PROVE  \A p \in 0 .. endPage : p \in image \/ PageStore(p) \in pend0
    <3>1. pc0 \in {"run", "image", "returned"}
      BY <1>1, <2>1, GoIsSent
    <3>2. pc = "ok"
      BY <1>1, <3>1 DEF IInv, PhaseInv
    <3> QED BY <1>1, <3>2, LoadedImage
  <2>2. ASSUME pc1 = "image", NEW p \in 0 .. endPage
        PROVE  PageStore(p) \notin pend0
    <3>1. Issued(GoStore) /\ GoStore \notin pend0
      BY <1>1, <2>2, GoIsSent
    <3>2. p \in 0 .. MaxPages /\ PageStore(p) < GoStore /\ GoStore \in Stores
      BY <1>1, LoadBounds, MaxPagesNat DEF PageStore, GoStore, Stores
    <3>3. Kept(PageStore(p), GoStore)
      BY <3>2 DEF Kept, ImageFirst
    <3> QED BY <1>1, <3>1, <3>2, <3>3 DEF IInv, OrderInv
  <2> QED BY <2>1, <2>2 DEF EntersWholeImage
<1> QED BY <1>1, Inductive, PTL

\* A fence between bootmain.c:189 and 190 is enough for hart 1 to find its
\* entry point in the mailbox.
LEMMA FenceForMailbox == ASSUME MailboxFirst PROVE Spec => [](pc1 # "wild")
<1>1. IInv => pc1 # "wild"
  BY DEF IInv, RomInv
<1> QED BY <1>1, Inductive, PTL
=============================================================================
