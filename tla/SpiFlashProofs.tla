--------------------------- MODULE SpiFlashProofs ---------------------------
(***************************************************************************)
(* Proofs about SpiFlash, for every size of flash, page and erase unit,    *)
(* every call and every failure.                                           *)
(***************************************************************************)
EXTENDS SpiFlash, Integers, TLAPS

End(c) == c.start + c.len

\* What each place in the driver says of the call.
Kinds ==
    /\ pc # "free" => op \in Calls
    /\ pc = "erase" => op.kind = "erase"
    /\ pc \in {"enabled", "program"} => op.kind = "program"
    /\ pc \in {"loop", "enable", "ready", "disable"} =>
         op.kind \in {"erase", "program"}
    /\ pc = "read" => op.kind = "read"
    /\ pc \in {"check", "statusEnable", "statusWrite", "statusReady",
               "statusDisable"} => at = op.start
    /\ pc \in {"enable", "enabled", "erase", "program", "ready", "disable"} =>
         at < End(op)

\* An erase that was not refused is at the start of a unit, and ends at one.
Multiple(n) == \E k \in Nat : n = k * op.unit
Aligned ==
    op.kind = "erase" /\ pc \notin {"free", "check", "return"} =>
        Multiple(at) /\ Multiple(End(op))

\* What the chip is about to change was asked for.
Permitted ==
    /\ pc # "free" /\ op.kind \in {"erase", "program"} => Region(op) \subseteq asked
    /\ Size <= AddrMod => DOMAIN job \subseteq asked

\* A unit or a chunk that is done leaves the chip idle, its latch clear.
Closed ==
    /\ pc = "disable" => ~wip
    /\ pc = "loop" /\ at > op.start => ~wip /\ ~wel
    /\ pc = "return" /\ ret = "ok" /\ op.kind \in {"erase", "program"} /\ op.len > 0 =>
         ~wip /\ ~wel

\* What the chip is about to store is a content.
Stored == \A a \in DOMAIN job : job[a] \in Contents

IInv == TypeOK /\ Stored /\ Kinds /\ Aligned /\ Permitted /\ Closed

-----------------------------------------------------------------------------
(* Arithmetic.                                                             *)

LEMMA WholeUnits ==
    ASSUME NEW u \in Nat, u > 0, NEW n \in Nat, n % u = 0
    PROVE  \E k \in Nat : n = k * u
<1>1. n \div u \in Nat /\ n = (n \div u) * u
  OBVIOUS
<1> QED BY <1>1

LEMMA NextUnit ==
    ASSUME NEW u \in Nat, u > 0, NEW k \in Nat, NEW m \in Nat, k * u < m * u
    PROVE  k * u + u <= m * u /\ k * u + u = (k + 1) * u
<1>1. k < m
  <2> SUFFICES ASSUME m <= k PROVE FALSE
    OBVIOUS
  <2>1. (k - m) * u \in Nat /\ k * u = m * u + (k - m) * u
    OBVIOUS
  <2> QED BY <2>1
<1>2. (m - k - 1) * u \in Nat /\ m * u = (k + 1) * u + (m - k - 1) * u
  BY <1>1
<1>3. (k + 1) * u = k * u + u
  OBVIOUS
<1> QED BY <1>2, <1>3

LEMMA BaseOfUnit ==
    ASSUME NEW u \in Nat, u > 0, NEW k \in Nat
    PROVE  ((k * u) \div u) * u = k * u
OBVIOUS

LEMMA Remainder ==
    ASSUME NEW p \in Nat, p > 0, NEW q \in Nat, NEW r \in 0 .. p - 1
    PROVE  (q * p + r) % p = r
OBVIOUS

LEMMA WithinPage ==
    ASSUME NEW a \in Nat, NEW j \in Nat, j < PageSize - (a % PageSize)
    PROVE  InPage(a, j) = a + j
<1>1. PageSize \in Nat /\ PageSize > 0
  BY PageSizeAssumption
<1> DEFINE q == a \div PageSize
          r == a % PageSize
<1>3. q \in Nat /\ r \in 0 .. PageSize - 1 /\ a = q * PageSize + r
  BY <1>1
<1>2. (a + j) % PageSize = r + j
  <2>1. r + j \in 0 .. PageSize - 1 /\ a + j = q * PageSize + (r + j)
    BY <1>1, <1>3
  <2> HIDE DEF q, r
  <2> QED BY <1>1, <1>3, <2>1, Remainder
<1> QED BY <1>1, <1>2, <1>3 DEF InPage

LEMMA CallTypes ==
    ASSUME NEW c \in Calls
    PROVE  /\ c.start \in 0 .. Size - 1 /\ c.len \in 0 .. Size
           /\ c.kind \in {"erase", "program", "read"} /\ c # NoCall
           /\ c.start + c.len <= Size /\ Region(c) \subseteq Address
           /\ c.kind = "erase" => c.unit \in 1 .. Size
           /\ c.kind # "erase" => c.mode \in Nat
<1>1. c \in CallSet /\ c.start + c.len <= Size
  BY CallsAssumption
<1>2. Size \in Nat /\ Size > 0
  BY SizeAssumption
<1>3. /\ c.start \in 0 .. Size - 1 /\ c.len \in 0 .. Size
      /\ c.kind \in {"erase", "program", "read"}
      /\ c.kind = "erase" => c.unit \in 1 .. Size
      /\ c.kind # "erase" => c.mode \in Nat
  BY <1>1, <1>2 DEF CallSet
<1>4. Region(c) \subseteq Address
  BY <1>1, <1>2, <1>3 DEF Region, Address
<1>5. c # NoCall
  BY <1>3 DEF NoCall
<1> QED BY <1>1, <1>3, <1>4, <1>5

LEMMA ChunkBounds ==
    ASSUME TypeOK, Kinds, pc \in {"program", "disable", "ready"}
    PROVE  /\ ChunkLen \in Nat /\ ChunkLen > 0 /\ at \in Nat /\ End(op) \in Nat
           /\ ChunkLen <= PageSize - (at % PageSize)
           /\ at + ChunkLen <= End(op)
<1>1. op \in Calls /\ at < End(op) /\ at \in op.start .. op.start + op.len
  BY DEF TypeOK, Kinds
<1>2. op.start \in Nat /\ op.len \in Nat
  BY <1>1, CallTypes, SizeAssumption
<1>3. at % PageSize \in 0 .. PageSize - 1 /\ PageSize \in Nat
  BY <1>1, <1>2, PageSizeAssumption
<1> QED BY <1>1, <1>2, <1>3 DEF ChunkLen, Least, End

\* A step of an erase stays in its region, and at the start of a unit.
LEMMA UnitBounds ==
    ASSUME TypeOK, Kinds, Aligned, op.kind = "erase", pc \in {"erase", "ready", "disable"}
    PROVE  /\ op.unit \in Nat /\ op.unit > 0 /\ at \in Nat /\ End(op) \in Nat
           /\ at + op.unit <= End(op) /\ Multiple(at + op.unit)
           /\ (at \div op.unit) * op.unit = at
<1>1. op \in Calls /\ at < End(op) /\ at \in op.start .. op.start + op.len
      /\ Multiple(at) /\ Multiple(End(op))
  BY DEF TypeOK, Kinds, Aligned
<1>2. op.start \in Nat /\ op.len \in Nat /\ op.unit \in Nat /\ op.unit > 0
  BY <1>1, CallTypes, SizeAssumption
<1>3. PICK k \in Nat : at = k * op.unit
  BY <1>1 DEF Multiple
<1>4. PICK m \in Nat : End(op) = m * op.unit
  BY <1>1 DEF Multiple
<1>5. at + op.unit <= End(op) /\ at + op.unit = (k + 1) * op.unit
  BY <1>1, <1>2, <1>3, <1>4, NextUnit
<1>6. Multiple(at + op.unit)
  BY <1>5 DEF Multiple
<1>7. (at \div op.unit) * op.unit = at
  BY <1>2, <1>3, BaseOfUnit
<1>8. at \in Nat /\ End(op) \in Nat
  BY <1>1, <1>2 DEF End
<1> QED BY <1>2, <1>5, <1>6, <1>7, <1>8

\* The program of a chunk stays in the chunk, the erase of a unit in the unit.
LEMMA ProgramsWithin ==
    ASSUME TypeOK, Kinds, pc = "program", Size <= AddrMod
    PROVE  DOMAIN Programs(Sent(at), ChunkLen) \subseteq Region(op)
<1>1. /\ ChunkLen \in Nat /\ at \in Nat /\ End(op) \in Nat
      /\ ChunkLen <= PageSize - (at % PageSize) /\ at + ChunkLen <= End(op)
  BY ChunkBounds
<1>2. Sent(at) = at
  <2>1. at < Size
    BY <1>1, CallTypes, SizeAssumption DEF Kinds, End
  <2> QED BY <1>1, <2>1, AddrModAssumption, SizeAssumption DEF Sent
<1>3. ASSUME NEW j \in 0 .. ChunkLen - 1 PROVE InPage(at, j) = at + j
  <2>1. at % PageSize \in Nat /\ PageSize \in Nat
    BY <1>1, PageSizeAssumption
  <2>2. j \in Nat /\ j < PageSize - (at % PageSize)
    BY <1>1, <2>1
  <2> QED BY <1>1, <2>2, WithinPage
<1>4. op.start \in Nat /\ op.len \in Nat /\ at >= op.start
  BY CallTypes, SizeAssumption DEF TypeOK, Kinds
<1>5. \A j \in 0 .. ChunkLen - 1 : InPage(at, j) \in Region(op)
  BY <1>1, <1>3, <1>4 DEF Region, End
<1>6. DOMAIN Programs(at, ChunkLen) = {InPage(at, j) : j \in 0 .. ChunkLen - 1}
  BY DEF Programs
<1> QED BY <1>2, <1>5, <1>6

LEMMA ErasesWithin ==
    ASSUME TypeOK, Kinds, Aligned, pc = "erase", Size <= AddrMod
    PROVE  DOMAIN ErasesUnit(Sent(at)) \subseteq Region(op)
<1>1. op.kind = "erase"
  BY DEF Kinds
<1>2. /\ op.unit \in Nat /\ op.unit > 0 /\ at \in Nat /\ End(op) \in Nat
      /\ at + op.unit <= End(op) /\ (at \div op.unit) * op.unit = at
  BY <1>1, UnitBounds
<1>3. Sent(at) = at
  <2>1. at < Size
    BY <1>2, CallTypes, SizeAssumption DEF Kinds, End
  <2> QED BY <1>2, <2>1, AddrModAssumption, SizeAssumption DEF Sent
<1>4. DOMAIN ErasesUnit(at) = (at .. at + op.unit - 1) \intersect Address
  BY <1>2 DEF ErasesUnit
<1>5. op.start \in Nat /\ op.len \in Nat /\ at >= op.start
  BY CallTypes, SizeAssumption DEF TypeOK, Kinds
<1> QED BY <1>2, <1>3, <1>4, <1>5 DEF Region, End

\* Wherever the address goes, a command stays inside the flash.
LEMMA ProgramsInside ==
    ASSUME TypeOK, Kinds, pc = "program"
    PROVE  /\ DOMAIN Programs(Sent(at), ChunkLen) \subseteq Address
           /\ \A b \in DOMAIN Programs(Sent(at), ChunkLen) :
                Programs(Sent(at), ChunkLen)[b] \in Contents
<1> DEFINE a == Sent(at)
          n == ChunkLen
          P == {InPage(a, j) : j \in 0 .. n - 1}
<1>1. /\ n \in Nat /\ at \in Nat /\ End(op) \in Nat /\ at + n <= End(op)
      /\ op.start \in Nat /\ op.len \in Nat /\ at >= op.start /\ n > 0
      /\ op.start + op.len <= Size
  BY ChunkBounds, CallTypes, SizeAssumption DEF TypeOK, Kinds
<1>2. a \in Nat /\ a < Size
  BY <1>1, AddrModAssumption, SizeAssumption DEF Sent, End
<1>3. PageSize \in Nat /\ PageSize > 0 /\ Size \in Nat
  BY PageSizeAssumption, SizeAssumption
<1>4. PICK m \in Nat : Size = m * PageSize
  BY <1>3, WholeUnits, SizeAssumption
<1>5. a \div PageSize \in Nat /\ (a \div PageSize) * PageSize <= a
      /\ (a \div PageSize) * PageSize \in Nat
  BY <1>2, <1>3
<1>6. (a \div PageSize) * PageSize + PageSize <= Size
  <2>1. (a \div PageSize) * PageSize < m * PageSize
    BY <1>2, <1>3, <1>4, <1>5
  <2> QED BY <1>3, <1>4, <1>5, <2>1, NextUnit
<1>7. ASSUME NEW j \in 0 .. n - 1 PROVE InPage(a, j) \in Address
  <2>1. (a + j) % PageSize \in 0 .. PageSize - 1
    BY <1>1, <1>2, <1>3
  <2> QED BY <1>3, <1>5, <1>6, <2>1 DEF InPage, Address
<1>8. ASSUME NEW b \in P
      PROVE  Byte(at - op.start + (CHOOSE j \in 0 .. n - 1 : InPage(a, j) = b)) \in Contents
  <2>1. \E j \in 0 .. n - 1 : InPage(a, j) = b
    BY <1>8
  <2>2. (CHOOSE j \in 0 .. n - 1 : InPage(a, j) = b) \in 0 .. n - 1
    BY <2>1, Zenon
  <2>3. \A j \in 0 .. n - 1 : at - op.start + j + 2 \in 0 .. Size + 1
    BY <1>1, <1>3 DEF End
  <2> QED BY <2>2, <2>3 DEF Byte, Contents
<1>9. Junk \in Contents
  BY <1>3 DEF Junk, Contents
<1>10. Programs(a, n) =
         [b \in P |-> IF cells[b] # Erased THEN Junk
                     ELSE Byte(at - op.start + (CHOOSE j \in 0 .. n - 1 : InPage(a, j) = b))]
  BY DEF Programs
<1> HIDE DEF a, n
<1>11. DOMAIN Programs(a, n) = P
  BY <1>10
<1>12. P \subseteq Address
  BY <1>7
<1>13. \A b \in P : Programs(a, n)[b] \in Contents
  BY <1>8, <1>9, <1>10
<1> QED BY <1>11, <1>12, <1>13 DEF a, n

LEMMA ErasesInside ==
    ASSUME NEW a
    PROVE  /\ DOMAIN ErasesUnit(a) \subseteq Address
           /\ \A b \in DOMAIN ErasesUnit(a) : ErasesUnit(a)[b] \in Contents
BY SizeAssumption DEF ErasesUnit, Erased, Contents

-----------------------------------------------------------------------------
(* The chip.                                                               *)

ChipTypes ==
    /\ cells \in [Address -> Contents] /\ wel \in BOOLEAN /\ wip \in BOOLEAN
    /\ DOMAIN job \subseteq Address /\ (~wip => job = Nothing)
    /\ Stored

\* Whatever the driver sends, the chip stays well typed.
LEMMA ChipSteps ==
    ASSUME ChipTypes
    PROVE  /\ ChipEnables => ChipTypes' /\ job' = job /\ wip' = wip
           /\ ChipDisables => ChipTypes' /\ job' = job /\ wip' = wip
           /\ ChipAtWork => ChipTypes' /\ job' = job /\ wip' = wip
           /\ UNCHANGED chip => ChipTypes' /\ job' = job /\ wip' = wip
<1> USE DEF ChipTypes, Stored
<1>1. ChipEnables => ChipTypes' /\ job' = job /\ wip' = wip
  BY DEF ChipEnables
<1>2. ChipDisables => ChipTypes' /\ job' = job /\ wip' = wip
  BY DEF ChipDisables
<1>3. ChipAtWork => ChipTypes' /\ job' = job /\ wip' = wip
  BY DEF ChipAtWork, chip
<1>4. UNCHANGED chip => ChipTypes' /\ job' = job /\ wip' = wip
  BY DEF chip
<1> QED BY <1>1, <1>2, <1>3, <1>4

LEMMA ChipStartsTypes ==
    ASSUME ChipTypes, NEW j, DOMAIN j \subseteq Address,
           \A b \in DOMAIN j : j[b] \in Contents,
           ChipStarts(j) \/ UNCHANGED chip
    PROVE  ChipTypes' /\ (job' = job \/ job' = j)
<1>1. CASE wip' = TRUE /\ job' = j /\ UNCHANGED <<cells, wel>>
  BY <1>1 DEF ChipTypes, Stored
<1>2. CASE UNCHANGED chip
  BY <1>2 DEF chip, ChipTypes, Stored
<1> QED BY <1>1, <1>2 DEF ChipStarts

LEMMA NothingTypes ==
    /\ DOMAIN Nothing = {} /\ DOMAIN Nothing \subseteq Address
    /\ \A b \in DOMAIN Nothing : Nothing[b] \in Contents
BY DEF Nothing

-----------------------------------------------------------------------------
(* The invariant.                                                          *)

LEMMA InitInv == Init => IInv
<1> SUFFICES ASSUME Init PROVE IInv
  OBVIOUS
<1>1. Size \in Nat /\ Size > 0 /\ Erased \in Contents /\ Junk \in Contents
      /\ 0 \in 0 .. Timeout - 1 /\ 0 \in 0 .. MaxCalls
      /\ 0 \in 0 .. 0 + 0
  BY SizeAssumption, TimeoutAssumption, MaxCallsAssumption
     DEF Erased, Junk, Contents
<1>2. NoCall.start = 0 /\ NoCall.len = 0
  BY DEF NoCall
<1>3. cells \in [Address -> Contents]
  BY <1>1 DEF Init
<1>4. TypeOK
  BY <1>1, <1>2, <1>3, NothingTypes DEF Init, TypeOK
<1>5. Stored /\ Kinds /\ Aligned /\ Permitted /\ Closed
  BY NothingTypes DEF Init, Stored, Kinds, Aligned, Permitted, Closed
<1> QED BY <1>4, <1>5 DEF IInv

LEMMA NextInv == IInv /\ [Next]_vars => IInv'
<1> SUFFICES ASSUME IInv, [Next]_vars PROVE IInv'
  OBVIOUS
<1>0. /\ TypeOK /\ ChipTypes /\ Kinds /\ Aligned /\ Permitted /\ Closed
      /\ Timeout \in Nat /\ Timeout > 0 /\ MaxCalls \in Nat /\ Size \in Nat
      /\ 0 \in 0 .. Timeout - 1
  BY TimeoutAssumption, MaxCallsAssumption, SizeAssumption DEF IInv, TypeOK, ChipTypes
<1>a. pc # "free" =>
        /\ op \in Calls /\ op.kind \in {"erase", "program", "read"}
        /\ op.start \in Nat /\ op.len \in Nat /\ at \in Nat
        /\ at \in op.start .. op.start + op.len
  BY <1>0, CallTypes DEF Kinds, TypeOK
<1> USE DEF chip, history, driver
<1>1. CASE Call
  <2>1. ChipTypes'
    BY <1>0, <1>1, ChipSteps DEF Call, Smooth, GoTo, GoOn, Fail, Broken, AfterStatus
  <2>2. TypeOK'
    <3>1. op' \in Calls /\ at' = op'.start
      BY <1>1 DEF Call
    <3>2. at' \in op'.start .. op'.start + op'.len /\ Region(op') \subseteq Address
      BY <3>1, CallTypes, SizeAssumption
    <3>3. asked' \subseteq Address
      BY <1>0, <1>1, <3>2 DEF Call, TypeOK
    <3> QED BY <1>0, <1>1, <2>1, <3>1, <3>2, <3>3 DEF Call, TypeOK, ChipTypes
  <2>3. Kinds'
    BY <1>0, <1>1 DEF Call, Smooth, GoTo, GoOn, Fail, Broken, AfterStatus, Kinds, End
  <2>4. Aligned'
    BY <1>0, <1>1 DEF Call, Smooth, GoTo, GoOn, Fail, Broken, AfterStatus, Aligned, Multiple, End
  <2>5. Permitted'
    BY <1>0, <1>1, ChipSteps DEF Call, Smooth, GoTo, GoOn, Fail, Broken, AfterStatus, Permitted, Kinds, Region
  <2>6. Closed'
    BY <1>0, <1>1, ChipSteps DEF Call, Smooth, GoTo, GoOn, Fail, Broken, AfterStatus, Closed, Kinds, TypeOK
  <2> QED BY <2>1, <2>2, <2>3, <2>4, <2>5, <2>6 DEF IInv, ChipTypes
<1>2. CASE Refuse
  <2>1. ChipTypes'
    BY <1>0, <1>2, ChipSteps DEF Refuse, Smooth, GoTo, GoOn, Fail, Broken, AfterStatus
  <2>2. TypeOK'
    BY <1>0, <1>2, <2>1 DEF Refuse, Smooth, GoTo, GoOn, Fail, Broken, AfterStatus, TypeOK, ChipTypes
  <2>3. Kinds'
    BY <1>0, <1>2 DEF Refuse, Smooth, GoTo, GoOn, Fail, Broken, AfterStatus, Kinds, End
  <2>4. Aligned'
    BY <1>0, <1>2 DEF Refuse, Smooth, GoTo, GoOn, Fail, Broken, AfterStatus, Aligned, Multiple, End
  <2>5. Permitted'
    BY <1>0, <1>2, ChipSteps DEF Refuse, Smooth, GoTo, GoOn, Fail, Broken, AfterStatus, Permitted, Kinds, Region
  <2>6. Closed'
    BY <1>0, <1>2, ChipSteps DEF Refuse, Smooth, GoTo, GoOn, Fail, Broken, AfterStatus, Closed, Kinds, TypeOK
  <2> QED BY <2>1, <2>2, <2>3, <2>4, <2>5, <2>6 DEF IInv, ChipTypes
<1>3. CASE Accept
  <2>1. ChipTypes'
    BY <1>0, <1>3, ChipSteps DEF Accept, Smooth, GoTo, GoOn, Fail, Broken, AfterStatus
  <2>2. TypeOK'
    BY <1>0, <1>3, <2>1 DEF Accept, Smooth, GoTo, GoOn, Fail, Broken, AfterStatus, TypeOK, ChipTypes
  <2>3. Kinds'
    BY <1>0, <1>a, <1>3 DEF Accept, Smooth, GoTo, GoOn, Fail, Broken, AfterStatus, Kinds, End
  <2>4. Aligned'
    <3>1. /\ op' = op /\ at' = op.start /\ pc = "check" /\ at = op.start
          /\ op.kind = "erase" => op.start % op.unit = 0 /\ op.len % op.unit = 0
      BY <1>0, <1>3 DEF Accept, GoTo, Smooth, Misaligned, Kinds
    <3>2. ASSUME op.kind = "erase" PROVE Multiple(op.start) /\ Multiple(End(op))
      <4>1. op.unit \in Nat /\ op.unit > 0
        BY <1>0, <1>a, <3>1, <3>2, CallTypes
      <4>2. PICK k \in Nat : op.start = k * op.unit
        BY <1>a, <3>1, <3>2, <4>1, WholeUnits
      <4>3. PICK m \in Nat : op.len = m * op.unit
        BY <1>a, <3>1, <3>2, <4>1, WholeUnits
      <4>4. k + m \in Nat /\ op.start + op.len = (k + m) * op.unit
        BY <4>1, <4>2, <4>3
      <4> QED BY <4>2, <4>4 DEF Multiple, End
    <3> QED BY <3>1, <3>2 DEF Aligned, Multiple, End
  <2>5. Permitted'
    BY <1>0, <1>3, ChipSteps DEF Accept, Smooth, GoTo, GoOn, Fail, Broken, AfterStatus, Permitted, Kinds, Region
  <2>6. Closed'
    BY <1>0, <1>a, <1>3 DEF Accept, Smooth, GoTo, GoOn, Fail, Broken, AfterStatus, Closed, Kinds
  <2> QED BY <2>1, <2>2, <2>3, <2>4, <2>5, <2>6 DEF IInv, ChipTypes
<1>4. CASE StatusEnable
  <2>1. ChipTypes'
    BY <1>0, <1>4, ChipSteps DEF StatusEnable, Smooth, GoTo, GoOn, Fail, Broken, AfterStatus
  <2>2. TypeOK'
    BY <1>0, <1>4, <2>1 DEF StatusEnable, Smooth, GoTo, GoOn, Fail, Broken, AfterStatus, TypeOK, ChipTypes
  <2>3. Kinds'
    BY <1>0, <1>a, <1>4 DEF StatusEnable, Smooth, GoTo, GoOn, Fail, Broken, AfterStatus, Kinds, End
  <2>4. Aligned'
    BY <1>0, <1>4 DEF StatusEnable, Smooth, GoTo, GoOn, Fail, Broken, AfterStatus, Aligned, Multiple, End
  <2>5. Permitted'
    BY <1>0, <1>4, ChipSteps DEF StatusEnable, Smooth, GoTo, GoOn, Fail, Broken, AfterStatus, Permitted, Kinds, Region
  <2>6. Closed'
    BY <1>0, <1>a, <1>4 DEF StatusEnable, Smooth, GoTo, GoOn, Fail, Broken, AfterStatus, Closed, Kinds
  <2> QED BY <2>1, <2>2, <2>3, <2>4, <2>5, <2>6 DEF IInv, ChipTypes
<1>5. CASE StatusWrite
  <2>1. ChipTypes'
    BY <1>0, <1>5, ChipStartsTypes, NothingTypes DEF StatusWrite, Broken
  <2>2. TypeOK'
    BY <1>0, <1>5, <2>1 DEF StatusWrite, Smooth, GoTo, GoOn, Fail, Broken, AfterStatus, TypeOK, ChipTypes
  <2>3. Kinds'
    BY <1>0, <1>a, <1>5 DEF StatusWrite, Smooth, GoTo, GoOn, Fail, Broken, AfterStatus, Kinds, End
  <2>4. Aligned'
    BY <1>0, <1>5 DEF StatusWrite, Smooth, GoTo, GoOn, Fail, Broken, AfterStatus, Aligned, Multiple, End
  <2>5. Permitted'
    <3>1. job' = job \/ job' = Nothing
      BY <1>0, <1>5, ChipStartsTypes, NothingTypes DEF StatusWrite, Broken
    <3> QED BY <1>0, <1>5, <3>1, NothingTypes
            DEF StatusWrite, Smooth, GoTo, GoOn, Fail, Broken, AfterStatus, Permitted, Region
  <2>6. Closed'
    BY <1>0, <1>a, <1>5 DEF StatusWrite, Smooth, GoTo, GoOn, Fail, Broken, AfterStatus, Closed, Kinds
  <2> QED BY <2>1, <2>2, <2>3, <2>4, <2>5, <2>6 DEF IInv, ChipTypes
<1>6. CASE StatusReady
  <2>1. ChipTypes'
    BY <1>0, <1>6, ChipSteps DEF StatusReady, Smooth, GoTo, GoOn, Fail, Broken, AfterStatus
  <2>2. TypeOK'
    <3>1. polls' \in 0 .. Timeout - 1
      BY <1>0, <1>6 DEF StatusReady, TypeOK
    <3>2. op' = op /\ at' = at /\ calls' = calls /\ got' = got /\ asked' = asked
          /\ before' = before /\ ret' \in {ret, "error"}
      BY <1>6 DEF StatusReady, Smooth, GoTo, GoOn, Fail, Broken, AfterStatus
    <3>3. pc' \in {pc, "statusDisable", "read", "loop", "program", "disable", "return"}
      BY <1>6 DEF StatusReady, Smooth, GoTo, GoOn, Fail, Broken, AfterStatus
    <3>4. trouble' \in BOOLEAN
      BY <1>0, <1>6 DEF StatusReady, Smooth, GoTo, GoOn, Fail, Broken, AfterStatus, TypeOK
    <3> QED BY <1>0, <2>1, <3>1, <3>2, <3>3, <3>4 DEF TypeOK, ChipTypes
  <2>3. Kinds'
    BY <1>0, <1>a, <1>6 DEF StatusReady, Smooth, GoTo, GoOn, Fail, Broken, AfterStatus, Kinds, End
  <2>4. Aligned'
    BY <1>0, <1>6 DEF StatusReady, Smooth, GoTo, GoOn, Fail, Broken, AfterStatus, Aligned, Multiple, End
  <2>5. Permitted'
    BY <1>0, <1>6, ChipSteps DEF StatusReady, Smooth, GoTo, GoOn, Fail, Broken, AfterStatus, Permitted, Kinds, Region
  <2>6. Closed'
    BY <1>0, <1>a, <1>6 DEF StatusReady, Smooth, GoTo, GoOn, Fail, Broken, AfterStatus, Closed, Kinds
  <2> QED BY <2>1, <2>2, <2>3, <2>4, <2>5, <2>6 DEF IInv, ChipTypes
<1>7. CASE StatusDisable
  <2>1. ChipTypes'
    BY <1>0, <1>7, ChipSteps DEF StatusDisable, Smooth, GoTo, GoOn, Fail, Broken, AfterStatus
  <2>2. TypeOK'
    BY <1>0, <1>7, <2>1 DEF StatusDisable, Smooth, GoTo, GoOn, Fail, Broken, AfterStatus, TypeOK, ChipTypes
  <2>3. Kinds'
    BY <1>0, <1>a, <1>7 DEF StatusDisable, Smooth, GoTo, GoOn, Fail, Broken, AfterStatus, Kinds, End
  <2>4. Aligned'
    BY <1>0, <1>7 DEF StatusDisable, Smooth, GoTo, GoOn, Fail, Broken, AfterStatus, Aligned, Multiple, End
  <2>5. Permitted'
    BY <1>0, <1>7, ChipSteps DEF StatusDisable, Smooth, GoTo, GoOn, Fail, Broken, AfterStatus, Permitted, Kinds, Region
  <2>6. Closed'
    BY <1>0, <1>a, <1>7 DEF StatusDisable, Smooth, GoTo, GoOn, Fail, Broken, AfterStatus, Closed, Kinds
  <2> QED BY <2>1, <2>2, <2>3, <2>4, <2>5, <2>6 DEF IInv, ChipTypes
<1>8. CASE LoopEnds
  <2>1. ChipTypes'
    BY <1>0, <1>8, ChipSteps DEF LoopEnds, Smooth, GoTo, GoOn, Fail, Broken, AfterStatus
  <2>2. TypeOK'
    BY <1>0, <1>8, <2>1 DEF LoopEnds, Smooth, GoTo, GoOn, Fail, Broken, AfterStatus, TypeOK, ChipTypes
  <2>3. Kinds'
    BY <1>0, <1>8 DEF LoopEnds, Smooth, GoTo, GoOn, Fail, Broken, AfterStatus, Kinds, End
  <2>4. Aligned'
    BY <1>0, <1>8 DEF LoopEnds, Smooth, GoTo, GoOn, Fail, Broken, AfterStatus, Aligned, Multiple, End
  <2>5. Permitted'
    BY <1>0, <1>8, ChipSteps DEF LoopEnds, Smooth, GoTo, GoOn, Fail, Broken, AfterStatus, Permitted, Kinds, Region
  <2>6. Closed'
    BY <1>0, <1>a, <1>8 DEF LoopEnds, Smooth, GoTo, GoOn, Fail, Broken, AfterStatus, Closed, Kinds
  <2> QED BY <2>1, <2>2, <2>3, <2>4, <2>5, <2>6 DEF IInv, ChipTypes
<1>9. CASE LoopBody
  <2>1. ChipTypes'
    BY <1>0, <1>9, ChipSteps DEF LoopBody, Smooth, GoTo, GoOn, Fail, Broken, AfterStatus
  <2>2. TypeOK'
    BY <1>0, <1>9, <2>1 DEF LoopBody, Smooth, GoTo, GoOn, Fail, Broken, AfterStatus, TypeOK, ChipTypes
  <2>3. Kinds'
    BY <1>0, <1>9 DEF LoopBody, Smooth, GoTo, GoOn, Fail, Broken, AfterStatus, Kinds, End
  <2>4. Aligned'
    BY <1>0, <1>9 DEF LoopBody, Smooth, GoTo, GoOn, Fail, Broken, AfterStatus, Aligned, Multiple, End
  <2>5. Permitted'
    BY <1>0, <1>9, ChipSteps DEF LoopBody, Smooth, GoTo, GoOn, Fail, Broken, AfterStatus, Permitted, Kinds, Region
  <2>6. Closed'
    BY <1>0, <1>9, ChipSteps DEF LoopBody, Smooth, GoTo, GoOn, Fail, Broken, AfterStatus, Closed, Kinds, TypeOK
  <2> QED BY <2>1, <2>2, <2>3, <2>4, <2>5, <2>6 DEF IInv, ChipTypes
<1>10. CASE Enable
  <2>1. ChipTypes'
    BY <1>0, <1>10, ChipSteps DEF Enable, Smooth, GoTo, GoOn, Fail, Broken, AfterStatus
  <2>2. TypeOK'
    BY <1>0, <1>10, <2>1 DEF Enable, Smooth, GoTo, GoOn, Fail, Broken, AfterStatus, TypeOK, ChipTypes
  <2>3. Kinds'
    BY <1>0, <1>10 DEF Enable, Smooth, GoTo, GoOn, Fail, Broken, AfterStatus, Kinds, End
  <2>4. Aligned'
    BY <1>0, <1>10 DEF Enable, Smooth, GoTo, GoOn, Fail, Broken, AfterStatus, Aligned, Multiple, End
  <2>5. Permitted'
    BY <1>0, <1>10, ChipSteps DEF Enable, Smooth, GoTo, GoOn, Fail, Broken, AfterStatus, Permitted, Kinds, Region
  <2>6. Closed'
    BY <1>0, <1>10, ChipSteps DEF Enable, Smooth, GoTo, GoOn, Fail, Broken, AfterStatus, Closed, Kinds, TypeOK
  <2> QED BY <2>1, <2>2, <2>3, <2>4, <2>5, <2>6 DEF IInv, ChipTypes
<1>11. CASE WaitEnabled
  <2>1. ChipTypes'
    BY <1>0, <1>11, ChipSteps DEF WaitEnabled, Smooth, GoTo, GoOn, Fail, Broken, AfterStatus
  <2>2. TypeOK'
    <3>1. polls' \in 0 .. Timeout - 1
      BY <1>0, <1>11 DEF WaitEnabled, TypeOK
    <3>2. op' = op /\ at' = at /\ calls' = calls /\ got' = got /\ asked' = asked
          /\ before' = before /\ ret' \in {ret, "error"}
      BY <1>11 DEF WaitEnabled, Smooth, GoTo, GoOn, Fail, Broken, AfterStatus
    <3>3. pc' \in {pc, "statusDisable", "read", "loop", "program", "disable", "return"}
      BY <1>11 DEF WaitEnabled, Smooth, GoTo, GoOn, Fail, Broken, AfterStatus
    <3>4. trouble' \in BOOLEAN
      BY <1>0, <1>11 DEF WaitEnabled, Smooth, GoTo, GoOn, Fail, Broken, AfterStatus, TypeOK
    <3> QED BY <1>0, <2>1, <3>1, <3>2, <3>3, <3>4 DEF TypeOK, ChipTypes
  <2>3. Kinds'
    BY <1>0, <1>11 DEF WaitEnabled, Smooth, GoTo, GoOn, Fail, Broken, AfterStatus, Kinds, End
  <2>4. Aligned'
    BY <1>0, <1>11 DEF WaitEnabled, Smooth, GoTo, GoOn, Fail, Broken, AfterStatus, Aligned, Multiple, End
  <2>5. Permitted'
    BY <1>0, <1>11, ChipSteps DEF WaitEnabled, Smooth, GoTo, GoOn, Fail, Broken, AfterStatus, Permitted, Kinds, Region
  <2>6. Closed'
    BY <1>0, <1>11, ChipSteps DEF WaitEnabled, Smooth, GoTo, GoOn, Fail, Broken, AfterStatus, Closed, Kinds, TypeOK
  <2> QED BY <2>1, <2>2, <2>3, <2>4, <2>5, <2>6 DEF IInv, ChipTypes
<1>12. CASE EraseUnit
  <2>1. ChipTypes'
    BY <1>0, <1>12, ChipStartsTypes, ErasesInside DEF EraseUnit, Broken
  <2>2. TypeOK'
    BY <1>0, <1>12, <2>1 DEF EraseUnit, Smooth, GoTo, GoOn, Fail, Broken, AfterStatus, TypeOK, ChipTypes
  <2>3. Kinds'
    BY <1>0, <1>12 DEF EraseUnit, Smooth, GoTo, GoOn, Fail, Broken, AfterStatus, Kinds, End
  <2>4. Aligned'
    BY <1>0, <1>12 DEF EraseUnit, Smooth, GoTo, GoOn, Fail, Broken, AfterStatus, Aligned, Multiple, End
  <2>5. Permitted'
    <3>1. job' = job \/ job' = ErasesUnit(Sent(at))
      BY <1>0, <1>12, ChipStartsTypes, ErasesInside DEF EraseUnit, Broken
    <3>2. op' = op /\ asked' = asked /\ pc = "erase"
      BY <1>12 DEF EraseUnit, Smooth, GoTo, GoOn, Fail, Broken, AfterStatus
    <3>3. Size <= AddrMod => DOMAIN ErasesUnit(Sent(at)) \subseteq asked
      BY <1>0, <3>2, ErasesWithin DEF Kinds, Permitted
    <3> QED BY <1>0, <3>1, <3>2, <3>3 DEF Permitted, Region
  <2>6. Closed'
    BY <1>0, <1>12, ChipSteps DEF EraseUnit, Smooth, GoTo, GoOn, Fail, Broken, AfterStatus, Closed, Kinds, TypeOK
  <2> QED BY <2>1, <2>2, <2>3, <2>4, <2>5, <2>6 DEF IInv, ChipTypes
<1>13. CASE Program
  <2>1. ChipTypes'
    BY <1>0, <1>13, ChipStartsTypes, ProgramsInside DEF Program, Broken
  <2>2. TypeOK'
    BY <1>0, <1>13, <2>1 DEF Program, Smooth, GoTo, GoOn, Fail, Broken, AfterStatus, TypeOK, ChipTypes
  <2>3. Kinds'
    BY <1>0, <1>13 DEF Program, Smooth, GoTo, GoOn, Fail, Broken, AfterStatus, Kinds, End
  <2>4. Aligned'
    BY <1>0, <1>13 DEF Program, Smooth, GoTo, GoOn, Fail, Broken, AfterStatus, Aligned, Multiple, End
  <2>5. Permitted'
    <3>1. job' = job \/ job' = Programs(Sent(at), ChunkLen)
      BY <1>0, <1>13, ChipStartsTypes, ProgramsInside DEF Program, Broken
    <3>2. op' = op /\ asked' = asked /\ pc = "program"
      BY <1>13 DEF Program, Smooth, GoTo, GoOn, Fail, Broken, AfterStatus
    <3>3. Size <= AddrMod => DOMAIN Programs(Sent(at), ChunkLen) \subseteq asked
      BY <1>0, <3>2, ProgramsWithin DEF Kinds, Permitted
    <3> QED BY <1>0, <3>1, <3>2, <3>3 DEF Permitted, Region
  <2>6. Closed'
    BY <1>0, <1>13, ChipSteps DEF Program, Smooth, GoTo, GoOn, Fail, Broken, AfterStatus, Closed, Kinds, TypeOK
  <2> QED BY <2>1, <2>2, <2>3, <2>4, <2>5, <2>6 DEF IInv, ChipTypes
<1>14. CASE WaitReady
  <2>1. ChipTypes'
    BY <1>0, <1>14, ChipSteps DEF WaitReady, Smooth, GoTo, GoOn, Fail, Broken, AfterStatus
  <2>2. TypeOK'
    <3>1. polls' \in 0 .. Timeout - 1
      BY <1>0, <1>14 DEF WaitReady, TypeOK
    <3>2. op' = op /\ at' = at /\ calls' = calls /\ got' = got /\ asked' = asked
          /\ before' = before /\ ret' \in {ret, "error"}
      BY <1>14 DEF WaitReady, Smooth, GoTo, GoOn, Fail, Broken, AfterStatus
    <3>3. pc' \in {pc, "statusDisable", "read", "loop", "program", "disable", "return"}
      BY <1>14 DEF WaitReady, Smooth, GoTo, GoOn, Fail, Broken, AfterStatus
    <3>4. trouble' \in BOOLEAN
      BY <1>0, <1>14 DEF WaitReady, Smooth, GoTo, GoOn, Fail, Broken, AfterStatus, TypeOK
    <3> QED BY <1>0, <2>1, <3>1, <3>2, <3>3, <3>4 DEF TypeOK, ChipTypes
  <2>3. Kinds'
    BY <1>0, <1>14 DEF WaitReady, Smooth, GoTo, GoOn, Fail, Broken, AfterStatus, Kinds, End
  <2>4. Aligned'
    BY <1>0, <1>14 DEF WaitReady, Smooth, GoTo, GoOn, Fail, Broken, AfterStatus, Aligned, Multiple, End
  <2>5. Permitted'
    BY <1>0, <1>14, ChipSteps DEF WaitReady, Smooth, GoTo, GoOn, Fail, Broken, AfterStatus, Permitted, Kinds, Region
  <2>6. Closed'
    BY <1>0, <1>14, ChipSteps DEF WaitReady, Smooth, GoTo, GoOn, Fail, Broken, AfterStatus, Closed, Kinds, TypeOK
  <2> QED BY <2>1, <2>2, <2>3, <2>4, <2>5, <2>6 DEF IInv, ChipTypes
<1>15. CASE Disable
  <2>1. ChipTypes'
    BY <1>0, <1>15, ChipSteps DEF Disable, Smooth, GoTo, GoOn, Fail, Broken, AfterStatus
  <2>0. /\ at' = at \/ at' = at + Step
        /\ at + Step \in Nat /\ at + Step <= End(op) /\ pc = "disable" /\ op' = op
        /\ op.kind = "erase" => Step = op.unit /\ Multiple(at + op.unit)
    <3>1. pc = "disable" /\ op' = op /\ (at' = at \/ at' = at + Step)
      BY <1>15 DEF Disable, Fail
    <3>2. CASE op.kind = "erase"
      BY <1>0, <3>1, <3>2, UnitBounds DEF Step
    <3>3. CASE op.kind # "erase"
      BY <1>0, <3>1, <3>3, ChunkBounds DEF Step
    <3> QED BY <3>1, <3>2, <3>3
  <2>2. TypeOK'
    <3>1. at' \in op'.start .. op'.start + op'.len
      <4>1. Step \in Nat
        BY <1>0, <2>0, UnitBounds, ChunkBounds DEF Step
      <4>2. at + Step \in op.start .. op.start + op.len
        BY <1>a, <2>0, <4>1 DEF End
      <4> QED BY <1>a, <2>0, <4>2
    <3>2. op' = op /\ calls' = calls /\ got' = got /\ asked' = asked
          /\ before' = before /\ ret' \in {ret, "error"} /\ polls' = polls
          /\ pc' \in {"loop", "return"}
      BY <1>15 DEF Disable, Fail
    <3>3. trouble' \in BOOLEAN
      BY <1>0, <1>15 DEF Disable, Fail, TypeOK
    <3> QED BY <1>0, <2>1, <3>1, <3>2, <3>3 DEF TypeOK, ChipTypes
  <2>3. Kinds'
    BY <1>0, <1>15 DEF Disable, Smooth, GoTo, GoOn, Fail, Broken, AfterStatus, Kinds, End
  <2>4. Aligned'
    <3>1. pc' = "loop" => at' = at + Step
      BY <1>15 DEF Disable, Fail
    <3>2. pc' \in {"loop", "return"}
      BY <1>15 DEF Disable, Fail
    <3> QED BY <1>0, <2>0, <3>1, <3>2 DEF Aligned, Multiple, End
  <2>5. Permitted'
    BY <1>0, <1>15, ChipSteps DEF Disable, Smooth, GoTo, GoOn, Fail, Broken, AfterStatus, Permitted, Kinds, Region
  <2>6. Closed'
    <3>1. \/ pc' = "return" /\ ret' = "error"
          \/ pc' = "loop" /\ ChipDisables
      BY <1>15 DEF Disable, Fail
    <3>2. ~wip
      BY <1>0, <1>15 DEF Disable, Closed
    <3>3. ChipDisables => ~wip' /\ ~wel'
      <4>1. ChipDisables => wel' = (wel /\ wip) /\ wip' = wip
        BY DEF ChipDisables
      <4> QED BY <3>2, <4>1, Zenon
    <3> QED BY <3>1, <3>3 DEF Closed
  <2> QED BY <2>1, <2>2, <2>3, <2>4, <2>5, <2>6 DEF IInv, ChipTypes
<1>16. CASE ReadData
  <2>1. ChipTypes'
    BY <1>0, <1>16, ChipSteps DEF ReadData, Smooth, GoTo, GoOn, Fail, Broken, AfterStatus
  <2>2. TypeOK'
    BY <1>0, <1>16, <2>1 DEF ReadData, Smooth, GoTo, GoOn, Fail, Broken, AfterStatus, TypeOK, ChipTypes
  <2>3. Kinds'
    BY <1>0, <1>16 DEF ReadData, Smooth, GoTo, GoOn, Fail, Broken, AfterStatus, Kinds, End
  <2>4. Aligned'
    BY <1>0, <1>16 DEF ReadData, Smooth, GoTo, GoOn, Fail, Broken, AfterStatus, Aligned, Multiple, End
  <2>5. Permitted'
    BY <1>0, <1>16, ChipSteps DEF ReadData, Smooth, GoTo, GoOn, Fail, Broken, AfterStatus, Permitted, Kinds, Region
  <2>6. Closed'
    BY <1>0, <1>16, ChipSteps DEF ReadData, Smooth, GoTo, GoOn, Fail, Broken, AfterStatus, Closed, Kinds, TypeOK
  <2> QED BY <2>1, <2>2, <2>3, <2>4, <2>5, <2>6 DEF IInv, ChipTypes
<1>17. CASE Return
  <2>1. ChipTypes'
    BY <1>0, <1>17, ChipSteps DEF Return, Smooth, GoTo, GoOn, Fail, Broken, AfterStatus
  <2>2. TypeOK'
    BY <1>0, <1>17, <2>1 DEF Return, Smooth, GoTo, GoOn, Fail, Broken, AfterStatus, TypeOK, ChipTypes
  <2>3. Kinds'
    BY <1>0, <1>17 DEF Return, Smooth, GoTo, GoOn, Fail, Broken, AfterStatus, Kinds, End
  <2>4. Aligned'
    BY <1>0, <1>17 DEF Return, Smooth, GoTo, GoOn, Fail, Broken, AfterStatus, Aligned, Multiple, End
  <2>5. Permitted'
    BY <1>0, <1>17, ChipSteps DEF Return, Smooth, GoTo, GoOn, Fail, Broken, AfterStatus, Permitted, Kinds, Region
  <2>6. Closed'
    BY <1>0, <1>17, ChipSteps DEF Return, Smooth, GoTo, GoOn, Fail, Broken, AfterStatus, Closed, Kinds, TypeOK
  <2> QED BY <2>1, <2>2, <2>3, <2>4, <2>5, <2>6 DEF IInv, ChipTypes
<1>18. CASE ChipFinishes
  <2>1. ChipTypes'
    <3>1. cells' \in [Address -> Contents]
      BY <1>0, <1>18 DEF ChipFinishes, ChipTypes, Stored
    <3> QED BY <1>0, <1>18, <3>1, NothingTypes DEF ChipFinishes, ChipTypes, Stored
  <2>2. TypeOK'
    BY <1>0, <1>18, <2>1 DEF ChipFinishes, Smooth, GoTo, GoOn, Fail, Broken, AfterStatus, TypeOK, ChipTypes
  <2>3. Kinds'
    BY <1>0, <1>18 DEF ChipFinishes, Smooth, GoTo, GoOn, Fail, Broken, AfterStatus, Kinds, End
  <2>4. Aligned'
    BY <1>0, <1>18 DEF ChipFinishes, Smooth, GoTo, GoOn, Fail, Broken, AfterStatus, Aligned, Multiple, End
  <2>5. Permitted'
    BY <1>0, <1>18, NothingTypes DEF ChipFinishes, Permitted, Region
  <2>6. Closed'
    BY <1>0, <1>18, ChipSteps DEF ChipFinishes, Smooth, GoTo, GoOn, Fail, Broken, AfterStatus, Closed, Kinds, TypeOK
  <2> QED BY <2>1, <2>2, <2>3, <2>4, <2>5, <2>6 DEF IInv, ChipTypes
<1>19. CASE UNCHANGED vars
  BY <1>0, <1>19 DEF vars, IInv, TypeOK, ChipTypes, Stored, Kinds, Aligned, Multiple, Permitted, Region, Closed
<1> QED BY <1>1, <1>2, <1>3, <1>4, <1>5, <1>6, <1>7, <1>8, <1>9, <1>10, <1>11, <1>12, <1>13, <1>14, <1>15, <1>16, <1>17, <1>18, <1>19
        DEF Next, Driver

-----------------------------------------------------------------------------
(* The properties.                                                         *)

\* Every reachable state is well typed: no call moves past its region, and no
\* command past the flash.
THEOREM TypeCorrect == Spec => []TypeOK
<1>1. IInv => TypeOK
  BY DEF IInv
<1> QED BY <1>1, InitInv, NextInv, PTL DEF Spec

\* An erase or a program that returns 0 leaves the chip idle and its latch
\* clear, whatever failed: for any flash and any calls.
THEOREM Protects == Spec => []LeftProtected
<1>1. IInv => LeftProtected
  BY DEF IInv, Closed, LeftProtected, Succeeded
<1> QED BY <1>1, InitInv, NextInv, PTL DEF Spec

\* No byte changes that nobody asked to change, whatever failed, on a flash no
\* larger than three bytes can address.
THEOREM NothingElse ==
    ASSUME Size <= AddrMod
    PROVE  Spec => Confined
<1>1. IInv /\ [Next]_vars => [\A a \in Address : cells'[a] # cells[a] => a \in asked]_vars
  <2> SUFFICES ASSUME IInv, [Next]_vars
               PROVE  (\A a \in Address : cells'[a] # cells[a] => a \in asked)
                      \/ UNCHANGED vars
    OBVIOUS
  <2>1. CASE ChipFinishes
    BY <2>1 DEF ChipFinishes, IInv, Permitted
  <2>2. CASE Call \/ Driver
    <3>1. cells' = cells
      BY <2>2 DEF Call, Driver, Refuse, Accept, StatusEnable, StatusWrite,
         StatusReady, StatusDisable, LoopEnds, LoopBody, Enable, WaitEnabled,
         EraseUnit, Program, WaitReady, Disable, ReadData, Return, Broken,
         ChipEnables, ChipDisables, ChipStarts, ChipAtWork, chip
    <3> QED BY <3>1
  <2> QED BY <2>1, <2>2 DEF Next
<1> QED BY <1>1, InitInv, NextInv, PTL DEF Spec, Confined

-----------------------------------------------------------------------------
(* What erases and programs achieve while there is no trouble, on a flash  *)
(* that three bytes can address and in the modes a program implements.     *)

Fits == Size <= AddrMod
Modes == \A c \in Calls : c.kind = "program" => c.mode \in {1, 4}

\* The call o has done its work below n, and none of it from n on.
Finished(o, old, new, n) ==
    \A a \in o.start .. n - 1 :
        /\ o.kind = "erase" => new[a] = Erased
        /\ o.kind = "program" /\ old[a] = Erased => new[a] = Byte(a - o.start)

Untouched(o, old, new, n) == \A a \in n .. End(o) - 1 : new[a] = old[a]

DoneUpTo(n) == Finished(op, before, cells, n)
UntouchedFrom(n) == Untouched(op, before, cells, n)
Upto(n) == DoneUpTo(n) /\ UntouchedFrom(n)

Work == IF op.kind = "erase" THEN ErasesUnit(Sent(at))
        ELSE Programs(Sent(at), ChunkLen)

\* The chip is idle between commands, and enabled before one.
Ready ==
    ~trouble =>
    /\ pc \notin {"statusReady", "ready"} => ~wip
    /\ pc = "statusReady" /\ wip => job = Nothing
    /\ pc \in {"statusWrite", "erase", "program"} => wel

Progress ==
    ~trouble =>
    /\ pc \in {"check", "statusEnable", "statusWrite", "statusReady",
               "statusDisable"} => UntouchedFrom(op.start)
    /\ pc \in {"loop", "enable", "enabled", "erase", "program"} => Upto(at)
    /\ pc = "ready" /\ wip => Upto(at) /\ job = Work
    /\ pc = "ready" /\ ~wip => Upto(at + Step)
    /\ pc = "disable" => Upto(at + Step)
    /\ pc = "return" /\ ret = "ok" /\ op.kind \in {"erase", "program"} =>
         DoneUpTo(End(op))
    /\ pc = "return" /\ ret = "ok" /\ op.kind = "read" => got = "data"

LEMMA InitReady == Init => Ready
BY DEF Init, Ready

LEMMA NextReady == IInv /\ Ready /\ [Next]_vars => Ready'
<1> SUFFICES ASSUME IInv, Ready, [Next]_vars PROVE Ready'
  OBVIOUS
<1>0. TypeOK /\ wel \in BOOLEAN /\ wip \in BOOLEAN /\ trouble \in BOOLEAN /\ Closed
  BY DEF IInv, TypeOK
<1>1. CASE Call
  BY <1>0, <1>1 DEF Call, Smooth, GoTo, GoOn, Fail, Broken, AfterStatus, history, chip, Ready,
     ChipEnables, ChipDisables, ChipStarts, ChipAtWork, driver
<1>2. CASE Refuse
  BY <1>0, <1>2 DEF Refuse, Smooth, GoTo, GoOn, Fail, Broken, AfterStatus, history, chip, Ready,
     ChipEnables, ChipDisables, ChipStarts, ChipAtWork, driver
<1>3. CASE Accept
  BY <1>0, <1>3 DEF Accept, Smooth, GoTo, GoOn, Fail, Broken, AfterStatus, history, chip, Ready,
     ChipEnables, ChipDisables, ChipStarts, ChipAtWork, driver
<1>4. CASE StatusEnable
  BY <1>0, <1>4 DEF StatusEnable, Smooth, GoTo, GoOn, Fail, Broken, AfterStatus, history, chip, Ready,
     ChipEnables, ChipDisables, ChipStarts, ChipAtWork, driver
<1>5. CASE StatusWrite
  BY <1>0, <1>5 DEF StatusWrite, Smooth, GoTo, GoOn, Fail, Broken, AfterStatus, history, chip, Ready,
     ChipEnables, ChipDisables, ChipStarts, ChipAtWork, driver
<1>6. CASE StatusReady
  BY <1>0, <1>6 DEF StatusReady, Smooth, GoTo, GoOn, Fail, Broken, AfterStatus, history, chip, Ready,
     ChipEnables, ChipDisables, ChipStarts, ChipAtWork, driver
<1>7. CASE StatusDisable
  BY <1>0, <1>7 DEF StatusDisable, Smooth, GoTo, GoOn, Fail, Broken, AfterStatus, history, chip, Ready,
     ChipEnables, ChipDisables, ChipStarts, ChipAtWork, driver
<1>8. CASE LoopEnds
  BY <1>0, <1>8 DEF LoopEnds, Smooth, GoTo, GoOn, Fail, Broken, AfterStatus, history, chip, Ready,
     ChipEnables, ChipDisables, ChipStarts, ChipAtWork, driver
<1>9. CASE LoopBody
  BY <1>0, <1>9 DEF LoopBody, Smooth, GoTo, GoOn, Fail, Broken, AfterStatus, history, chip, Ready,
     ChipEnables, ChipDisables, ChipStarts, ChipAtWork, driver
<1>10. CASE Enable
  BY <1>0, <1>10 DEF Enable, Smooth, GoTo, GoOn, Fail, Broken, AfterStatus, history, chip, Ready,
     ChipEnables, ChipDisables, ChipStarts, ChipAtWork, driver
<1>11. CASE WaitEnabled
  BY <1>0, <1>11 DEF WaitEnabled, Smooth, GoTo, GoOn, Fail, Broken, AfterStatus, history, chip, Ready,
     ChipEnables, ChipDisables, ChipStarts, ChipAtWork, driver
<1>12. CASE EraseUnit
  BY <1>0, <1>12 DEF EraseUnit, Smooth, GoTo, GoOn, Fail, Broken, AfterStatus, history, chip, Ready,
     ChipEnables, ChipDisables, ChipStarts, ChipAtWork, driver
<1>13. CASE Program
  BY <1>0, <1>13 DEF Program, Smooth, GoTo, GoOn, Fail, Broken, AfterStatus, history, chip, Ready,
     ChipEnables, ChipDisables, ChipStarts, ChipAtWork, driver
<1>14. CASE WaitReady
  BY <1>0, <1>14 DEF WaitReady, Smooth, GoTo, GoOn, Fail, Broken, AfterStatus, history, chip, Ready,
     ChipEnables, ChipDisables, ChipStarts, ChipAtWork, driver
<1>15. CASE Disable
  BY <1>0, <1>15 DEF Disable, Smooth, GoTo, GoOn, Fail, Broken, AfterStatus, history, chip, Ready,
     ChipEnables, ChipDisables, ChipStarts, ChipAtWork, driver
<1>16. CASE ReadData
  BY <1>0, <1>16 DEF ReadData, Smooth, GoTo, GoOn, Fail, Broken, AfterStatus, history, chip, Ready,
     ChipEnables, ChipDisables, ChipStarts, ChipAtWork, driver
<1>17. CASE Return
  BY <1>0, <1>17 DEF Return, Smooth, GoTo, GoOn, Fail, Broken, AfterStatus, history, chip, Ready,
     ChipEnables, ChipDisables, ChipStarts, ChipAtWork, driver
<1>18. CASE ChipFinishes
  BY <1>0, <1>18 DEF ChipFinishes, Smooth, GoTo, GoOn, Fail, Broken, AfterStatus, history, chip, Ready,
     ChipEnables, ChipDisables, ChipStarts, ChipAtWork, driver
<1>19. CASE UNCHANGED vars
  BY <1>19 DEF vars, Ready
<1> QED BY <1>1, <1>2, <1>3, <1>4, <1>5, <1>6, <1>7, <1>8, <1>9, <1>10, <1>11, <1>12, <1>13, <1>14, <1>15, <1>16, <1>17, <1>18, <1>19
        DEF Next, Driver

\* What a command that is carried out stores.
LEMMA ProgramsEffect ==
    ASSUME TypeOK, Kinds, Fits, op.kind = "program", pc \in {"program", "ready"}
    PROVE  Programs(Sent(at), ChunkLen) =
             [b \in at .. at + ChunkLen - 1 |->
                IF cells[b] # Erased THEN Junk ELSE Byte(b - op.start)]
<1> DEFINE n == ChunkLen
<1>1. /\ n \in Nat /\ at \in Nat /\ End(op) \in Nat
      /\ n <= PageSize - (at % PageSize) /\ at + n <= End(op)
  BY ChunkBounds
<1>2. Sent(at) = at
  <2>1. at < Size
    BY <1>1, CallTypes, SizeAssumption DEF Kinds, End
  <2> QED BY <1>1, <2>1, AddrModAssumption, SizeAssumption DEF Sent, Fits
<1>3. ASSUME NEW j \in 0 .. n - 1 PROVE InPage(at, j) = at + j
  <2>1. at % PageSize \in Nat /\ PageSize \in Nat
    BY <1>1, PageSizeAssumption
  <2>2. j \in Nat /\ j < PageSize - (at % PageSize)
    BY <1>1, <2>1
  <2> QED BY <1>1, <2>2, WithinPage
<1>4. op.start \in Nat
  BY CallTypes, SizeAssumption DEF TypeOK, Kinds
<1> HIDE DEF n
<1>5. {InPage(at, j) : j \in 0 .. n - 1} = at .. at + n - 1
  <2>1. ASSUME NEW b \in at .. at + n - 1 PROVE \E j \in 0 .. n - 1 : InPage(at, j) = b
    <3>1. b - at \in 0 .. n - 1 /\ at + (b - at) = b
      BY <1>1
    <3> QED BY <1>3, <3>1
  <2>2. ASSUME NEW j \in 0 .. n - 1 PROVE InPage(at, j) \in at .. at + n - 1
    BY <1>1, <1>3
  <2> QED BY <2>1, <2>2
<1>6. ASSUME NEW b \in at .. at + n - 1
      PROVE  at - op.start + (CHOOSE j \in 0 .. n - 1 : InPage(at, j) = b) = b - op.start
  <2> DEFINE J == CHOOSE j \in 0 .. n - 1 : InPage(at, j) = b
  <2>1. \E j \in 0 .. n - 1 : InPage(at, j) = b
    BY <1>5
  <2>2. J \in 0 .. n - 1 /\ InPage(at, J) = b
    BY <2>1, Zenon
  <2> HIDE DEF J
  <2>3. b = at + J
    BY <1>3, <2>2
  <2>4. at - op.start + J = b - op.start
    BY <1>1, <1>4, <2>2, <2>3
  <2> QED BY <2>4 DEF J
<1>7. Programs(at, n) =
        [b \in at .. at + n - 1 |-> IF cells[b] # Erased THEN Junk
         ELSE Byte(at - op.start + (CHOOSE j \in 0 .. n - 1 : InPage(at, j) = b))]
  BY <1>5, Zenon DEF Programs
<1>8. Programs(at, n) = [b \in at .. at + n - 1 |->
                           IF cells[b] # Erased THEN Junk ELSE Byte(b - op.start)]
  BY <1>6, <1>7, Zenon
<1> QED BY <1>2, <1>8 DEF n

LEMMA ErasesEffect ==
    ASSUME TypeOK, Kinds, Aligned, Fits, op.kind = "erase", pc \in {"erase", "ready"}
    PROVE  ErasesUnit(Sent(at)) = [b \in at .. at + op.unit - 1 |-> Erased]
<1>1. /\ op.unit \in Nat /\ op.unit > 0 /\ at \in Nat /\ End(op) \in Nat
      /\ at + op.unit <= End(op) /\ (at \div op.unit) * op.unit = at
  BY UnitBounds
<1>2. op \in Calls /\ at < Size /\ End(op) <= Size
  BY <1>1, CallTypes, SizeAssumption DEF Kinds, End
<1>3. Sent(at) = at
  BY <1>1, <1>2, AddrModAssumption, SizeAssumption DEF Sent, Fits
<1>4. (at .. at + op.unit - 1) \intersect Address = at .. at + op.unit - 1
  BY <1>1, <1>2, SizeAssumption DEF Address
<1> QED BY <1>1, <1>3, <1>4 DEF ErasesUnit

\* When the command ends, its unit or chunk is done.
LEMMA WorkDone ==
    ASSUME IInv, Fits, pc = "ready", Upto(at), job = Work,
           cells' = [a \in Address |-> IF a \in DOMAIN job THEN job[a] ELSE cells[a]],
           UNCHANGED <<driver, history>>
    PROVE  Upto(at + Step)'
<1>1. /\ TypeOK /\ Kinds /\ Aligned /\ op \in Calls /\ op.kind \in {"erase", "program"}
      /\ at \in Nat /\ op.start \in Nat /\ at >= op.start /\ End(op) \in Nat
      /\ End(op) <= Size /\ Size \in Nat
  BY CallTypes, SizeAssumption DEF IInv, Kinds, TypeOK, End
<1>2. UNCHANGED <<op, at, before>> /\ End(op)' = End(op) /\ Step' = Step
  BY DEF driver, history, End, Step, ChunkLen, Least
<1>3. Step \in Nat /\ at + Step <= End(op)
  BY <1>1, UnitBounds, ChunkBounds DEF Step
<1>4. Address = 0 .. Size - 1 /\ \A a \in op.start .. End(op) - 1 : a \in Address
  BY <1>1 DEF Address
<1>5. DOMAIN job = at .. at + Step - 1
  <2>1. CASE op.kind = "erase"
    BY <1>1, <2>1, ErasesEffect DEF Work, Step
  <2>2. CASE op.kind = "program"
    BY <1>1, <2>2, ProgramsEffect DEF Work, Step
  <2> QED BY <1>1, <2>1, <2>2
<1>6. \A b \in at .. at + Step - 1 :
        /\ op.kind = "erase" => job[b] = Erased
        /\ op.kind = "program" /\ cells[b] = Erased => job[b] = Byte(b - op.start)
  <2>1. CASE op.kind = "erase"
    BY <1>1, <2>1, ErasesEffect DEF Work, Step
  <2>2. CASE op.kind = "program"
    BY <1>1, <2>2, ProgramsEffect DEF Work, Step
  <2> QED BY <1>1, <2>1, <2>2
<1>7. ASSUME NEW a \in op.start .. at + Step - 1
      PROVE  /\ op.kind = "erase" => cells'[a] = Erased
             /\ op.kind = "program" /\ before[a] = Erased => cells'[a] = Byte(a - op.start)
  <2>1. a \in Address
    BY <1>1, <1>3, <1>4
  <2>2. CASE a < at
    <3>1. a \in op.start .. at - 1 /\ a \notin DOMAIN job
      BY <1>1, <1>5, <2>2
    <3>2. cells'[a] = cells[a]
      BY <2>1, <3>1
    <3> QED BY <3>1, <3>2 DEF Upto, DoneUpTo, Finished
  <2>3. CASE a >= at
    <3>1. a \in at .. at + Step - 1 /\ a \in at .. End(op) - 1
      BY <1>1, <1>3, <2>3
    <3>2. cells'[a] = job[a] /\ cells[a] = before[a]
      BY <1>5, <2>1, <3>1 DEF Upto, UntouchedFrom, Untouched
    <3> QED BY <1>6, <3>1, <3>2
  <2> QED BY <1>1, <2>2, <2>3
<1>8. ASSUME NEW a \in at + Step .. End(op) - 1 PROVE cells'[a] = before[a]
  <2>1. a \in Address /\ a \notin DOMAIN job /\ a \in at .. End(op) - 1
    BY <1>1, <1>3, <1>4, <1>5
  <2> QED BY <2>1 DEF Upto, UntouchedFrom, Untouched
<1>9. at' = at /\ op' = op /\ before' = before /\ Step' = Step
  BY <1>2
<1>10. Finished(op, before, cells', at + Step)
  <2>1. op.start .. (at + Step) - 1 = op.start .. at + Step - 1
    BY <1>1, <1>3
  <2>2. ASSUME NEW a \in op.start .. (at + Step) - 1
        PROVE  /\ op.kind = "erase" => cells'[a] = Erased
               /\ op.kind = "program" /\ before[a] = Erased => cells'[a] = Byte(a - op.start)
    BY <1>7, <2>1
  <2> QED BY <2>2 DEF Finished
<1>11. Untouched(op, before, cells', at + Step)
  BY <1>1, <1>3, <1>8 DEF Untouched
<1> QED BY <1>9, <1>10, <1>11 DEF Upto, DoneUpTo, UntouchedFrom

LEMMA NextProgress ==
    ASSUME Fits, Modes
    PROVE  IInv /\ Ready /\ Progress /\ [Next]_vars => Progress'
<1> SUFFICES ASSUME IInv, Ready, Progress, [Next]_vars, ~trouble' PROVE Progress'
  BY DEF Progress
<1>0. /\ TypeOK /\ Kinds /\ Aligned /\ wel \in BOOLEAN /\ wip \in BOOLEAN /\ trouble \in BOOLEAN
      /\ ret \in {"none", "ok", "error"}
  BY DEF IInv, TypeOK
<1>a. UNCHANGED <<op, at>> => Step' = Step
  BY DEF Step, ChunkLen, Least
<1>b. UNCHANGED <<op, at, cells, before>> => Work' = Work
  BY DEF Work, ChunkLen, Least, Programs, ErasesUnit, Sent, InPage
<1>c. Call \/ Driver => cells' = cells
  BY DEF Call, Driver, Refuse, Accept, StatusEnable, StatusWrite, StatusReady,
     StatusDisable, LoopEnds, LoopBody, Enable, WaitEnabled, EraseUnit, Program,
     WaitReady, Disable, ReadData, Return, Broken, ChipEnables, ChipDisables,
     ChipStarts, ChipAtWork, chip
<1>d. AfterStatus \in {"loop", "read"}
  BY DEF AfterStatus
<1>e. ASSUME pc \in {"check", "statusEnable", "statusWrite", "statusReady", "statusDisable"}
      PROVE  DoneUpTo(op.start) /\ at = op.start
  BY <1>0, <1>e, CallTypes, SizeAssumption DEF Kinds, DoneUpTo, Finished
<1>1. CASE Call
  <2>1. /\ pc' = "check" /\ before' = cells /\ cells' = cells
    BY <1>1, <1>c DEF Call
  <2>2. Untouched(op', before', cells', op'.start)
    BY <2>1 DEF Untouched
  <2> QED BY <2>1, <2>2 DEF Progress, UntouchedFrom
<1>2. CASE Refuse
  BY <1>2 DEF Refuse, Progress
<1>3. CASE Accept
  <2>1. /\ pc' \in {"statusEnable", "loop", "read"} /\ pc = "check" /\ ~trouble
        /\ UNCHANGED <<op, at, before, cells>>
    BY <1>3, <1>d DEF Accept, GoTo, Smooth, history, chip
  <2> QED BY <1>e, <2>1 DEF Progress, Upto, DoneUpTo, UntouchedFrom
<1>4. CASE StatusEnable \/ StatusWrite
  <2>1. /\ pc' \in {"statusWrite", "statusReady"} /\ pc \in {"statusEnable", "statusWrite"}
        /\ ~trouble /\ UNCHANGED <<op, at, before, cells>>
    BY <1>4, <1>c DEF Driver, StatusEnable, StatusWrite, GoTo, GoOn, Smooth, history
  <2> QED BY <2>1 DEF Progress, UntouchedFrom
<1>5. CASE StatusReady
  <2>1. /\ pc' \in {"statusReady", "statusDisable"} /\ pc = "statusReady"
        /\ ~trouble /\ UNCHANGED <<op, at, before, cells>>
    BY <1>5, <1>c DEF Driver, StatusReady, GoTo, GoOn, Smooth, history
  <2> QED BY <2>1 DEF Progress, UntouchedFrom
<1>6. CASE StatusDisable
  <2>1. /\ pc' \in {"loop", "read"} /\ pc = "statusDisable"
        /\ ~trouble /\ UNCHANGED <<op, at, before, cells>>
    BY <1>6, <1>c, <1>d DEF Driver, StatusDisable, GoTo, GoOn, Smooth, history
  <2> QED BY <1>e, <2>1 DEF Progress, Upto, DoneUpTo, UntouchedFrom
<1>7. CASE LoopEnds
  <2>1. /\ pc = "loop" /\ pc' = "return" /\ at = End(op) /\ ~trouble
        /\ UNCHANGED <<op, at, before, cells>>
    BY <1>7, <1>c DEF Driver, LoopEnds, history, End
  <2>2. op.kind \in {"erase", "program"}
    BY <1>0, <2>1 DEF Kinds
  <2> QED BY <2>1, <2>2 DEF Progress, Upto, DoneUpTo
<1>8. CASE LoopBody \/ Enable \/ WaitEnabled
  <2>1. /\ pc' \in {"enable", "enabled", "erase", "program"} /\ ~trouble
        /\ pc \in {"loop", "enable", "enabled"} /\ UNCHANGED <<op, at, before, cells>>
    BY <1>8, <1>c DEF Driver, LoopBody, Enable, WaitEnabled, GoTo, GoOn, Fail, Smooth, history
  <2> QED BY <2>1 DEF Progress, Upto, DoneUpTo, UntouchedFrom
<1>9. CASE EraseUnit \/ Program
  <2>1. /\ pc' = "ready" /\ pc \in {"erase", "program"} /\ ~trouble
        /\ UNCHANGED <<op, at, before, cells>>
    BY <1>9, <1>c DEF Driver, EraseUnit, Program, GoTo, GoOn, Fail, Smooth, history
  <2>2. wel /\ ~wip
    BY <1>0, <2>1 DEF Ready
  <2>3. ChipStarts(Work)
    <3>1. CASE EraseUnit
      BY <1>0, <3>1 DEF EraseUnit, Fail, Work, Kinds
    <3>2. CASE Program
      <4>1. op.kind = "program" /\ op.mode \in {1, 4}
        BY <1>0, <3>2 DEF Kinds, Program, Modes
      <4>2. ChipStarts(Programs(Sent(at), ChunkLen))
        BY <3>2, <4>1 DEF Program, Fail, GoOn
      <4> QED BY <4>1, <4>2 DEF Work
    <3> QED BY <1>9, <3>1, <3>2
  <2>4. wip' = TRUE /\ job' = Work
    BY <2>2, <2>3, Zenon DEF ChipStarts
  <2> QED BY <1>b, <2>1, <2>4 DEF Progress, Upto, DoneUpTo, UntouchedFrom
<1>10. CASE WaitReady
  <2>1. /\ pc' \in {"ready", "disable"} /\ pc = "ready" /\ ~trouble
        /\ pc' = "disable" => ~wip
        /\ UNCHANGED <<op, at, before, cells, wip, job>>
    BY <1>10, <1>c DEF Driver, WaitReady, GoTo, Fail, Smooth, history, ChipAtWork, chip
  <2> QED BY <1>a, <1>b, <2>1 DEF Progress, Upto, DoneUpTo, UntouchedFrom
<1>11. CASE Disable
  <2>1. /\ pc' = "loop" /\ pc = "disable" /\ at' = at + Step /\ ~trouble
        /\ UNCHANGED <<op, before, cells>>
    BY <1>11, <1>c DEF Driver, Disable, Fail, history
  <2> QED BY <2>1 DEF Progress, Upto, DoneUpTo, UntouchedFrom
<1>12. CASE ReadData
  <2>1. pc' = "return" /\ pc = "read" /\ ~trouble /\ op' = op /\ got' = IF wip THEN "garbage" ELSE "data"
    BY <1>12 DEF ReadData, Fail, history
  <2>2. ~wip /\ op.kind = "read"
    BY <1>0, <2>1 DEF Ready, Kinds
  <2> QED BY <2>1, <2>2 DEF Progress
<1>13. CASE Return
  BY <1>13 DEF Return, GoTo, Smooth, Progress
<1>14. CASE ChipFinishes
  <2>1. wip /\ ~wip' /\ UNCHANGED <<driver, history>> /\ UNCHANGED <<pc, op, at, ret, got, before, trouble>>
    BY <1>14 DEF ChipFinishes, driver, history
  <2>2. CASE pc = "ready"
    <3>1. Upto(at) /\ job = Work
      BY <2>1, <2>2 DEF Progress
    <3>2. Upto(at + Step)'
      BY <1>14, <2>2, <3>1, WorkDone DEF ChipFinishes
    <3> QED BY <2>1, <2>2, <3>2 DEF Progress
  <2>3. CASE pc = "statusReady"
    <3>1. cells' = cells
      <4>1. job = Nothing
        BY <2>1, <2>3 DEF Ready
      <4>2. cells' = [a \in Address |-> cells[a]]
        BY <1>14, <4>1, NothingTypes DEF ChipFinishes
      <4> QED BY <1>0, <4>2 DEF TypeOK
    <3> QED BY <2>1, <2>3, <3>1 DEF Progress, UntouchedFrom
  <2>4. CASE pc \notin {"ready", "statusReady"}
    BY <2>1, <2>4 DEF Ready
  <2> QED BY <2>2, <2>3, <2>4
<1>15. CASE UNCHANGED vars
  BY <1>a, <1>b, <1>15 DEF vars, Progress, Upto, DoneUpTo, UntouchedFrom
<1> QED BY <1>1, <1>2, <1>3, <1>4, <1>5, <1>6, <1>7, <1>8, <1>9, <1>10, <1>11, <1>12, <1>13,
        <1>14, <1>15 DEF Next, Driver

LEMMA InitProgress == Init => Progress
BY DEF Init, Progress

\* While there is no trouble, an erase that returns 0 has erased all of its
\* region, for every flash that three bytes can address, every erase unit and
\* every sequence of calls.
THEOREM ErasesAll ==
    ASSUME Fits, Modes
    PROVE  Spec => []EraseDone
<1>1. IInv /\ Progress => EraseDone
  <2> SUFFICES ASSUME IInv, Progress, Succeeded("erase"), ~trouble, NEW a \in Region(op)
               PROVE  cells[a] = Erased
    BY DEF EraseDone
  <2>1. DoneUpTo(End(op)) /\ op.kind = "erase"
    BY DEF Progress, Succeeded
  <2>2. a \in op.start .. End(op) - 1
    BY CallTypes, SizeAssumption DEF Region, End, IInv, Kinds, Succeeded
  <2> QED BY <2>1, <2>2 DEF DoneUpTo, Finished
<1> QED BY <1>1, InitInv, NextInv, InitReady, NextReady, InitProgress, NextProgress, PTL DEF Spec

\* While there is no trouble, a program that returns 0 has stored the whole
\* buffer in the bytes that were erased, on the same assumptions and in the
\* two modes the driver implements.
THEOREM ProgramsAll ==
    ASSUME Fits, Modes
    PROVE  Spec => []ProgramDone
<1>1. IInv /\ Progress => ProgramDone
  <2> SUFFICES ASSUME IInv, Progress, Succeeded("program"), ~trouble,
                      NEW k \in 0 .. op.len - 1, before[op.start + k] = Erased
               PROVE  cells[op.start + k] = Byte(k)
    BY DEF ProgramDone
  <2>1. DoneUpTo(End(op)) /\ op.kind = "program"
    BY DEF Progress, Succeeded
  <2>2. op.start \in Nat /\ op.len \in Nat
    BY CallTypes, SizeAssumption DEF IInv, Kinds, Succeeded
  <2>3. op.start + k \in op.start .. End(op) - 1 /\ (op.start + k) - op.start = k
    BY <2>2 DEF End
  <2> QED BY <2>1, <2>3 DEF DoneUpTo, Finished
<1> QED BY <1>1, InitInv, NextInv, InitReady, NextReady, InitProgress, NextProgress, PTL DEF Spec

\* While there is no trouble, a read that returns 0 was answered by the chip.
THEOREM ReadsAnswered ==
    ASSUME Fits, Modes
    PROVE  Spec => []ReadAnswered
<1>1. Progress => ReadAnswered
  BY DEF Progress, ReadAnswered, Succeeded
<1> QED BY <1>1, InitInv, NextInv, InitReady, NextReady, InitProgress, NextProgress, PTL DEF Spec
=============================================================================
