---------------------------- MODULE BringUpProofs ----------------------------
(***************************************************************************)
(* Proofs about BringUp and its parts: ControlRegs for every layout whose  *)
(* fields are disjoint and every sequence of macro calls, Startup for      *)
(* every size of the sections, Console for every message, and the          *)
(* composition of the three.                                               *)
(***************************************************************************)
EXTENDS BringUp, SequenceTheorems, WellFoundedInduction, TLAPS

(***************************************************************************)
(* 1. The macros and the registers (ControlRegs).                          *)
(***************************************************************************)

\* What holds in the middle of a macro: the word it is about to store still
\* agrees with the register on all that the hardware does not drive, and the
\* reset it waits for has been written.
MacroInv ==
    /\ \A f \in status : IsReset(f)
    /\ pc \in {"store", "poll"} => todo # <<>> /\ Call.kind = "set"
    /\ pc = "store" =>
         LET r == Call.field.reg
         IN  cache \ Driven(r) = word[r] \ Driven(r)
    /\ pc = "poll" => IsReset(Call.field) /\ Value(Call.field) = Call.value

IInv == TypeOK /\ MacroInv

-----------------------------------------------------------------------------
(* Fields and words.                                                       *)

\* A field of the registers in play is a register and one of its shapes.
LEMMA PlayedShape ==
    ASSUME NEW f \in Played
    PROVE  /\ f.reg \in DOMAIN word
           /\ f.at \in Layout[f.reg]
           /\ f = [reg |-> f.reg, at |-> f.at]
BY DEF Field, Played, FieldsOf

LEMMA FieldIsPlayed ==
    ASSUME NEW f \in Field, f.reg \in DOMAIN word
    PROVE  f \in Played
BY DEF Field, Played, FieldsOf

\* What a field reads depends on its own bits.
LEMMA OwnBits ==
    ASSUME NEW a, a.shift \in Nat, a.width \in Nat, NEW w, NEW x,
           w \intersect Bits(a) = x \intersect Bits(a)
    PROVE  ValueIn(a, w) = ValueIn(a, x)
<1>1. ASSUME NEW b \in Lowest(a)
      PROVE  b + a.shift \in w <=> b + a.shift \in x
  <2>1. b + a.shift \in Bits(a)
    BY DEF Lowest, Bits
  <2> QED BY <2>1
<1> QED BY <1>1 DEF ValueIn

\* A field that has been modified reads as the value, cut to its width.
LEMMA ModifiedReads ==
    ASSUME NEW a, a.shift \in Nat, a.width \in Nat, NEW w, NEW v
    PROVE  ValueIn(a, Modified(a, w, v)) = v \intersect Lowest(a)
<1>1. ASSUME NEW b \in Lowest(a)
      PROVE  b + a.shift \in Modified(a, w, v) <=> b \in v
  <2>1. b + a.shift \in Bits(a) /\ b \in Int
    BY DEF Lowest, Bits
  <2>2. \A c \in v \intersect Lowest(a) : c + a.shift = b + a.shift => c = b
    BY <2>1 DEF Lowest
  <2> QED BY <2>1, <2>2 DEF Modified
<1> QED BY <1>1 DEF ValueIn

\* Modifying a field leaves the bits of every other one alone.
LEMMA ModifiedKeeps ==
    ASSUME NEW a, a.shift \in Nat, a.width \in Nat, NEW w, NEW v, NEW B,
           B \intersect Bits(a) = {}
    PROVE  Modified(a, w, v) \intersect B = w \intersect B
<1>1. \A c \in v \intersect Lowest(a) : c + a.shift \in Bits(a)
  BY DEF Lowest, Bits
<1> QED BY <1>1 DEF Modified

LEMMA ModifiedIsWord ==
    ASSUME NEW a, a.shift \in Nat, a.width \in Nat, Bits(a) \subseteq WordBits,
           NEW w \in SUBSET WordBits, NEW v
    PROVE  Modified(a, w, v) \subseteq WordBits
<1>1. \A c \in v \intersect Lowest(a) : c + a.shift \in Bits(a)
  BY DEF Lowest, Bits
<1> QED BY <1>1 DEF Modified

\* Software's fields and the hardware's bits are apart.
LEMMA DrivenApart ==
    ASSUME NEW r \in Registers, NEW a \in Layout[r], a.role # "status"
    PROVE  Bits(a) \intersect Driven(r) = {}
BY DisjointAssumption DEF Driven

LEMMA DrivenInside ==
    ASSUME NEW r \in Registers, NEW a \in Layout[r], a.role = "status"
    PROVE  Bits(a) \subseteq Driven(r)
BY DEF Driven

LEMMA DrivenIsWord ==
    ASSUME NEW r \in Registers
    PROVE  Driven(r) \subseteq WordBits
BY ShapesAssumption DEF Driven

\* A call that sets is not on a field that the hardware drives, and one that
\* sets a reset writes 0 or 1.
LEMMA LegalCall ==
    ASSUME TypeOK, todo # <<>>
    PROVE  /\ Call \in Operation /\ Legal(Call)
           /\ Call.field \in Played /\ Call.field \in Field
           /\ Call.field.reg \in DOMAIN word /\ Call.field.reg \in Registers
           /\ Call.field.at \in Layout[Call.field.reg]
           /\ Call.kind = "set" => Call.field.at.role # "status"
           /\ Call.kind = "set" /\ IsReset(Call.field) => Call.value \in {{}, {0}}
<1>1. todo \in Seq(Operation) /\ Len(todo) > 0 /\ 1 \in DOMAIN todo /\ Call = todo[1]
  BY EmptySeq DEF TypeOK, Call
<1>2. Call \in Operation /\ Legal(Call) /\ Call.field.reg \in DOMAIN word
  BY <1>1 DEF TypeOK
<1>3. Call.field \in Field /\ Call.field \in Played
  BY <1>2, FieldIsPlayed DEF Operation
<1>4. Call.field.at \in Layout[Call.field.reg] /\ Call.field.reg \in Registers
  BY <1>2, <1>3, PlayedShape DEF TypeOK
<1>5. Call.kind = "set" => Call.field.at.role # "status"
  BY <1>2 DEF Legal, Writes
<1>6. Call.kind = "set" /\ IsReset(Call.field) => Call.value \in {{}, {0}}
  <2> SUFFICES ASSUME Call.kind = "set", IsReset(Call.field)
               PROVE  Call.value \in {{}, {0}}
    OBVIOUS
  <2>1. Call.field.at.ways = 2
    BY <1>4, ShapesAssumption DEF IsReset
  <2>2. Call.value \in {Choice(k) : k \in 0 .. 1}
    BY <1>2, <1>5, <2>1 DEF Legal, Writes
  <2>3. Choice(0) = {} /\ Choice(1) = {0}
    BY DEF Choice
  <2>4. PICK k \in 0 .. 1 : Call.value = Choice(k)
    BY <2>2
  <2> QED BY <2>3, <2>4
<1> QED BY <1>2, <1>3, <1>4, <1>5, <1>6

-----------------------------------------------------------------------------
(* The steps.                                                              *)

\* A store changes the field of its call and no other.
LEMMA StoreEffect ==
    ASSUME IInv, pc = "store", StoreWord, NEW f, f = Call.field
    PROVE  /\ DOMAIN word' = DOMAIN word
           /\ word' \in [DOMAIN word -> SUBSET WordBits]
           /\ Value(f)' = Call.value \intersect Lowest(f.at)
           /\ \A g \in Played : g # f => Value(g)' = Value(g)
<1> DEFINE r == f.reg
           D == Driven(r)
           m == Modified(f.at, cache, Call.value)
           nw == (m \ D) \union (word[r] \intersect D)
<1>1. /\ f \in Played /\ r \in DOMAIN word /\ r \in Registers
      /\ f.at \in Layout[r] /\ f.at.role # "status"
  BY LegalCall DEF IInv, MacroInv
<1>2. f.at.shift \in Nat /\ f.at.width \in Nat /\ Bits(f.at) \subseteq WordBits
  BY <1>1, ShapesAssumption
<1>3. word' = [word EXCEPT ![r] = nw]
  BY DEF StoreWord
<1>4. DOMAIN word' = DOMAIN word /\ word'[r] = nw
  BY <1>1, <1>3 DEF IInv, TypeOK
<1>5. m \subseteq WordBits /\ word[r] \subseteq WordBits
  BY <1>1, <1>2, ModifiedIsWord DEF IInv, TypeOK
<1>6. word' \in [DOMAIN word -> SUBSET WordBits]
  <2> HIDE DEF nw, m
  <2>1. nw \in SUBSET WordBits
    BY <1>5 DEF nw
  <2> QED BY <1>3, <2>1 DEF IInv, TypeOK
<1>7. cache \ D = word[r] \ D
  BY DEF IInv, MacroInv
<1> HIDE DEF r, D, m, nw
<1>8. Value(f)' = Call.value \intersect Lowest(f.at)
  <2>1. Bits(f.at) \intersect D = {}
    BY <1>1, DrivenApart DEF D
  <2>2. nw \intersect Bits(f.at) = m \intersect Bits(f.at)
    BY <2>1 DEF nw
  <2>3. ValueIn(f.at, nw) = ValueIn(f.at, m)
    BY <1>2, <2>2, OwnBits
  <2>4. ValueIn(f.at, m) = Call.value \intersect Lowest(f.at)
    BY <1>2, ModifiedReads DEF m
  <2>5. Value(f)' = ValueIn(f.at, nw)
    BY <1>4 DEF Value, r
  <2> QED BY <2>3, <2>4, <2>5
<1>9. ASSUME NEW g \in Played, g # f
      PROVE  Value(g)' = Value(g)
  <2>1. g.reg \in DOMAIN word /\ g.at \in Layout[g.reg] /\ g.reg \in Registers
    BY PlayedShape DEF IInv, TypeOK
  <2>2. g.at.shift \in Nat /\ g.at.width \in Nat
    BY <2>1, ShapesAssumption
  <2>3. CASE g.reg # r
    <3>1. word'[g.reg] = word[g.reg]
      BY <1>3, <2>1, <2>3 DEF IInv, TypeOK
    <3> QED BY <3>1 DEF Value
  <2>4. CASE g.reg = r
    <3>1. g.at # f.at
      BY <1>1, <1>9, <2>4, PlayedShape DEF r
    <3>2. Bits(g.at) \intersect Bits(f.at) = {}
      BY <1>1, <2>1, <2>4, <3>1, DisjointAssumption
    <3>3. m \intersect Bits(g.at) = cache \intersect Bits(g.at)
      BY <1>2, <3>2, ModifiedKeeps DEF m
    <3>4. nw \intersect Bits(g.at) = word[r] \intersect Bits(g.at)
      <4>1. CASE g.at.role = "status"
        <5>1. Bits(g.at) \subseteq D
          BY <2>1, <2>4, <4>1, DrivenInside DEF D
        <5> QED BY <5>1 DEF nw
      <4>2. CASE g.at.role # "status"
        <5>1. Bits(g.at) \intersect D = {}
          BY <2>1, <2>4, <4>2, DrivenApart DEF D
        <5> QED BY <1>7, <3>3, <5>1 DEF nw
      <4> QED BY <4>1, <4>2
    <3>5. ValueIn(g.at, nw) = ValueIn(g.at, word[r])
      BY <2>2, <3>4, OwnBits
    <3> QED BY <1>4, <2>4, <3>5 DEF Value
  <2> QED BY <2>3, <2>4
<1> QED BY <1>4, <1>6, <1>8, <1>9

\* The hardware's bits change under no field of software's.
LEMMA DriveEffect ==
    ASSUME IInv, NEW r \in DOMAIN word, Drive(r)
    PROVE  /\ DOMAIN word' = DOMAIN word
           /\ word' \in [DOMAIN word -> SUBSET WordBits]
           /\ word'[r] \ Driven(r) = word[r] \ Driven(r)
           /\ \A q \in DOMAIN word : q # r => word'[q] = word[q]
           /\ \E ones \in BOOLEAN : \A g \in Played :
                  Value(g)' = IF g.reg = r /\ g.at.role = "status"
                              THEN IF ones THEN Lowest(g.at) ELSE {}
                              ELSE Value(g)
<1>0. r \in Registers /\ word[r] \subseteq WordBits
  BY DEF IInv, TypeOK
<1>1. PICK bits \in {{}, Driven(r)} :
          word' = [word EXCEPT ![r] = (@ \ Driven(r)) \union bits]
  BY DEF Drive
<1>2. DOMAIN word' = DOMAIN word /\ word'[r] = (word[r] \ Driven(r)) \union bits
  BY <1>1 DEF IInv, TypeOK
<1>3. (word[r] \ Driven(r)) \union bits \in SUBSET WordBits
  BY <1>0, <1>1, DrivenIsWord
<1>4. word' \in [DOMAIN word -> SUBSET WordBits]
  BY <1>1, <1>3 DEF IInv, TypeOK
<1>5. \A q \in DOMAIN word : q # r => word'[q] = word[q]
  BY <1>1 DEF IInv, TypeOK
<1>6. ASSUME NEW g \in Played
      PROVE  Value(g)' = IF g.reg = r /\ g.at.role = "status"
                         THEN IF bits # {} THEN Lowest(g.at) ELSE {}
                         ELSE Value(g)
  <2>1. g.reg \in DOMAIN word /\ g.at \in Layout[g.reg] /\ g.reg \in Registers
    BY PlayedShape DEF IInv, TypeOK
  <2>2. g.at.shift \in Nat /\ g.at.width \in Nat
    BY <2>1, ShapesAssumption
  <2>3. CASE g.reg # r
    BY <1>5, <2>1, <2>3 DEF Value
  <2>4. CASE g.reg = r /\ g.at.role # "status"
    <3>1. Bits(g.at) \intersect Driven(r) = {}
      BY <2>1, <2>4, DrivenApart
    <3>2. word'[r] \intersect Bits(g.at) = word[r] \intersect Bits(g.at)
      BY <1>1, <1>2, <3>1
    <3>3. ValueIn(g.at, word'[r]) = ValueIn(g.at, word[r])
      BY <2>2, <3>2, OwnBits
    <3> QED BY <2>4, <3>3 DEF Value
  <2>5. CASE g.reg = r /\ g.at.role = "status"
    <3>1. Bits(g.at) \subseteq Driven(r)
      BY <2>1, <2>5, DrivenInside
    <3>2. \A b \in Lowest(g.at) : b + g.at.shift \in Driven(r)
      BY <2>2, <3>1 DEF Lowest, Bits
    <3>3. CASE bits = {}
      BY <1>2, <2>5, <3>2, <3>3 DEF Value, ValueIn
    <3>4. CASE bits # {}
      BY <1>1, <1>2, <2>5, <3>2, <3>4 DEF Value, ValueIn
    <3> QED BY <3>3, <3>4
  <2> QED BY <2>3, <2>4, <2>5
<1>7. \E ones \in BOOLEAN : \A g \in Played :
          Value(g)' = IF g.reg = r /\ g.at.role = "status"
                      THEN IF ones THEN Lowest(g.at) ELSE {}
                      ELSE Value(g)
  <2> DEFINE some == bits # {}
  <2>1. some \in BOOLEAN
    OBVIOUS
  <2>2. \A g \in Played :
            Value(g)' = IF g.reg = r /\ g.at.role = "status"
                        THEN IF some THEN Lowest(g.at) ELSE {}
                        ELSE Value(g)
    BY <1>6
  <2> HIDE DEF some
  <2> QED BY <2>1, <2>2, Zenon
<1> QED BY <1>2, <1>4, <1>5, <1>7

LEMMA PlayedConstant ==
    ASSUME DOMAIN word' = DOMAIN word
    PROVE  Played' = Played
BY DEF Played

\* A call that returns leaves calls that were there.
LEMMA ReturnTyped ==
    ASSUME TypeOK, todo # <<>>, Return, DOMAIN word' = DOMAIN word
    PROVE  /\ todo' \in Seq(Operation) /\ pc' = "call"
           /\ \A i \in DOMAIN todo' :
                  Legal(todo'[i]) /\ todo'[i].field.reg \in DOMAIN word'
<1>1. /\ todo' \in Seq(Operation) /\ Len(todo') = Len(todo) - 1
      /\ \A i \in 1 .. Len(todo') : todo'[i] = todo[i + 1]
  BY HeadTailProperties DEF TypeOK, Return
<1>2. DOMAIN todo = 1 .. Len(todo) /\ DOMAIN todo' = 1 .. Len(todo')
  BY <1>1 DEF TypeOK
<1>3. Len(todo) \in Nat
  BY DEF TypeOK
<1>4. \A i \in DOMAIN todo' : i + 1 \in DOMAIN todo
  BY <1>1, <1>2, <1>3
<1> QED BY <1>1, <1>2, <1>4 DEF TypeOK, Return

LEMMA InitInv == RegInit => IInv
<1> SUFFICES ASSUME RegInit PROVE IInv
  OBVIOUS
<1>1. todo \in Seq(Operation) /\ \A i \in DOMAIN todo : Legal(todo[i])
  BY ProgramsAssumption DEF RegInit
<1>2. PICK w \in InitialWords :
          word = [r \in {todo[i].field.reg : i \in DOMAIN todo} |-> w[r]]
  BY DEF RegInit
<1>3. \A i \in DOMAIN todo : todo[i] \in Operation
  BY <1>1
<1>4. \A i \in DOMAIN todo : todo[i].field.reg \in Registers
  BY <1>3 DEF Operation, Field, FieldsOf
<1>5. w \in [Registers -> SUBSET WordBits]
  BY InitialWordsAssumption
<1>6. /\ DOMAIN word \subseteq Registers
      /\ word \in [DOMAIN word -> SUBSET WordBits]
      /\ \A i \in DOMAIN todo : todo[i].field.reg \in DOMAIN word
  BY <1>2, <1>4, <1>5
<1>7. status \subseteq Played /\ \A f \in status : IsReset(f)
  BY DEF RegInit
<1> QED BY <1>1, <1>6, <1>7 DEF IInv, TypeOK, MacroInv, RegInit

LEMMA NextInv == IInv /\ [RegNext]_regVars => IInv'
<1> SUFFICES ASSUME IInv, [RegNext]_regVars PROVE IInv'
  OBVIOUS
<1>1. CASE ReadWord
  <2>1. todo # <<>> /\ Call.kind = "set" /\ Call.field.reg \in DOMAIN word
    BY <1>1, LegalCall DEF IInv, ReadWord, Calling
  <2>2. cache' \subseteq WordBits
    BY <1>1, <2>1 DEF IInv, TypeOK, ReadWord
  <2>3. Played' = Played /\ Call' = Call
    BY <1>1 DEF ReadWord, Played, Call
  <2>4. TypeOK'
    BY <1>1, <2>2, <2>3 DEF IInv, TypeOK, ReadWord
  <2>5. cache' = word'[Call'.field.reg]
    BY <1>1, <2>3 DEF ReadWord
  <2>6. MacroInv'
    BY <1>1, <2>1, <2>3, <2>5 DEF IInv, MacroInv, ReadWord
  <2> QED BY <2>4, <2>6 DEF IInv
<1>2. CASE SetField
  <2>1. todo # <<>>
    BY <1>2 DEF IInv, MacroInv, SetField
  <2>2. DOMAIN word' = DOMAIN word /\ word' \in [DOMAIN word -> SUBSET WordBits]
    BY <1>2, StoreEffect DEF SetField
  <2>3. Played' = Played
    BY <2>2, PlayedConstant
  <2>4. TypeOK'
    BY <1>2, <2>1, <2>2, <2>3, ReturnTyped DEF IInv, TypeOK, SetField, Return
  <2>5. MacroInv'
    BY <1>2 DEF IInv, MacroInv, SetField, Return
  <2> QED BY <2>4, <2>5 DEF IInv
<1>3. CASE SetReset
  <2>1. todo # <<>> /\ Call.kind = "set" /\ IsReset(Call.field)
    BY <1>3 DEF IInv, MacroInv, SetReset
  <2>2. DOMAIN word' = DOMAIN word /\ word' \in [DOMAIN word -> SUBSET WordBits]
    BY <1>3, StoreEffect DEF SetReset
  <2>3. Played' = Played /\ Call' = Call
    BY <1>3, <2>2, PlayedConstant DEF SetReset, Call
  <2>4. TypeOK'
    BY <1>3, <2>2, <2>3 DEF IInv, TypeOK, SetReset
  <2>5. Value(Call.field)' = Call.value \intersect Lowest(Call.field.at)
    <3>1. \A g : g = Call.field =>
              Value(g)' = Call.value \intersect Lowest(g.at)
      BY <1>3, StoreEffect DEF SetReset
    <3> QED BY <2>3, <3>1 DEF Value
  <2>6. Call.field.at.width = 1 /\ Call.value \in {{}, {0}}
    BY <2>1, LegalCall, ShapesAssumption DEF IInv, IsReset
  <2>7. Call.value \intersect Lowest(Call.field.at) = Call.value
    BY <2>6 DEF Lowest
  <2>8. MacroInv'
    BY <1>3, <2>1, <2>3, <2>5, <2>7 DEF IInv, MacroInv, SetReset
  <2> QED BY <2>4, <2>8 DEF IInv
<1>4. CASE PollStatus
  <2>1. todo # <<>> /\ word' = word /\ Played' = Played
    BY <1>4 DEF IInv, MacroInv, PollStatus, Played
  <2>2. TypeOK'
    BY <1>4, <2>1, ReturnTyped DEF IInv, TypeOK, PollStatus, Return
  <2> QED BY <1>4, <2>2 DEF IInv, MacroInv, PollStatus, Return
<1>5. CASE GetField
  <2>1. todo # <<>> /\ word' = word /\ Played' = Played
    BY <1>5 DEF GetField, Calling, Played
  <2>2. result' \subseteq WordBits
    <3>1. /\ Call.field.at \in Layout[Call.field.reg]
          /\ Call.field.reg \in Registers
      BY <2>1, LegalCall DEF IInv
    <3>2. /\ Call.field.at.shift \in Nat /\ Call.field.at.width \in Nat
          /\ Bits(Call.field.at) \subseteq WordBits
      BY <3>1, ShapesAssumption
    <3>3. \A b \in Lowest(Call.field.at) : b \in WordBits
      BY <3>2 DEF Lowest, Bits, WordBits
    <3> QED BY <1>5, <3>3 DEF GetField, Value, ValueIn
  <2>3. TypeOK'
    BY <1>5, <2>1, <2>2, ReturnTyped DEF IInv, TypeOK, GetField, Return
  <2> QED BY <1>5, <2>3 DEF IInv, MacroInv, GetField, Return
<1>6. CASE ReadResetStatus
  <2>1. todo # <<>> /\ word' = word /\ Played' = Played
    BY <1>6 DEF ReadResetStatus, Calling, Played
  <2>2. result' \subseteq WordBits
    BY <1>6 DEF ReadResetStatus, WordBits
  <2>3. TypeOK'
    BY <1>6, <2>1, <2>2, ReturnTyped DEF IInv, TypeOK, ReadResetStatus, Return
  <2> QED BY <1>6, <2>3 DEF IInv, MacroInv, ReadResetStatus, Return
<1>7. ASSUME NEW f \in Played, Follow(f)
      PROVE  IInv'
  <2>1. word' = word /\ Played' = Played /\ Call' = Call
    BY <1>7 DEF Follow, hart, Played, Call
  <2>2. TypeOK'
    BY <1>7, <2>1 DEF IInv, TypeOK, Follow, hart
  <2>3. MacroInv'
    BY <1>7, <2>1 DEF IInv, MacroInv, Follow, hart, Value
  <2> QED BY <2>2, <2>3 DEF IInv
<1>8. ASSUME NEW r \in DOMAIN word, Drive(r)
      PROVE  IInv'
  <2>1. /\ DOMAIN word' = DOMAIN word
        /\ word' \in [DOMAIN word -> SUBSET WordBits]
        /\ word'[r] \ Driven(r) = word[r] \ Driven(r)
        /\ \A q \in DOMAIN word : q # r => word'[q] = word[q]
    BY <1>8, DriveEffect
  <2>2. Played' = Played /\ Call' = Call
    BY <1>8, <2>1, PlayedConstant DEF Drive, hart, Call
  <2>3. TypeOK'
    BY <1>8, <2>1, <2>2 DEF IInv, TypeOK, Drive, hart
  <2>4. \A g \in Played : IsReset(g) => Value(g)' = Value(g)
    BY <1>8, DriveEffect DEF IsReset
  <2>5. pc = "store" \/ pc = "poll" => Call.field \in Played /\ Call.field.reg \in DOMAIN word
    BY LegalCall DEF IInv, MacroInv
  <2>6. pc = "poll" => Value(Call.field)' = Call.value
    BY <2>2, <2>4, <2>5 DEF IInv, MacroInv, Value
  <2>7. pc = "store" =>
          LET q == Call.field.reg
          IN  cache \ Driven(q) = word'[q] \ Driven(q)
    BY <2>1, <2>5 DEF IInv, MacroInv
  <2>8. MacroInv'
    BY <1>8, <2>2, <2>6, <2>7 DEF IInv, MacroInv, Drive, hart
  <2> QED BY <2>3, <2>8 DEF IInv
<1>9. CASE UNCHANGED regVars
  <2>1. Played' = Played /\ Call' = Call
    BY <1>9 DEF regVars, Played, Call
  <2> QED BY <1>9, <2>1 DEF IInv, TypeOK, MacroInv, regVars, Value
<1> QED BY <1>1, <1>2, <1>3, <1>4, <1>5, <1>6, <1>7, <1>8, <1>9
        DEF RegNext, Macro, Hardware

-----------------------------------------------------------------------------
(* The theorems.                                                           *)

LEMMA SpecInv == RegSpec => []IInv
<1>1. RegInit => IInv
  BY InitInv
<1>2. IInv /\ [RegNext]_regVars => IInv'
  BY NextInv
<1> QED BY <1>1, <1>2, PTL DEF RegSpec

(* Every reachable state is well typed, for every layout of disjoint       *)
(* fields: no macro leaves a word of more than 32 bits, nor a call that no *)
(* header defines.                                                         *)
THEOREM TypeCorrect == RegSpec => []TypeOK
<1>1. IInv => TypeOK
  BY DEF IInv
<1> QED BY <1>1, SpecInv, PTL

LEMMA InitRefines == RegInit => Store!Init
<1> SUFFICES ASSUME RegInit PROVE Store!Init
  OBVIOUS
<1>0. IInv
  BY InitInv
<1>1. \A f \in Played : f \in Field
  BY DEF Played
<1>2. \A f \in Played : Value(f) \subseteq Lowest(f.at)
  BY DEF Value, ValueIn
<1>3. \A f \in Played : IsReset(f) =>
          ((f \in status) = (f.at.role = "rst") <=> 0 \in Value(f))
  BY DEF RegInit, LineLevel, IsReset
<1>4. {f \in Played : IsReset(f) /\ (f \in status) = (f.at.role = "rst")} =
      {f \in Played : IsReset(f) /\ 0 \in Value(f)}
  BY <1>3
<1>5. todo \in Seq(Operation) /\ (pc = "poll") = FALSE /\ result = {}
  BY <1>0 DEF RegInit, IInv, TypeOK
<1> QED BY <1>1, <1>2, <1>4, <1>5
        DEF Store!Init, Store!Lowest, Store!IsReset, Store!Asserted, Lowest, IsReset

\* What the store sees of a state: the substitution of the refinement.
Seen == [f \in Played |-> Value(f)]
Held == {f \in Played : IsReset(f) /\ (f \in status) = (f.at.role = "rst")}

\* A store of the hart is an assignment of the abstract store.
LEMMA StoreAssigns ==
    ASSUME IInv, pc = "store", StoreWord
    PROVE  /\ Played' = Played
           /\ Seen' = [Seen EXCEPT ![Call.field] =
                          Call.value \intersect Lowest(Call.field.at)]
<1> DEFINE f == Call.field
           v == Call.value \intersect Lowest(f.at)
<1>1. f \in Played
  BY LegalCall DEF IInv, MacroInv
<1>2. DOMAIN word' = DOMAIN word
  BY StoreEffect
<1>3. Played' = Played
  BY <1>2, PlayedConstant
<1>4. \A g : g = f => Value(g)' = Call.value \intersect Lowest(g.at)
  BY StoreEffect
<1>5. \A g \in Played : g # f => Value(g)' = Value(g)
  BY StoreEffect
<1> HIDE DEF f
<1>6. \A g \in Played : Value(g)' = IF g = f THEN v ELSE Value(g)
  BY <1>4, <1>5
<1>7. Seen' = [g \in Played |-> Value(g)']
  BY <1>3 DEF Seen
<1>8. Seen' = [Seen EXCEPT ![f] = v]
  BY <1>6, <1>7 DEF Seen
<1> QED BY <1>3, <1>8 DEF f

LEMMA NextRefines == IInv /\ [RegNext]_regVars => [Store!Next]_Store!vars
<1> SUFFICES ASSUME IInv, [RegNext]_regVars
             PROVE  [Store!Next]_Store!vars
  OBVIOUS
<1> USE DEF Store!Return, Store!Call, Store!IsReset, Store!Lowest, Store!Asserted
<1>1. CASE ReadWord
  <2>1. word' = word /\ Played' = Played
    BY <1>1 DEF ReadWord, Played
  <2>2. Seen' = Seen /\ Held' = Held /\ todo' = todo /\ result' = result
    BY <1>1, <2>1 DEF ReadWord, Seen, Held, Value
  <2>3. (pc' = "poll") = (pc = "poll")
    BY <1>1 DEF ReadWord, Calling
  <2> QED BY <2>2, <2>3 DEF Store!vars, Seen, Held
<1>2. CASE SetField
  <2>1. todo # <<>> /\ Call.kind = "set" /\ ~IsReset(Call.field)
    BY <1>2 DEF IInv, MacroInv, SetField
  <2>2. /\ Played' = Played
        /\ Seen' = [Seen EXCEPT ![Call.field] =
                       Call.value \intersect Lowest(Call.field.at)]
    BY <1>2, StoreAssigns DEF SetField
  <2>3. Held' = Held /\ result' = result /\ todo' = Tail(todo)
    BY <1>2, <2>2 DEF SetField, Held, Return
  <2>4. (pc' = "poll") = (pc = "poll")
    BY <1>2 DEF SetField, Return
  <2>5. Store!SetField
    BY <2>1, <2>2, <2>3, <2>4
       DEF Store!SetField, Store!Assign, Seen, Held, Call, IsReset, Lowest
  <2> QED BY <2>5 DEF Store!Next
<1>3. CASE SetReset
  <2>1. todo # <<>> /\ Call.kind = "set" /\ IsReset(Call.field)
    BY <1>3 DEF IInv, MacroInv, SetReset
  <2>2. /\ Played' = Played
        /\ Seen' = [Seen EXCEPT ![Call.field] =
                       Call.value \intersect Lowest(Call.field.at)]
    BY <1>3, StoreAssigns DEF SetReset
  <2>3. Held' = Held /\ result' = result /\ todo' = todo
    BY <1>3, <2>2 DEF SetReset, Held
  <2>4. (pc' = "poll") = TRUE /\ (pc = "poll") = FALSE
    BY <1>3 DEF SetReset
  <2>5. Store!SetReset
    BY <2>1, <2>2, <2>3, <2>4
       DEF Store!SetReset, Store!Assign, Seen, Held, Call, IsReset, Lowest
  <2> QED BY <2>5 DEF Store!Next
<1>4. CASE PollStatus
  <2>1. /\ todo # <<>> /\ Call.kind = "set" /\ IsReset(Call.field)
        /\ word' = word /\ Played' = Played /\ Call.field \in Played
        /\ Call.value \in {{}, {0}}
    BY <1>4, LegalCall DEF IInv, MacroInv, PollStatus, Played
  <2>2. Seen' = Seen /\ Held' = Held /\ result' = result /\ todo' = Tail(todo)
    BY <1>4, <2>1 DEF PollStatus, Seen, Held, Value, Return
  <2>3. (pc' = "poll") = FALSE /\ (pc = "poll") = TRUE
    BY <1>4 DEF PollStatus, Return
  <2>4. (Call.field \in status) = Awaited(Call.field, Call.value)
    BY <1>4 DEF PollStatus
  <2>5. (Call.field \in Held) = (0 \in Call.value)
    <3>1. CASE Call.field.at.role = "rst"
      BY <2>1, <2>4, <3>1 DEF Awaited, Held
    <3>2. CASE Call.field.at.role # "rst"
      BY <2>1, <2>4, <3>2 DEF Awaited, Held
    <3> QED BY <3>1, <3>2
  <2>6. Store!ResetReturns
    BY <2>2, <2>3, <2>5 DEF Store!ResetReturns, Seen, Held, Call
  <2> QED BY <2>6 DEF Store!Next
<1>5. CASE GetField
  <2>1. /\ todo # <<>> /\ Call.kind = "get" /\ ~IsReset(Call.field)
        /\ word' = word /\ Played' = Played /\ Call.field \in Played
    BY <1>5, LegalCall DEF IInv, GetField, Calling, Played
  <2>2. Seen' = Seen /\ Held' = Held /\ todo' = Tail(todo)
    BY <1>5, <2>1 DEF GetField, Seen, Held, Value, Return
  <2>3. (pc' = "poll") = (pc = "poll")
    BY <1>5 DEF GetField, Calling, Return
  <2>4. result' = Seen[Call.field]
    BY <1>5, <2>1 DEF GetField, Seen
  <2>5. Store!GetField
    BY <2>1, <2>2, <2>3, <2>4 DEF Store!GetField, Seen, Held, Call, IsReset
  <2> QED BY <2>5 DEF Store!Next
<1>6. CASE ReadResetStatus
  <2>1. /\ todo # <<>> /\ Call.kind = "get" /\ IsReset(Call.field)
        /\ word' = word /\ Played' = Played /\ Call.field \in Played
    BY <1>6, LegalCall DEF IInv, ReadResetStatus, Calling, Played
  <2>2. Seen' = Seen /\ Held' = Held /\ todo' = Tail(todo)
    BY <1>6, <2>1 DEF ReadResetStatus, Seen, Held, Value, Return
  <2>3. (pc' = "poll") = (pc = "poll")
    BY <1>6 DEF ReadResetStatus, Calling, Return
  <2>4. result' = IF (Call.field \in Held) = (Call.field.at.role = "rst")
                  THEN {0} ELSE {}
    <3>1. CASE Call.field.at.role = "rst"
      BY <1>6, <2>1, <3>1 DEF ReadResetStatus, Held
    <3>2. CASE Call.field.at.role # "rst"
      BY <1>6, <2>1, <3>2 DEF ReadResetStatus, Held
    <3> QED BY <3>1, <3>2
  <2>5. Store!GetField
    BY <2>1, <2>2, <2>3, <2>4
       DEF Store!GetField, Store!StatusBit, Seen, Held, Call, IsReset
  <2> QED BY <2>5 DEF Store!Next
<1>7. ASSUME NEW f \in Played, Follow(f)
      PROVE  Store!Next
  <2>1. word' = word /\ Played' = Played /\ IsReset(f) /\ f.at.role \in {"rst", "rstn"}
    BY <1>7 DEF Follow, hart, Played, IsReset
  <2>2. Seen' = Seen /\ todo' = todo /\ result' = result /\ (pc' = "poll") = (pc = "poll")
    BY <1>7, <2>1 DEF Follow, hart, Seen, Value
  <2>3. (f \in Held) # (0 \in Value(f))
    BY <1>7, <2>1 DEF Follow, LineLevel, Held
  <2>4. \A g \in Played : (g \in status') = (IF g = f THEN f \notin status ELSE g \in status)
    BY <1>7 DEF Follow
  <2>5. Held' = {g \in Played : IsReset(g) /\ (g \in status') = (g.at.role = "rst")}
    BY <2>1 DEF Held, IsReset
  <2>6. \A g \in Played : g \in Held' <=> IF g = f THEN f \notin Held ELSE g \in Held
    BY <2>1, <2>4, <2>5 DEF Held
  <2>7. Held' \subseteq Played /\ Held \subseteq Played
    BY <2>5 DEF Held
  <2>8. Held' = IF f \in Held THEN Held \ {f} ELSE Held \union {f}
    BY <2>6, <2>7
  <2>9. Seen[f] = Value(f)
    BY DEF Seen
  <2>10. Store!Follow(f)
    BY <2>1, <2>2, <2>3, <2>8, <2>9 DEF Store!Follow, Seen, Held, IsReset
  <2> QED BY <2>10 DEF Store!Next
<1>8. ASSUME NEW r \in DOMAIN word, Drive(r)
      PROVE  Store!Next
  <2>1. DOMAIN word' = DOMAIN word
    BY <1>8, DriveEffect
  <2>2. Played' = Played
    BY <2>1, PlayedConstant
  <2>3. PICK ones \in BOOLEAN : \A g \in Played :
            Value(g)' = IF g.reg = r /\ g.at.role = "status"
                        THEN IF ones THEN Lowest(g.at) ELSE {}
                        ELSE Value(g)
    BY <1>8, DriveEffect
  <2>4. Seen' = [g \in Played |-> Value(g)']
    BY <2>2 DEF Seen
  <2>5. Seen' = [g \in Played |->
                   IF g.reg = r /\ g.at.role = "status"
                   THEN IF ones THEN Lowest(g.at) ELSE {}
                   ELSE Seen[g]]
    BY <2>3, <2>4 DEF Seen
  <2>6. /\ Held' = Held /\ todo' = todo /\ result' = result
        /\ (pc' = "poll") = (pc = "poll")
    BY <1>8, <2>2 DEF Drive, hart, Held
  <2>7. DOMAIN Seen = Played
    BY DEF Seen
  <2>8. Store!Drive(r)
    BY <2>5, <2>6, <2>7 DEF Store!Drive, Seen, Held, Lowest
  <2>9. PICK a \in Layout[r] : a.role = "status"
    BY <1>8 DEF Drive, Driven
  <2>10. [reg |-> r, at |-> a] \in Played /\ [reg |-> r, at |-> a].reg = r
    BY <1>8, <2>9 DEF IInv, TypeOK, Drive, Field, Played, FieldsOf
  <2> QED BY <2>7, <2>8, <2>10 DEF Store!Next, Seen
<1>9. CASE UNCHANGED regVars
  <2>1. Played' = Played
    BY <1>9 DEF regVars, Played
  <2> QED BY <1>9, <2>1 DEF regVars, Store!vars, Value
<1> QED BY <1>1, <1>2, <1>3, <1>4, <1>5, <1>6, <1>7, <1>8, <1>9
        DEF RegNext, Macro, Hardware

(* For every layout of disjoint fields, every sequence of calls and        *)
(* whatever the registers hold, the macros implement FieldStore: a         *)
(* read-modify-write changes its own field alone and a macro that sets a   *)
(* reset returns when the block has followed, whichever its polarity.      *)
THEOREM Refinement == RegSpec => ImplementsFieldStore
<1>1. RegInit => Store!Init
  BY InitRefines
<1>2. IInv /\ [RegNext]_regVars => [Store!Next]_Store!vars
  BY NextRefines
<1> QED BY <1>1, <1>2, SpecInv, PTL DEF RegSpec, Store!Spec, ImplementsFieldStore

-----------------------------------------------------------------------------
(* Pulses.                                                                 *)

\* Every block is where its reset says, but for the one that is waited for.
Settled ==
    \A f \in Played :
        IsReset(f) /\ (pc = "poll" => f # Call.field) =>
            (f \in status) = LineLevel(f, 0 \in Value(f))

LEMMA InitSettled == RegInit => Settled
<1>1. ASSUME RegInit, NEW f \in Played, IsReset(f)
      PROVE  (f \in status) = LineLevel(f, 0 \in Value(f))
  BY <1>1 DEF RegInit, LineLevel
<1> QED BY <1>1 DEF Settled

LEMMA NextSettled == IInv /\ Settled /\ [RegNext]_regVars => Settled'
<1> SUFFICES ASSUME IInv, Settled, [RegNext]_regVars PROVE Settled'
  OBVIOUS
<1>1. ASSUME word' = word, status' = status, pc # "poll", pc' # "poll"
      PROVE  Settled'
  BY <1>1 DEF Settled, Played, Value, LineLevel
<1>2. CASE ReadWord \/ GetField \/ ReadResetStatus
  BY <1>1, <1>2 DEF ReadWord, GetField, ReadResetStatus, Calling, Return
<1>3. CASE SetField
  <2>1. ~IsReset(Call.field) /\ status' = status /\ pc = "store"
    BY <1>3 DEF SetField
  <2>2. /\ DOMAIN word' = DOMAIN word
        /\ \A g \in Played : g # Call.field => Value(g)' = Value(g)
    BY <1>3, StoreEffect DEF SetField
  <2>3. Played' = Played
    BY <2>2, PlayedConstant
  <2>4. \A g \in Played : IsReset(g) => g # Call.field
    BY <2>1
  <2> QED BY <2>1, <2>2, <2>3, <2>4 DEF Settled, LineLevel
<1>4. CASE SetReset
  <2>1. status' = status /\ pc = "store" /\ pc' = "poll" /\ Call' = Call
    BY <1>4 DEF SetReset, Call
  <2>2. /\ DOMAIN word' = DOMAIN word
        /\ \A g \in Played : g # Call.field => Value(g)' = Value(g)
    BY <1>4, StoreEffect DEF SetReset
  <2>3. Played' = Played
    BY <2>2, PlayedConstant
  <2> QED BY <2>1, <2>2, <2>3 DEF Settled, LineLevel
<1>5. CASE PollStatus
  <2>1. /\ word' = word /\ status' = status /\ Played' = Played
        /\ pc = "poll" /\ Call.field \in Played /\ Call.value \in {{}, {0}}
        /\ Value(Call.field) = Call.value
    BY <1>5, LegalCall DEF IInv, MacroInv, PollStatus, Played
  <2>2. (Call.field \in status) = LineLevel(Call.field, 0 \in Value(Call.field))
    BY <1>5, <2>1 DEF PollStatus, Awaited, LineLevel
  <2>3. \A g \in Played : IsReset(g) =>
            (g \in status) = LineLevel(g, 0 \in Value(g))
    BY <2>2 DEF Settled
  <2>4. \A g : Value(g)' = Value(g)
    BY <2>1 DEF Value
  <2> QED BY <2>1, <2>3, <2>4 DEF Settled, LineLevel
<1>6. ASSUME NEW f \in Played, Follow(f)
      PROVE  Settled'
  <2>1. word' = word /\ pc' = pc /\ Call' = Call /\ Played' = Played
    BY <1>6 DEF Follow, hart, Call, Played
  <2>2. \A g : Value(g)' = Value(g)
    BY <2>1 DEF Value
  <2>3. IsReset(f) /\ (f \in status) # LineLevel(f, 0 \in Value(f))
    BY <1>6 DEF Follow
  <2>4. pc = "poll" /\ f = Call.field
    BY <2>3 DEF Settled
  <2>5. \A g \in Played : g # f => (g \in status') = (g \in status)
    BY <1>6 DEF Follow
  <2> QED BY <2>1, <2>2, <2>4, <2>5 DEF Settled, LineLevel
<1>7. ASSUME NEW r \in DOMAIN word, Drive(r)
      PROVE  Settled'
  <2>1. status' = status /\ pc' = pc /\ Call' = Call
    BY <1>7 DEF Drive, hart, Call
  <2>2. Played' = Played
    BY <1>7, DriveEffect, PlayedConstant
  <2>3. \A g \in Played : IsReset(g) => Value(g)' = Value(g)
    BY <1>7, DriveEffect DEF IsReset
  <2> QED BY <2>1, <2>2, <2>3 DEF Settled, LineLevel
<1>8. CASE UNCHANGED regVars
  BY <1>8 DEF regVars, Settled, Played, Value, LineLevel, Call
<1> QED BY <1>2, <1>3, <1>4, <1>5, <1>6, <1>7, <1>8
        DEF RegNext, Macro, Hardware

(* For every layout, every sequence of calls and however slow the hardware *)
(* is, an asserted reset is never taken back before its block was held.    *)
THEOREM PulseIsFull == RegSpec => FullPulse
<1>1. IInv /\ Settled /\ [RegNext]_regVars =>
          [\A f \in Played :
               IsReset(f) /\ 0 \in Value(f) /\ 0 \notin Value(f)' =>
                   (f \in status) = Awaited(f, {0})]_regVars
  <2> SUFFICES ASSUME IInv, Settled, [RegNext]_regVars,
                      NEW f \in Played, IsReset(f),
                      0 \in Value(f), 0 \notin Value(f)'
               PROVE  (f \in status) = Awaited(f, {0})
    OBVIOUS
  <2>1. word' # word
    BY DEF Value
  <2>2. ~ \E r \in DOMAIN word : Drive(r)
    BY DriveEffect DEF IsReset
  <2>3. pc = "store"
    BY <2>1, <2>2 DEF RegNext, Macro, Hardware, ReadWord, SetField, SetReset,
                      PollStatus, GetField, ReadResetStatus, Follow, regVars
  <2>4. (f \in status) = LineLevel(f, TRUE)
    BY <2>3 DEF Settled, LineLevel
  <2> QED BY <2>4 DEF LineLevel, Awaited
<1>2. RegSpec => []Settled
  <2>1. RegInit => Settled
    BY InitSettled
  <2>2. IInv /\ Settled /\ [RegNext]_regVars => Settled'
    BY NextSettled
  <2> QED BY <2>1, <2>2, SpecInv, PTL DEF RegSpec
<1> QED BY <1>1, <1>2, SpecInv, PTL DEF RegSpec, FullPulse

(***************************************************************************)
(* 2. The start-up code and memory (Startup).                              *)
(***************************************************************************)

\* What a byte of the memory was when start.S began.
Original(a) == IF a \in Image THEN a + 1 ELSE Junk

\* How far the data has been copied, rounded up to what the last store
\* reaches, and how far the memory after it has been cleared.
CopiedTo == IF crt \in {"copy?", "copy"} THEN t1 ELSE BssStart
ClearedTo ==
    CASE crt = "clear" -> t1 [] crt = "main" -> BssEnd [] OTHER -> BssStart

\* The two loops stay between the symbols, 8 bytes at a time.
RegistersInv ==
    /\ sizes \in SectionSizes
    /\ crt \in {"copy?", "copy", "clear?", "clear", "main"}
    /\ crt \in {"copy?", "copy"} =>
           /\ t0 \in Nat /\ t1 = t0 + RomLength /\ t0 % 8 = 0 /\ t1 <= Edata
    /\ crt = "copy" => t1 < Edata
    /\ crt = "copy?" => t0 = 0
    /\ crt = "clear" =>
           t1 \in Nat /\ t1 % 8 = 0 /\ BssStart <= t1 /\ t1 < BssEnd

\* Every byte is copied, cleared or as it was.
MemoryInv ==
    /\ mem = [a \in 0 .. BssEnd + 7 |-> mem[a]]
    /\ \A a \in 0 .. BssEnd + 7 :
           /\ a \in Initialised /\ a < CopiedTo => mem[a] = (a - Data) + 1
           /\ a \in BssStart .. ClearedTo - 1 => mem[a] = 0
           /\ a \notin Data .. CopiedTo - 1 /\ a \notin BssStart .. ClearedTo - 1 =>
                  mem[a] = Original(a)

StartInv == RegistersInv /\ MemoryInv

LEMMA Align8 ==
    ASSUME NEW n \in Nat
    PROVE  /\ Align(n, 8) \in Nat /\ Align(n, 8) % 8 = 0
           /\ n <= Align(n, 8) /\ Align(n, 8) < n + 8
BY DEF Align

LEMMA Align64 ==
    ASSUME NEW n \in Nat
    PROVE  /\ Align(n, 64) \in Nat /\ Align(n, 64) % 8 = 0
           /\ n <= Align(n, 64) /\ Align(n, 64) < n + 64
BY DEF Align

\* Two multiples of 8 are 8 apart.
LEMMA Apart8 ==
    ASSUME NEW m \in Nat, NEW n \in Nat, m % 8 = 0, n % 8 = 0
    PROVE  /\ m < n => m + 8 <= n
           /\ (m + n) % 8 = 0 /\ (m + 8) % 8 = 0
OBVIOUS
\* A multiple of 8 just past n is n aligned.
LEMMA NextAligned ==
    ASSUME NEW m \in Nat, NEW n \in Nat, m % 8 = 0, m < n + 8, n <= m
    PROVE  m = Align(n, 8)
<1> DEFINE k == Align(n, 8)
<1>1. k \in Nat /\ k % 8 = 0 /\ n <= k /\ k < n + 8
  BY Align8
<1> HIDE DEF k
<1>2. (m < k => m + 8 <= k) /\ (k < m => k + 8 <= m)
  BY <1>1, Apart8
<1>3. m = k
  BY <1>1, <1>2
<1> QED BY <1>3 DEF k

\* Where the linker script puts the symbols.
LEMMA Symbols ==
    ASSUME sizes \in SectionSizes
    PROVE  /\ Data \in Nat /\ Edata \in Nat /\ BssStart \in Nat
           /\ Bss \in Nat /\ BssEnd \in Nat
           /\ Data % 8 = 0 /\ BssStart % 8 = 0 /\ BssEnd % 8 = 0
           /\ Data <= Edata /\ Edata <= 2 * Data /\ Edata <= BssStart
           /\ BssStart < Edata + 8 /\ BssStart <= Bss /\ Bss <= BssEnd
           /\ RomLength = Data
<1>1. /\ RomLength \in Nat /\ RomLength % 8 = 0 /\ Data = RomLength
      /\ sizes.data \in Nat /\ sizes.sdata \in Nat /\ sizes.bss \in Nat
      /\ Align(RomLength + sizes.data, 64) + sizes.sdata <= 2 * RomLength
  BY SectionsAssumption DEF Data
<1>2. Sdata \in Nat /\ Data <= Sdata
  BY <1>1, Align64 DEF Sdata
<1>3. Edata \in Nat /\ Data <= Edata /\ Edata <= 2 * Data
  BY <1>1, <1>2 DEF Edata, Sdata
<1>4. /\ BssStart \in Nat /\ BssStart % 8 = 0
      /\ Edata <= BssStart /\ BssStart < Edata + 8
  BY <1>3, Align8 DEF BssStart
<1>5. Bss \in Nat /\ Bss % 8 = 0 /\ Edata <= Bss
  BY <1>3, Align64 DEF Bss
<1>6. BssStart <= Bss
  BY <1>3, <1>4, <1>5, Apart8
<1>7. BssEnd \in Nat /\ BssEnd % 8 = 0 /\ Bss <= BssEnd
  <2>1. Bss + sizes.bss \in Nat /\ Bss <= Bss + sizes.bss
    BY <1>1, <1>5
  <2> HIDE DEF Bss
  <2>2. /\ BssEnd \in Nat /\ BssEnd % 8 = 0
        /\ Bss + sizes.bss <= BssEnd
    BY <2>1, Align8 DEF BssEnd
  <2> QED BY <1>5, <2>1, <2>2, <1>1
<1> QED BY <1>1, <1>3, <1>4, <1>5, <1>6, <1>7

LEMMA StartInitInv == StartInit => StartInv
<1> SUFFICES ASSUME StartInit PROVE StartInv
  OBVIOUS
<1>1. sizes \in SectionSizes /\ crt = "copy?" /\ t0 = 0 /\ t1 = Data
  BY DEF StartInit, DataLma
<1>2. RegistersInv
  BY <1>1, Symbols DEF RegistersInv
<1>3. mem = [a \in 0 .. BssEnd + 7 |-> Original(a)]
  BY DEF StartInit, Original
<1>4. CopiedTo = Data /\ ClearedTo = BssStart
  BY <1>1 DEF CopiedTo, ClearedTo
<1>5. MemoryInv
  BY <1>1, <1>3, <1>4, Symbols DEF MemoryInv, Initialised
<1> QED BY <1>2, <1>5 DEF StartInv

LEMMA StartNextInv == StartInv /\ [StartNext]_startVars => StartInv'
<1> SUFFICES ASSUME StartInv, [StartNext]_startVars PROVE StartInv'
  OBVIOUS
<1>0. /\ Data \in Nat /\ Edata \in Nat /\ BssStart \in Nat
      /\ Bss \in Nat /\ BssEnd \in Nat
      /\ Data % 8 = 0 /\ BssStart % 8 = 0 /\ BssEnd % 8 = 0
      /\ Data <= Edata /\ Edata <= 2 * Data /\ Edata <= BssStart
      /\ BssStart < Edata + 8 /\ BssStart <= Bss /\ Bss <= BssEnd
      /\ RomLength = Data
  BY Symbols DEF StartInv, RegistersInv
<1>1. /\ sizes' = sizes
      /\ BssStart' = BssStart /\ BssEnd' = BssEnd /\ Edata' = Edata
      /\ Data' = Data /\ Initialised' = Initialised
      /\ \A a : Original(a)' = Original(a)
  <2>1. sizes' = sizes
    BY DEF StartNext, EnterCopy, CopyDword, EnterClear, ClearDword, startVars
  <2> QED BY <2>1 DEF BssStart, BssEnd, Bss, Edata, Sdata, Data, Original,
                     Image, Initialised
<1>2. CASE EnterCopy
  <2>1. t0' = t0 /\ t1' = t1 /\ mem' = mem /\ crt = "copy?" /\ t0 = 0 /\ t1 = Data
    BY <1>0, <1>2 DEF EnterCopy, StartInv, RegistersInv
  <2>2. crt' \in {"copy", "clear?"} /\ (crt' = "copy" => t1 < Edata)
    BY <1>0, <1>2, <2>1 DEF EnterCopy
  <2>3. crt' = "clear?" => BssStart = Data
    <3>1. crt' = "clear?" => Edata = Data
      BY <1>0, <1>2, <2>1 DEF EnterCopy
    <3> QED BY <1>0, <3>1, Apart8
  <2>4. RegistersInv'
    BY <1>0, <1>1, <2>1, <2>2 DEF StartInv, RegistersInv
  <2>5. CopiedTo = Data /\ CopiedTo' = Data /\ ClearedTo' = ClearedTo
    BY <1>1, <2>1, <2>2, <2>3 DEF CopiedTo, ClearedTo
  <2>6. MemoryInv'
    BY <1>1, <2>1, <2>5 DEF StartInv, MemoryInv
  <2> QED BY <2>4, <2>6 DEF StartInv
<1>3. CASE CopyDword
  <2>1. /\ crt = "copy" /\ t0 \in Nat /\ t1 = t0 + Data /\ t0 % 8 = 0 /\ t1 < Edata
        /\ t0' = t0 + 8 /\ t1' = t1 + 8
    BY <1>0, <1>3 DEF CopyDword, StartInv, RegistersInv
  <2>2. crt' \in {"copy", "clear?"} /\ (crt' = "copy" <=> t1 + 8 < Edata)
    BY <1>3, <2>1 DEF CopyDword
  <2>3. /\ t1 \in Nat /\ t1 % 8 = 0 /\ (t0 + 8) % 8 = 0 /\ (t1 + 8) % 8 = 0
        /\ t0 + 8 <= Data
    BY <1>0, <2>1, Apart8
  <2>4. t1 + 8 <= BssStart /\ (crt' = "clear?" => BssStart = t1 + 8)
    <3>1. t1 + 8 <= BssStart
      BY <1>0, <2>1, <2>3, Apart8
    <3>2. ASSUME t1 + 8 >= Edata PROVE BssStart <= t1 + 8
      BY <1>0, <2>1, <2>3, <3>2, Apart8
    <3> QED BY <1>0, <2>1, <2>2, <2>3, <3>1, <3>2
  <2>5. RegistersInv'
    BY <1>0, <1>1, <2>1, <2>2, <2>3, <2>4 DEF StartInv, RegistersInv
  <2>6. /\ CopiedTo = t1 /\ CopiedTo' = t1 + 8
        /\ ClearedTo = BssStart /\ ClearedTo' = BssStart
    BY <1>1, <2>1, <2>2, <2>4 DEF CopiedTo, ClearedTo
  <2>7. mem' = [a \in 0 .. BssEnd + 7 |->
                   IF a \in t1 .. t1 + 7 THEN mem[a - Data] ELSE mem[a]]
    <3>1. DOMAIN mem = 0 .. BssEnd + 7
      BY DEF StartInv, MemoryInv
    <3>2. \A a \in 0 .. BssEnd + 7 : t0 + (a - t1) = a - Data
      BY <1>0, <2>1
    <3> QED BY <1>3, <3>1, <3>2 DEF CopyDword, Dword
  <2>8. \A a \in t1 .. t1 + 7 : mem[a - Data] = Original(a - Data)
    <3>1. \A a \in t1 .. t1 + 7 :
              /\ a - Data \in 0 .. BssEnd + 7
              /\ a - Data < Data
      BY <1>0, <2>1, <2>3
    <3> QED BY <1>0, <2>6, <3>1 DEF StartInv, MemoryInv
  <2>9. \A a \in t1 .. t1 + 7 : a < Edata => mem[a - Data] = (a - Data) + 1
    BY <1>0, <2>1, <2>8 DEF Original, Image
  <2>10. ASSUME NEW a \in 0 .. BssEnd + 7
         PROVE  /\ a \in Initialised /\ a < t1 + 8 => mem'[a] = (a - Data) + 1
                /\ a \notin Data .. t1 + 7 => mem'[a] = Original(a)
    <3>1. CASE a \in t1 .. t1 + 7
      BY <1>0, <2>1, <2>7, <2>9, <3>1 DEF Initialised
    <3>2. CASE a \notin t1 .. t1 + 7
      <4>1. mem'[a] = mem[a]
        BY <2>7, <3>2
      <4>2. a \in Initialised /\ a < t1 => mem[a] = (a - Data) + 1
        BY <2>6 DEF StartInv, MemoryInv
      <4>3. a \notin Data .. t1 - 1 => mem[a] = Original(a)
        BY <1>0, <2>6 DEF StartInv, MemoryInv
      <4> QED BY <1>0, <2>1, <3>2, <4>1, <4>2, <4>3
    <3> QED BY <3>1, <3>2
  <2>11. MemoryInv'
    <3>1. mem' = [a \in 0 .. BssEnd + 7 |-> mem'[a]]
      BY <2>7
    <3>2. \A a \in 0 .. BssEnd + 7 :
              /\ a \in Initialised /\ a < CopiedTo' => mem'[a] = (a - Data) + 1
              /\ a \in BssStart .. ClearedTo' - 1 => mem'[a] = 0
              /\ a \notin Data .. CopiedTo' - 1 => mem'[a] = Original(a)
      <4>1. CopiedTo' - 1 = t1 + 7
        BY <2>3, <2>6
      <4>2. ASSUME NEW a PROVE a \notin BssStart .. ClearedTo' - 1
        BY <1>0, <2>6
      <4> QED BY <2>6, <2>10, <4>1, <4>2, Zenon
    <3>3. (0 .. BssEnd + 7)' = 0 .. BssEnd + 7
      BY <1>1
    <3>4. \A a \in 0 .. BssEnd + 7 :
              /\ a \in Initialised' /\ a < CopiedTo' => mem'[a] = (a - Data') + 1
              /\ a \in BssStart' .. ClearedTo' - 1 => mem'[a] = 0
              /\ a \notin Data' .. CopiedTo' - 1 /\ a \notin BssStart' .. ClearedTo' - 1 =>
                     mem'[a] = Original(a)'
      BY <1>1, <3>2
    <3> QED BY <3>1, <3>3, <3>4, Zenon DEF MemoryInv
  <2> QED BY <2>5, <2>11 DEF StartInv
<1>4. CASE EnterClear
  <2>1. t1' = BssStart /\ mem' = mem /\ crt = "clear?"
    BY <1>4 DEF EnterClear
  <2>2. /\ crt' \in {"clear", "main"}
        /\ crt' = "clear" => BssStart < BssEnd
        /\ crt' = "main" => BssStart = BssEnd
    BY <1>0, <1>1, <1>4, <2>1 DEF EnterClear
  <2>3. RegistersInv'
    BY <1>0, <1>1, <2>1, <2>2 DEF StartInv, RegistersInv
  <2>4. CopiedTo' = CopiedTo /\ ClearedTo = BssStart /\ ClearedTo' = BssStart
    BY <1>1, <2>1, <2>2 DEF CopiedTo, ClearedTo
  <2>5. MemoryInv'
    BY <1>1, <2>1, <2>4 DEF StartInv, MemoryInv
  <2> QED BY <2>3, <2>5 DEF StartInv
<1>5. CASE ClearDword
  <2>1. /\ crt = "clear" /\ t1 \in Nat /\ t1 % 8 = 0 /\ t1' = t1 + 8
        /\ BssStart <= t1 /\ t1 < BssEnd
    BY <1>5 DEF ClearDword, StartInv, RegistersInv
  <2>2. t1 + 8 <= BssEnd /\ (t1 + 8) % 8 = 0
    BY <1>0, <2>1, Apart8
  <2>3. crt' \in {"clear", "main"} /\ (crt' = "clear" <=> t1 + 8 < BssEnd)
    BY <1>1, <1>5, <2>1 DEF ClearDword
  <2>4. RegistersInv'
    BY <1>0, <1>1, <2>1, <2>2, <2>3 DEF StartInv, RegistersInv
  <2>5. /\ CopiedTo = BssStart /\ CopiedTo' = BssStart
        /\ ClearedTo = t1 /\ ClearedTo' = t1 + 8
    BY <1>0, <1>1, <2>1, <2>2, <2>3 DEF CopiedTo, ClearedTo
  <2>6. mem' = [a \in 0 .. BssEnd + 7 |->
                   IF a \in t1 .. t1 + 7 THEN 0 ELSE mem[a]]
    BY <1>5 DEF ClearDword, Dword, StartInv, MemoryInv
  <2>7. ASSUME NEW a \in 0 .. BssEnd + 7
        PROVE  /\ a \in Initialised /\ a < BssStart => mem'[a] = (a - Data) + 1
               /\ a \in BssStart .. t1 + 7 => mem'[a] = 0
               /\ a \notin Data .. BssStart - 1 /\ a \notin BssStart .. t1 + 7 =>
                      mem'[a] = Original(a)
    <3>1. CASE a \in t1 .. t1 + 7
      BY <1>0, <2>1, <2>6, <3>1
    <3>2. CASE a \notin t1 .. t1 + 7
      <4>1. mem'[a] = mem[a]
        BY <2>6, <3>2
      <4> QED BY <1>0, <2>1, <2>5, <3>2, <4>1 DEF StartInv, MemoryInv
    <3> QED BY <3>1, <3>2
  <2>8. MemoryInv'
    <3>1. mem' = [a \in 0 .. BssEnd + 7 |-> mem'[a]]
      BY <2>6
    <3> QED BY <1>0, <1>1, <2>1, <2>5, <2>7, <3>1 DEF MemoryInv
  <2> QED BY <2>4, <2>8 DEF StartInv
<1>6. CASE UNCHANGED startVars
  BY <1>1, <1>6 DEF startVars, StartInv, RegistersInv, MemoryInv, CopiedTo,
                    ClearedTo
<1> QED BY <1>2, <1>3, <1>4, <1>5, <1>6 DEF StartNext

LEMMA StartInvReady == StartInv => RamReady
<1> SUFFICES ASSUME StartInv, crt = "main" PROVE RamReady
  BY DEF RamReady
<1>1. CopiedTo = BssStart /\ ClearedTo = BssEnd
  BY DEF CopiedTo, ClearedTo
<1>2. /\ Data \in Nat /\ Edata \in Nat /\ BssStart \in Nat
      /\ Bss \in Nat /\ BssEnd \in Nat
      /\ Data <= Edata /\ Edata <= BssStart /\ BssStart <= Bss /\ Bss <= BssEnd
  BY Symbols DEF StartInv, RegistersInv
<1>3. DOMAIN mem = 0 .. BssEnd + 7
  BY DEF StartInv, MemoryInv
<1>4. \A a \in Initialised : mem[a] = (a - Data) + 1
  BY <1>1, <1>2 DEF StartInv, MemoryInv, Initialised
<1>5. \A a \in Bss .. BssEnd - 1 : mem[a] = 0
  BY <1>1, <1>2 DEF StartInv, MemoryInv
<1>6. \A a \in Untouched : mem[a] = Original(a)
  BY <1>1, <1>2, <1>3 DEF StartInv, MemoryInv, Untouched
<1> QED BY <1>4, <1>5, <1>6 DEF RamReady, Original

(***************************************************************************)
(* 3. The console (Console).                                               *)
(***************************************************************************)

\* What uart_init has set up by its next write.
LineInv ==
    /\ con \in {"start", "init", "format", "send", "done"}
    /\ divisor = [low |-> divisor.low, high |-> divisor.high]
    /\ con = "start" => write = 1
    /\ con = "init" =>
           /\ write \in 1 .. 8
           /\ write \in 2 .. 4 => Dlab \in line
           /\ write >= 3 => divisor.low = Baud115200
           /\ write >= 4 => divisor.high = {}
           /\ write >= 6 => line = Cs8
    /\ LineSet

ItemsLeft == item <= Len(message.items)
ItemLetters == message.items[item].letters

\* vnprintf has written what is meant by the items before s, and va_list is
\* at the first argument of those from s on; or the buffer is full.
InStep ==
    /\ pos = message.cuts[item]
    /\ \A k \in vl .. item - 1 : ~IsConv(message.items[k])

BufferFull == pos >= OutSize /\ message.cuts[item] >= OutSize

FormatInv ==
    /\ item \in 1 .. Len(message.items) + 1
    /\ vl \in 1 .. item /\ pos \in Nat
    /\ IF ItemsLeft
       THEN /\ letter \in 1 .. Len(ItemLetters)
            /\ (longarg <=> letter = 3 /\ ItemLetters[2] = "l")
       ELSE letter = 1 /\ ~longarg
    /\ (format <=> letter > 1)
    /\ InStep \/ BufferFull
    /\ \A i \in 1 .. OutSize - 1 : i <= pos => out[i] = message.meant[i]

\* How much of the message is shown.
ShownLen ==
    IF Len(message.meant) < OutSize THEN Len(message.meant) ELSE OutSize - 1

SendInv ==
    /\ out[ShownLen + 1] = NUL
    /\ \A i \in 1 .. ShownLen : out[i] = message.meant[i]
    /\ ch \in 1 .. ShownLen + 1
    /\ con = "done" => ch = ShownLen + 1
    /\ wire \o thr = SubSeq(message.meant, 1, ch - 1)

PrintInv ==
    /\ message \in Messages
    /\ wire \in Seq(Characters) /\ thr \in Seq(Characters)
    /\ out = [i \in 1 .. OutSize |-> out[i]]
    /\ IF con \in {"send", "done"} THEN SendInv
       ELSE FormatInv /\ ch = 1 /\ wire = <<>> /\ thr = <<>>

ConsoleInv == LineInv /\ PrintInv

ConsoleStep == ConsoleNext \/ Transmit

LEMMA Registers7 == Dlab \notin Cs8 /\ Dlab \in Nat
BY DEF Dlab, Cs8

\* A character that is sent while DLAB is clear touches no other register.
LEMMA SendEffect ==
    ASSUME Dlab \notin line, NEW c, serial_out(THR, c)
    PROVE  line' = line /\ divisor' = divisor /\ irqs' = irqs /\ thr' = <<c>>
BY DEF serial_out, THR, LCR, IER, BRDL, BRDH, FCR, Dlab

LEMMA LineInitInv == ConsoleInit => LineInv
BY DEF ConsoleInit, LineInv, LineSet

LEMMA LineNextInv == LineInv /\ [ConsoleStep]_consoleVars => LineInv'
<1> SUFFICES ASSUME LineInv, [ConsoleStep]_consoleVars PROVE LineInv'
  OBVIOUS
<1>1. CASE UNCHANGED uartRegs /\ con' = con /\ write' = write
  BY <1>1 DEF LineInv, LineSet, uartRegs
<1>2. CASE ReadLine
  BY <1>2 DEF ReadLine, LineInv, LineSet, uartRegs
<1>3. CASE InitWrite
  <2> DEFINE w == InitWrites(lcr_cache)[write]
  <2>1. /\ serial_out(w[1], w[2]) /\ write' = write + 1
        /\ con' = (IF write = 8 THEN "format" ELSE "init") /\ con = "init"
        /\ write \in 1 .. 8
    BY <1>3 DEF InitWrite, LineInv
  <2>2. divisor' = [low |-> divisor'.low, high |-> divisor'.high]
    BY <2>1 DEF serial_out, LineInv
  <2> USE DEF serial_out, LineInv, LineSet, InitWrites,
              BRDL, IER, BRDH, FCR, LCR, MDC
  <2>3. CASE write = 1
    BY <2>1, <2>2, <2>3
  <2>4. CASE write = 2
    BY <2>1, <2>2, <2>4
  <2>5. CASE write = 3
    BY <2>1, <2>2, <2>5
  <2>6. CASE write = 4
    BY <2>1, <2>2, <2>6
  <2>7. CASE write = 5
    BY <2>1, <2>2, <2>7
  <2>8. CASE write = 6
    BY <2>1, <2>2, <2>8
  <2>9. CASE write = 7
    BY <2>1, <2>2, <2>9, Registers7
  <2>10. CASE write = 8
    BY <2>1, <2>2, <2>10, Registers7
  <2>11. \/ write = 1 \/ write = 2 \/ write = 3 \/ write = 4
         \/ write = 5 \/ write = 6 \/ write = 7 \/ write = 8
    BY <2>1
  <2> HIDE DEF LineInv
  <2> QED BY <2>3, <2>4, <2>5, <2>6, <2>7, <2>8, <2>9, <2>10, <2>11, Zenon
<1>4. CASE Terminate
  BY <1>4 DEF Terminate, LineInv, LineSet, uartRegs, initVars
<1>5. CASE PutChar
  <2>1. line = Cs8 /\ con = "send"
    BY <1>5 DEF PutChar, LineInv, LineSet
  <2>2. line' = line /\ divisor' = divisor /\ irqs' = irqs
    BY <1>5, <2>1, SendEffect, Registers7 DEF PutChar
  <2> QED BY <1>5, <2>1, <2>2 DEF PutChar, LineInv, LineSet, initVars
<1>6. CASE PrintReturns
  BY <1>6 DEF PrintReturns, LineInv, LineSet, uartRegs
<1>7. CASE FormatLetter \/ Transmit \/ UNCHANGED consoleVars
  BY <1>1, <1>7 DEF FormatLetter, Transmit, consoleVars, initVars
<1> QED BY <1>2, <1>3, <1>4, <1>5, <1>6, <1>7 DEF ConsoleStep, ConsoleNext

-----------------------------------------------------------------------------
\* Messages.

LEMMA MessageFacts ==
    ASSUME message \in Messages
    PROVE  /\ message.items \in Seq(Item) /\ Len(message.items) \in Nat
           /\ message.meant \in Seq(Characters) /\ Len(message.meant) \in Nat
           /\ message.cuts[1] = 0
           /\ message.cuts[Len(message.items) + 1] = Len(message.meant)
           /\ \A i \in 1 .. Len(message.items) + 1 : message.cuts[i] \in Nat
           /\ \A i \in 1 .. Len(message.items) :
                  /\ message.items[i] \in Item
                  /\ message.cuts[i + 1] =
                         message.cuts[i] + Len(TextOf(message.items[i]))
                  /\ \A k \in 1 .. Len(TextOf(message.items[i])) :
                         message.meant[message.cuts[i] + k] =
                             TextOf(message.items[i])[k]
                  /\ message.items[i].letters = <<"%", "c">> =>
                         Len(TextOf(message.items[i])) = 1
<1>1. IsMessage(message)
  BY MessagesAssumption
<1>2. message.items \in Seq(Item) /\ Len(message.items) \in Nat
  BY <1>1 DEF IsMessage
<1>3. \A i \in 1 .. Len(message.items) : message.items[i] \in Item
  BY <1>2
<1>4. /\ message.meant \in Seq(Characters) /\ Len(message.meant) \in Nat
      /\ message.cuts[1] = 0
      /\ message.cuts[Len(message.items) + 1] = Len(message.meant)
  BY <1>1 DEF IsMessage
<1>5. \A i \in 1 .. Len(message.items) + 1 : message.cuts[i] \in Nat
  BY <1>1 DEF IsMessage
<1>6. \A i \in 1 .. Len(message.items) :
          /\ message.cuts[i + 1] =
                 message.cuts[i] + Len(TextOf(message.items[i]))
          /\ \A k \in 1 .. Len(TextOf(message.items[i])) :
                 message.meant[message.cuts[i] + k] =
                     TextOf(message.items[i])[k]
          /\ message.items[i].letters = <<"%", "c">> =>
                 Len(TextOf(message.items[i])) = 1
  BY <1>1 DEF IsMessage
<1> QED BY <1>2, <1>3, <1>4, <1>5, <1>6

\* The shapes of an item.
LEMMA ItemShape ==
    ASSUME NEW i \in Item
    PROVE  /\ i.int \in Seq(Characters) /\ i.long \in Seq(Characters)
           /\ ~IsConv(i) => /\ Len(i.letters) = 1 /\ i.letters = <<i.letters[1]>>
                            /\ i.letters[1] \in Characters /\ i.letters[1] # "%"
           /\ IsConv(i) =>
                 /\ i.letters[1] = "%"
                 /\ \/ /\ Len(i.letters) = 2
                       /\ i.letters[2] \in {"x", "d", "p", "s", "c"}
                       /\ i.letters = <<"%", i.letters[2]>>
                    \/ /\ Len(i.letters) = 3
                       /\ i.letters[2] \in {"l", "0"} /\ i.letters[3] \in {"x", "d"}
<1>1. /\ i.int \in Seq(Characters) /\ i.long \in Seq(Characters)
      /\ i.letters \in {<<c>> : c \in Characters \ {"%"}} \union Conversions
  BY DEF Item
<1>2. CASE ~IsConv(i)
  <2>1. PICK c \in Characters \ {"%"} : i.letters = <<c>>
    BY <1>1, <1>2 DEF IsConv
  <2> QED BY <1>1, <1>2, <2>1
<1>3. CASE IsConv(i)
  <2>1. CASE i.letters \in {<<"%", c>> : c \in {"x", "d", "p", "s", "c"}}
    <3>1. PICK c \in {"x", "d", "p", "s", "c"} : i.letters = <<"%", c>>
      BY <2>1
    <3> QED BY <1>1, <1>3, <3>1
  <2>2. CASE i.letters \in {<<"%", flag, c>> : flag \in {"l", "0"}, c \in {"x", "d"}}
    <3>1. PICK flag \in {"l", "0"}, c \in {"x", "d"} : i.letters = <<"%", flag, c>>
      BY <2>2
    <3> QED BY <1>1, <1>3, <3>1
  <2> QED BY <1>3, <2>1, <2>2 DEF IsConv, Conversions
<1> QED BY <1>2, <1>3

LEMMA TextTyped ==
    ASSUME NEW i \in Item
    PROVE  TextOf(i) \in Seq(Characters) /\ Len(TextOf(i)) \in Nat
<1>1. CASE ~IsConv(i)
  <2> DEFINE c == i.letters[1]
  <2>1. i.letters = <<c>> /\ c \in Characters
    BY <1>1, ItemShape
  <2> HIDE DEF c
  <2>2. TextOf(i) = <<c>>
    BY <1>1, <2>1 DEF TextOf
  <2> QED BY <2>1, <2>2
<1>2. CASE IsConv(i)
  <2>1. <<"0", "x">> \in Seq(Characters)
    BY CharactersAssumption
  <2>2. <<"0", "x">> \o i.long \in Seq(Characters)
    BY <2>1, ItemShape, ConcatProperties
  <2>3. TextOf(i) \in Seq(Characters)
    BY <1>2, <2>2, ItemShape DEF TextOf
  <2> QED BY <2>3
<1> QED BY <1>1, <1>2

\* There is a first conversion from va_list's item on, at the latest the one
\* that is being formatted.
LEMMA ArgItemFound ==
    ASSUME item \in 1 .. Len(message.items), Len(message.items) \in Nat,
           vl \in 1 .. item, IsConv(message.items[item])
    PROVE  /\ ArgItem \in vl .. item /\ IsConv(message.items[ArgItem])
           /\ (\A k \in vl .. item - 1 : ~IsConv(message.items[k])) => ArgItem = item
<1> DEFINE T == {j \in vl .. item : IsConv(message.items[j])}
           First(j) == /\ IsConv(message.items[j])
                       /\ \A k \in vl .. j - 1 : ~IsConv(message.items[k])
<1>1. T \subseteq Nat /\ item \in T
  OBVIOUS
<1>2. PICK j \in T : \A k \in T : ~(<<k, j>> \in OpToRel(<, Nat))
  BY <1>1, WFMin, NatLessThanWellFounded
<1>3. \A k \in T : ~(k < j)
  BY <1>1, <1>2 DEF OpToRel
<1>4. j \in vl .. Len(message.items) /\ First(j)
  BY <1>3
<1>5. ArgItem \in vl .. Len(message.items) /\ First(ArgItem)
  BY <1>4 DEF ArgItem
<1>6. ArgItem <= item
  BY <1>5
<1> QED BY <1>5, <1>6

\* A text that is put at its place in the message leaves the buffer in
\* agreement with the message as far as it is put.
LEMMA PutEffect ==
    ASSUME FormatInv, ItemsLeft, message \in Messages,
           NEW text \in Seq(Characters), Put(text),
           InStep => text = TextOf(message.items[item])
    PROVE  /\ pos' \in Nat
           /\ InStep => pos' = message.cuts[item + 1]
           /\ BufferFull => pos' >= OutSize /\ message.cuts[item + 1] >= OutSize
           /\ \A i \in 1 .. OutSize - 1 : i <= pos' => out'[i] = message.meant[i]
<1>1. /\ item \in 1 .. Len(message.items) /\ pos \in Nat
      /\ message.items[item] \in Item
      /\ message.cuts[item] \in Nat /\ message.cuts[item + 1] \in Nat
      /\ message.cuts[item + 1] =
             message.cuts[item] + Len(TextOf(message.items[item]))
      /\ Len(TextOf(message.items[item])) \in Nat
  BY MessageFacts, TextTyped DEF FormatInv, ItemsLeft
<1>2. pos' = pos + Len(text) /\ Len(text) \in Nat
  BY DEF Put
<1>3. OutSize \in Nat
  BY OutSizeAssumption
<1>4. BufferFull => pos' >= OutSize /\ message.cuts[item + 1] >= OutSize
  BY <1>1, <1>2, <1>3 DEF BufferFull
<1>5. ASSUME NEW i \in 1 .. OutSize - 1, i <= pos'
      PROVE  out'[i] = message.meant[i]
  <2>1. out'[i] = IF i \in pos + 1 .. pos + Len(text) THEN text[i - pos] ELSE out[i]
    BY <1>3 DEF Put
  <2>2. CASE i <= pos
    BY <1>1, <1>2, <2>1, <2>2 DEF FormatInv
  <2>3. CASE i > pos
    <3>1. InStep
      BY <1>1, <1>3, <2>3 DEF FormatInv, BufferFull
    <3>2. i - pos \in 1 .. Len(text) /\ i = message.cuts[item] + (i - pos)
      <4>1. pos = message.cuts[item]
        BY <3>1 DEF InStep
      <4>2. i \in Int /\ i > pos /\ i <= pos + Len(text)
        BY <1>2, <1>5, <2>3
      <4>3. i - pos \in 1 .. Len(text) /\ i = pos + (i - pos)
        BY <1>1, <1>2, <4>2
      <4> QED BY <4>1, <4>3
    <3>3. message.meant[message.cuts[item] + (i - pos)] = text[i - pos]
      BY <1>1, <3>1, <3>2, MessageFacts
    <3>4. i \in pos + 1 .. pos + Len(text)
      BY <1>1, <1>2, <1>5, <2>3
    <3> QED BY <2>1, <3>2, <3>3, <3>4
  <2> QED BY <1>1, <2>2, <2>3
<1> QED BY <1>1, <1>2, <1>4, <1>5 DEF InStep

-----------------------------------------------------------------------------
\* The steps of vnprintf.

\* Where s is in its item.
LEMMA LetterFacts ==
    ASSUME FormatInv, message \in Messages, Formatting
    PROVE  /\ item \in 1 .. Len(message.items) /\ message.items[item] \in Item
           /\ Len(message.items) \in Nat /\ vl \in 1 .. item
           /\ letter \in 1 .. Len(ItemLetters) /\ Letter = ItemLetters[letter]
           /\ (format <=> letter > 1)
           /\ (longarg <=> letter = 3 /\ ItemLetters[2] = "l")
           /\ ~format /\ Letter # "%" =>
                  /\ ~IsConv(message.items[item])
                  /\ letter = Len(ItemLetters) /\ ItemLetters = <<Letter>>
                  /\ Letter \in Characters
           /\ ~format /\ Letter = "%" =>
                  /\ IsConv(message.items[item])
                  /\ letter = 1 /\ 1 < Len(ItemLetters)
           /\ format =>
                  /\ IsConv(message.items[item])
                  /\ \/ /\ letter = 2 /\ Len(ItemLetters) = 3
                        /\ Letter \in {"l", "0"} /\ ~longarg
                     \/ /\ letter = 2 /\ Len(ItemLetters) = 2
                        /\ Letter \in {"x", "d", "p", "s", "c"} /\ ~longarg
                        /\ ItemLetters = <<"%", Letter>>
                     \/ /\ letter = 3 /\ Len(ItemLetters) = 3
                        /\ Letter \in {"x", "d"}
<1> DEFINE it == message.items[item]
<1>1. /\ item \in 1 .. Len(message.items) /\ it \in Item
      /\ Len(message.items) \in Nat /\ vl \in 1 .. item
      /\ letter \in 1 .. Len(it.letters) /\ Letter = it.letters[letter]
      /\ (format <=> letter > 1)
      /\ (longarg <=> letter = 3 /\ it.letters[2] = "l")
  BY MessageFacts DEF FormatInv, Formatting, ItemsLeft, ItemLetters, Letter
<1>2. /\ ~IsConv(it) => /\ Len(it.letters) = 1 /\ it.letters = <<it.letters[1]>>
                        /\ it.letters[1] \in Characters /\ it.letters[1] # "%"
      /\ IsConv(it) =>
            /\ it.letters[1] = "%"
            /\ \/ /\ Len(it.letters) = 2
                  /\ it.letters[2] \in {"x", "d", "p", "s", "c"}
                  /\ it.letters = <<"%", it.letters[2]>>
               \/ /\ Len(it.letters) = 3
                  /\ it.letters[2] \in {"l", "0"} /\ it.letters[3] \in {"x", "d"}
  BY <1>1, ItemShape
<1>3. ItemLetters = it.letters
  BY DEF ItemLetters
<1> HIDE DEF it
<1>4. ~format => letter = 1
  BY <1>1
<1>5. ~format /\ Letter # "%" =>
          /\ ~IsConv(it)
          /\ letter = Len(it.letters) /\ it.letters = <<Letter>>
          /\ Letter \in Characters
  <2> SUFFICES ASSUME ~format, Letter # "%"
               PROVE  /\ ~IsConv(it)
                      /\ letter = Len(it.letters) /\ it.letters = <<Letter>>
                      /\ Letter \in Characters
    OBVIOUS
  <2>1. letter = 1 /\ Letter = it.letters[1]
    BY <1>1, <1>4
  <2>2. ~IsConv(it)
    BY <1>2, <2>1
  <2>3. Len(it.letters) = 1 /\ it.letters = <<it.letters[1]>> /\ Letter \in Characters
    BY <1>2, <2>1, <2>2
  <2> QED BY <2>1, <2>2, <2>3, Zenon
<1>6. ~format /\ Letter = "%" =>
          IsConv(it) /\ letter = 1 /\ 1 < Len(it.letters)
  <2> SUFFICES ASSUME ~format, Letter = "%"
               PROVE  IsConv(it) /\ letter = 1 /\ 1 < Len(it.letters)
    OBVIOUS
  <2>1. letter = 1 /\ it.letters[1] = "%"
    BY <1>1, <1>4
  <2>2. IsConv(it)
    BY <1>2, <2>1
  <2> QED BY <1>2, <2>1, <2>2
<1>7. format => IsConv(it) /\ letter \in {2, 3}
  BY <1>1, <1>2
<1>8. format =>
          \/ /\ letter = 2 /\ Len(it.letters) = 3
             /\ Letter \in {"l", "0"} /\ ~longarg
          \/ /\ letter = 2 /\ Len(it.letters) = 2
             /\ Letter \in {"x", "d", "p", "s", "c"} /\ ~longarg
             /\ it.letters = <<"%", Letter>>
          \/ /\ letter = 3 /\ Len(it.letters) = 3
             /\ Letter \in {"x", "d"}
  BY <1>1, <1>2, <1>7
<1> QED BY <1>1, <1>3, <1>5, <1>6, <1>7, <1>8 DEF it

LEMMA ItemDone ==
    ASSUME FormatInv, ItemsLeft, message \in Messages, message' = message,
           item' = item + 1, letter' = 1, format' = FALSE, longarg' = FALSE,
           vl' \in 1 .. item', pos' \in Nat, (InStep \/ BufferFull)',
           \A i \in 1 .. OutSize - 1 : i <= pos' => out'[i] = message.meant[i]
    PROVE  FormatInv'
<1>1. item' \in 1 .. Len(message.items) + 1 /\ item' \in Int
  BY MessageFacts DEF FormatInv, ItemsLeft
<1>2. ItemsLeft' => message.items[item'] \in Item
  BY <1>1, MessageFacts DEF ItemsLeft
<1>3. ItemsLeft' => 1 \in 1 .. Len(ItemLetters')
  BY <1>2, ItemShape DEF ItemLetters
<1> QED BY <1>1, <1>3 DEF FormatInv

LEMMA NextLetterWithin ==
    ASSUME FormatInv, ItemsLeft, message \in Messages, message' = message,
           NextLetter, letter < Len(ItemLetters),
           format' = TRUE, vl' = vl, pos' = pos, out' = out,
           longarg' <=> letter' = 3 /\ ItemLetters[2] = "l"
    PROVE  FormatInv'
<1>1. item' = item /\ letter' = letter + 1 /\ ItemLetters' = ItemLetters
  BY DEF NextLetter, ItemLetters
<1>2. ItemsLeft' /\ Len(message.items) \in Nat
  BY <1>1, MessageFacts DEF ItemsLeft
<1>3. Len(ItemLetters) \in Nat
  BY ItemShape, MessageFacts DEF FormatInv, ItemsLeft, ItemLetters
<1>4. letter' \in 1 .. Len(ItemLetters) /\ letter' > 1
  BY <1>1, <1>3 DEF FormatInv, ItemsLeft
<1>5. (InStep \/ BufferFull)'
  BY <1>1 DEF FormatInv, InStep, BufferFull
<1> QED BY <1>1, <1>2, <1>4, <1>5 DEF FormatInv

\* What vnprintf converts is what is meant, if va_list has kept in step.
LEMMA ConvertText ==
    ASSUME FormatInv, message \in Messages, Formatting, format,
           Letter \in {"x", "d", "p", "s", "c"}
    PROVE  LET arg == message.items[ArgItem]
               whole == Letter = "p" \/ (longarg /\ Letter # "s")
               text == (IF Letter = "p" THEN <<"0", "x">> ELSE <<>>) \o
                       (IF whole THEN arg.long ELSE arg.int)
           IN  /\ ArgItem \in 1 .. item /\ letter = Len(ItemLetters)
               /\ text \in Seq(Characters) /\ arg.int \in Seq(Characters)
               /\ InStep => text = TextOf(message.items[item])
               /\ Letter = "c" /\ InStep => arg.int = TextOf(message.items[item])
               /\ Letter = "c" => ItemLetters = <<"%", "c">>
<1> DEFINE it == message.items[item]
           arg == message.items[ArgItem]
           whole == Letter = "p" \/ (longarg /\ Letter # "s")
           prefix == IF Letter = "p" THEN <<"0", "x">> ELSE <<>>
           number == IF whole THEN arg.long ELSE arg.int
<1>1. /\ item \in 1 .. Len(message.items) /\ Len(message.items) \in Nat
      /\ vl \in 1 .. item /\ it \in Item /\ IsConv(it)
  BY LetterFacts
<1>2. \/ /\ letter = 2 /\ Len(it.letters) = 2 /\ ~longarg
         /\ it.letters = <<"%", Letter>>
      \/ /\ letter = 3 /\ Len(it.letters) = 3
         /\ Letter \in {"x", "d"}
         /\ (longarg <=> it.letters[2] = "l") /\ it.letters[2] \in {"l", "0"}
  <2>1. /\ \/ /\ letter = 2 /\ Len(it.letters) = 2 /\ ~longarg
              /\ it.letters = <<"%", Letter>>
           \/ /\ letter = 3 /\ Len(it.letters) = 3
              /\ Letter \in {"x", "d"}
        /\ (longarg <=> letter = 3 /\ it.letters[2] = "l")
    BY LetterFacts DEF ItemLetters
  <2> HIDE DEF it
  <2>2. Len(it.letters) = 3 => it.letters[2] \in {"l", "0"}
    <3>1. \/ Len(it.letters) = 2
          \/ Len(it.letters) = 3 /\ it.letters[2] \in {"l", "0"}
      BY <1>1, ItemShape
    <3> QED BY <3>1
  <2> QED BY <2>1, <2>2
<1>3. /\ ArgItem \in vl .. item
      /\ (\A k \in vl .. item - 1 : ~IsConv(message.items[k])) => ArgItem = item
  BY <1>1, ArgItemFound
<1>4. ArgItem \in 1 .. Len(message.items)
  BY <1>1, <1>3
<1>5. arg \in Item
  BY <1>4, MessageFacts
<1>6. arg.int \in Seq(Characters) /\ arg.long \in Seq(Characters)
  BY <1>5, ItemShape
<1>7. prefix \in Seq(Characters) /\ number \in Seq(Characters)
  BY <1>6, CharactersAssumption
<1>8. prefix \o number \in Seq(Characters)
  BY <1>7, ConcatProperties
<1>9. InStep => arg = it
  BY <1>3 DEF InStep
<1>10. TextOf(it) = prefix \o (IF whole THEN it.long ELSE it.int)
  <2>0. it.int \in Seq(Characters)
    BY <1>1, ItemShape
  <2>1. CASE Letter = "p"
    <3>1. it.letters[2] = "p"
      BY <1>2, <2>1
    <3> QED BY <1>1, <2>1, <3>1 DEF TextOf
  <2>2. CASE Letter # "p" /\ letter = 2
    <3>1. it.letters[2] \notin {"p", "l"} /\ ~longarg
      BY <1>2, <2>2
    <3> QED BY <1>1, <2>0, <2>2, <3>1, ConcatEmptySeq DEF TextOf
  <2>3. CASE Letter # "p" /\ letter = 3
    <3>1. /\ it.letters[2] # "p" /\ (longarg <=> it.letters[2] = "l")
          /\ Letter # "s"
      BY <1>2, <2>3
    <3>2. it.long \in Seq(Characters)
      BY <1>1, ItemShape
    <3>3. TextOf(it) = IF longarg THEN it.long ELSE it.int
      BY <1>1, <3>1 DEF TextOf
    <3> QED BY <2>0, <2>3, <3>1, <3>2, <3>3, ConcatEmptySeq
  <2> QED BY <1>2, <2>1, <2>2, <2>3
<1>11. Letter = "c" => TextOf(it) = it.int /\ it.letters = <<"%", "c">>
  <2> SUFFICES ASSUME Letter = "c"
               PROVE  TextOf(it) = it.int /\ it.letters = <<"%", "c">>
    OBVIOUS
  <2> HIDE DEF it
  <2>1. it.letters = <<"%", "c">>
    BY <1>2
  <2>2. it.letters[2] = "c"
    BY <2>1
  <2> QED BY <1>1, <2>1, <2>2 DEF TextOf
<1>12. letter = Len(ItemLetters) /\ ItemLetters = it.letters /\ ArgItem \in 1 .. item
  <2>1. ItemLetters = it.letters
    BY DEF ItemLetters
  <2>2. ArgItem \in 1 .. item
    BY <1>1, <1>3
  <2> HIDE DEF it
  <2>3. letter = Len(it.letters)
    BY <1>2
  <2> QED BY <2>1, <2>2, <2>3
<1> QED BY <1>6, <1>8, <1>9, <1>10, <1>11, <1>12

LEMMA FormatNextInv ==
    ASSUME FormatInv, message \in Messages, message' = message, con = "format",
           Literal \/ Percent \/ Flag \/ Convert \/ ConvertChar
    PROVE  FormatInv' /\ (out' = out \/ out' = [i \in 1 .. OutSize |-> out'[i]])
<1>0. Formatting /\ ItemsLeft
  BY DEF Literal, Percent, Flag, Convert, ConvertChar, Formatting, ItemsLeft
<1>1. /\ item \in 1 .. Len(message.items) /\ vl \in 1 .. item
      /\ pos \in Nat /\ (InStep \/ BufferFull)
      /\ \A i \in 1 .. OutSize - 1 : i <= pos => out[i] = message.meant[i]
      /\ Len(message.items) \in Nat /\ message.items[item] \in Item
  BY <1>0, LetterFacts DEF FormatInv
<1>2. letter = Len(ItemLetters) /\ NextLetter => item' = item + 1 /\ letter' = 1
  BY <1>0, LetterFacts DEF NextLetter, ItemLetters
<1>3. CASE Literal
  <2>1. /\ ~IsConv(message.items[item])
        /\ letter = Len(ItemLetters) /\ ItemLetters = <<Letter>>
        /\ Letter \in Characters /\ format = FALSE /\ longarg = FALSE
    BY <1>0, <1>3, LetterFacts DEF Literal
  <2>2. item' = item + 1 /\ letter' = 1 /\ vl' = vl /\ format' = FALSE /\ longarg' = FALSE
    BY <1>2, <1>3, <2>1 DEF Literal
  <2> DEFINE text == <<Letter>>
  <2>3. TextOf(message.items[item]) = text
    BY <2>1 DEF TextOf, ItemLetters
  <2>4. text \in Seq(Characters) /\ Put(text)
    BY <1>3, <2>1 DEF Literal
  <2> HIDE DEF text
  <2>5. /\ pos' \in Nat
        /\ InStep => pos' = message.cuts[item + 1]
        /\ BufferFull => pos' >= OutSize /\ message.cuts[item + 1] >= OutSize
        /\ \A i \in 1 .. OutSize - 1 : i <= pos' => out'[i] = message.meant[i]
    BY <1>0, <2>3, <2>4, PutEffect
  <2>6. vl' \in 1 .. item'
    BY <1>1, <2>2
  <2>7. (InStep \/ BufferFull)'
    <3>1. CASE InStep
      <4>1. \A k \in vl .. item : ~IsConv(message.items[k])
        BY <1>1, <2>1, <3>1 DEF InStep
      <4>2. \A k \in vl' .. item' - 1 : ~IsConv(message.items[k])
        <5>1. vl' = vl /\ item' - 1 = item
          BY <1>1, <2>2
        <5> QED BY <4>1, <5>1
      <4> QED BY <2>2, <2>5, <3>1, <4>2 DEF InStep
    <3>2. CASE BufferFull
      BY <2>2, <2>5, <3>2 DEF BufferFull
    <3> QED BY <1>1, <3>1, <3>2
  <2>8. FormatInv'
    BY <1>0, <2>2, <2>5, <2>6, <2>7, ItemDone
  <2>9. out' = [i \in 1 .. OutSize |-> out'[i]]
    BY <2>4 DEF Put
  <2> QED BY <2>8, <2>9
<1>4. CASE Percent
  <2>1. letter = 1 /\ 1 < Len(ItemLetters)
    BY <1>0, <1>4, LetterFacts DEF Percent
  <2>2. ~longarg /\ longarg' = longarg
    BY <1>0, <1>4, <2>1, LetterFacts DEF Percent
  <2>3. letter' = 2
    BY <1>4, <2>1 DEF Percent, NextLetter, ItemLetters
  <2>4. FormatInv'
    BY <1>0, <1>4, <2>1, <2>2, <2>3, NextLetterWithin DEF Percent
  <2> QED BY <1>4, <2>4 DEF Percent
<1>5. CASE Flag
  <2>1. letter = 2 /\ Len(ItemLetters) = 3 /\ ~longarg /\ Letter = ItemLetters[2] /\ format = TRUE
    BY <1>0, <1>5, LetterFacts DEF Flag
  <2>2. longarg' <=> Letter = "l"
    BY <1>5, <2>1 DEF Flag
  <2>3. letter' = 3
    BY <1>5, <2>1 DEF Flag, NextLetter, ItemLetters
  <2>4. FormatInv'
    BY <1>0, <1>5, <2>1, <2>2, <2>3, NextLetterWithin DEF Flag
  <2> QED BY <1>5, <2>4 DEF Flag
<1> DEFINE arg == message.items[ArgItem]
           whole == Letter = "p" \/ (longarg /\ Letter # "s")
           text == (IF Letter = "p" THEN <<"0", "x">> ELSE <<>>) \o
                   (IF whole THEN arg.long ELSE arg.int)
<1>6. CASE Convert
  <2>1. /\ ArgItem \in 1 .. item /\ letter = Len(ItemLetters)
        /\ text \in Seq(Characters)
        /\ InStep => text = TextOf(message.items[item])
    BY <1>0, <1>6, ConvertText DEF Convert
  <2>2. Put(text)
    BY <1>6 DEF Convert
  <2>3. /\ item' = item + 1 /\ letter' = 1 /\ vl' = ArgItem + 1
        /\ format' = FALSE /\ longarg' = FALSE
    BY <1>2, <1>6, <2>1 DEF Convert, EndConversion
  <2> HIDE DEF text
  <2>4. /\ pos' \in Nat
        /\ InStep => pos' = message.cuts[item + 1]
        /\ BufferFull => pos' >= OutSize /\ message.cuts[item + 1] >= OutSize
        /\ \A i \in 1 .. OutSize - 1 : i <= pos' => out'[i] = message.meant[i]
    BY <1>0, <2>1, <2>2, PutEffect
  <2>5. vl' \in 1 .. item'
    BY <1>1, <2>1, <2>3
  <2>6. (InStep \/ BufferFull)'
    <3>1. CASE InStep
      <4>1. IsConv(message.items[item])
        BY <1>0, <1>6, LetterFacts DEF Convert
      <4>2. ArgItem = item
        BY <1>1, <3>1, <4>1, ArgItemFound DEF InStep
      <4>3. vl' .. item' - 1 = {}
        BY <1>1, <2>3, <4>2
      <4> QED BY <2>3, <2>4, <3>1, <4>3 DEF InStep
    <3>2. CASE BufferFull
      BY <2>3, <2>4, <3>2 DEF BufferFull
    <3> QED BY <1>1, <3>1, <3>2
  <2>7. FormatInv'
    BY <1>0, <2>3, <2>4, <2>5, <2>6, ItemDone
  <2>8. out' = [i \in 1 .. OutSize |-> out'[i]]
    BY <2>2 DEF Put
  <2> QED BY <2>7, <2>8
<1>7. CASE ConvertChar
  <2>1. /\ ArgItem \in 1 .. item /\ letter = Len(ItemLetters)
        /\ arg.int \in Seq(Characters)
        /\ InStep => arg.int = TextOf(message.items[item])
        /\ ItemLetters = <<"%", "c">>
    BY <1>0, <1>7, ConvertText DEF ConvertChar
  <2>2. /\ item' = item + 1 /\ letter' = 1
        /\ format' = FALSE /\ longarg' = FALSE
    BY <1>2, <1>7, <2>1 DEF ConvertChar, EndConversion
  <2>3. message.cuts[item] \in Nat /\ message.cuts[item + 1] = message.cuts[item] + 1
    <3>1. message.cuts[item] \in Nat
      BY <1>1, MessageFacts
    <3>2. message.items[item].letters = <<"%", "c">>
      BY <2>1 DEF ItemLetters
    <3> QED BY <1>1, <3>1, <3>2, MessageFacts
  <2>4. OutSize \in Nat
    BY OutSizeAssumption
  <2>5. CASE pos + 1 < OutSize
    <3>1. Put(arg.int) /\ vl' = ArgItem + 1
      BY <1>7, <2>5 DEF ConvertChar
    <3>2. /\ pos' \in Nat
          /\ InStep => pos' = message.cuts[item + 1]
          /\ BufferFull => pos' >= OutSize /\ message.cuts[item + 1] >= OutSize
          /\ \A i \in 1 .. OutSize - 1 : i <= pos' => out'[i] = message.meant[i]
      BY <1>0, <2>1, <3>1, PutEffect
    <3>3. vl' \in 1 .. item'
      BY <1>1, <2>1, <2>2, <3>1
    <3>4. InStep
      BY <1>1, <2>4, <2>5 DEF BufferFull
    <3>5. (InStep \/ BufferFull)'
      <4>1. IsConv(message.items[item])
        BY <1>0, <1>7, LetterFacts DEF ConvertChar
      <4>2. ArgItem = item
        BY <1>1, <3>4, <4>1, ArgItemFound DEF InStep
      <4>3. vl' .. item' - 1 = {}
        BY <1>1, <2>2, <3>1, <4>2
      <4> QED BY <2>2, <3>2, <3>4, <4>3 DEF InStep
    <3>6. FormatInv'
      BY <1>0, <2>2, <3>2, <3>3, <3>5, ItemDone
    <3>7. out' = [i \in 1 .. OutSize |-> out'[i]]
      BY <3>1 DEF Put
    <3> QED BY <3>6, <3>7
  <2>6. CASE ~(pos + 1 < OutSize)
    <3>1. pos' = pos + 1 /\ vl' = vl /\ out' = out
      BY <1>7, <2>6 DEF ConvertChar
    <3>2. BufferFull'
      <4>1. pos' >= OutSize
        BY <1>1, <2>4, <2>6, <3>1
      <4>2. message.cuts[item + 1] >= OutSize
        BY <1>1, <2>3, <2>4, <2>6 DEF InStep, BufferFull
      <4> QED BY <2>2, <4>1, <4>2 DEF BufferFull
    <3>3. \A i \in 1 .. OutSize - 1 : out'[i] = message.meant[i]
      BY <1>1, <2>4, <2>6, <3>1
    <3>4. vl' \in 1 .. item' /\ pos' \in Nat
      BY <1>1, <2>2, <3>1
    <3>5. FormatInv'
      BY <1>0, <2>2, <3>2, <3>3, <3>4, ItemDone
    <3> QED BY <3>1, <3>5
  <2> QED BY <2>5, <2>6
<1> QED BY <1>3, <1>4, <1>5, <1>6, <1>7

-----------------------------------------------------------------------------
\* Sending.

LEMMA ShownFacts ==
    ASSUME message \in Messages
    PROVE  /\ ShownLen \in 0 .. Len(message.meant) /\ ShownLen \in 0 .. OutSize - 1
           /\ Shown(message) = SubSeq(message.meant, 1, ShownLen)
           /\ \A i \in 1 .. ShownLen : message.meant[i] \in Characters
           /\ \A n \in 0 .. ShownLen :
                  /\ SubSeq(message.meant, 1, n) \in Seq(Characters)
                  /\ Len(SubSeq(message.meant, 1, n)) = n
                  /\ \A i \in 1 .. n : SubSeq(message.meant, 1, n)[i] = message.meant[i]
<1>1. message.meant \in Seq(Characters) /\ Len(message.meant) \in Nat
  BY MessageFacts
<1>2. ShownLen \in 0 .. Len(message.meant) /\ ShownLen \in 0 .. OutSize - 1
  BY <1>1, OutSizeAssumption DEF ShownLen
<1>3. \A i \in 1 .. ShownLen : message.meant[i] \in Characters
  BY <1>1, <1>2
<1>4. ASSUME NEW n \in 0 .. ShownLen
      PROVE  /\ SubSeq(message.meant, 1, n) \in Seq(Characters)
             /\ Len(SubSeq(message.meant, 1, n)) = n
             /\ \A i \in 1 .. n : SubSeq(message.meant, 1, n)[i] = message.meant[i]
  <2>1. n \in Int /\ \A i \in 1 .. n : message.meant[i] \in Characters
    BY <1>2, <1>3
  <2>2. /\ SubSeq(message.meant, 1, n) \in Seq(Characters)
        /\ Len(SubSeq(message.meant, 1, n)) = IF 1 <= n THEN n - 1 + 1 ELSE 0
        /\ \A i \in 1 .. n - 1 + 1 : SubSeq(message.meant, 1, n)[i] = message.meant[1 + i - 1]
    BY <2>1, SubSeqProperties
  <2> QED BY <2>2
<1>5. Shown(message) = SubSeq(message.meant, 1, ShownLen)
  BY DEF Shown, ShownLen
<1> QED BY <1>2, <1>3, <1>4, <1>5

LEMMA PrintInitInv == ConsoleInit => PrintInv
<1> SUFFICES ASSUME ConsoleInit PROVE PrintInv
  OBVIOUS
<1>1. /\ message \in Messages /\ item = 1 /\ letter = 1 /\ vl = 1 /\ pos = 0
      /\ format = FALSE /\ longarg = FALSE /\ ch = 1 /\ con = "start"
      /\ wire = <<>> /\ thr = <<>> /\ out = [i \in 1 .. OutSize |-> "junk"]
  BY DEF ConsoleInit
<1>2. message.cuts[1] = 0 /\ Len(message.items) \in Nat
  BY <1>1, MessageFacts
<1>3. InStep
  BY <1>1, <1>2 DEF InStep
<1>4. ItemsLeft => 1 \in 1 .. Len(ItemLetters)
  <2> SUFFICES ASSUME ItemsLeft PROVE 1 \in 1 .. Len(ItemLetters)
    OBVIOUS
  <2>1. item \in 1 .. Len(message.items)
    BY <1>1, <1>2 DEF ItemsLeft
  <2>2. message.items[item] \in Item
    BY <1>1, <2>1, MessageFacts
  <2>3. Len(ItemLetters) \in {1, 2, 3}
    BY <2>2, ItemShape DEF ItemLetters
  <2> QED BY <2>3
<1>5. FormatInv
  BY <1>1, <1>2, <1>3, <1>4 DEF FormatInv
<1> QED BY <1>1, <1>5 DEF PrintInv

LEMMA PrintNextInv == ConsoleInv /\ [ConsoleStep]_consoleVars => PrintInv'
<1> SUFFICES ASSUME ConsoleInv, [ConsoleStep]_consoleVars PROVE PrintInv'
  OBVIOUS
<1>1. LineInv /\ PrintInv /\ message \in Messages
  BY DEF ConsoleInv, PrintInv
<1>2. CASE UNCHANGED <<printVars, con, wire, thr>>
  BY <1>1, <1>2 DEF printVars, formatVars, PrintInv, FormatInv, SendInv, ItemsLeft,
                    ItemLetters, InStep, BufferFull, ShownLen
<1>3. ASSUME UNCHANGED <<printVars, wire>>, thr' = thr,
             con \notin {"send", "done"}, con' \notin {"send", "done"}
      PROVE  PrintInv'
  BY <1>1, <1>3 DEF printVars, formatVars, PrintInv, FormatInv, ItemsLeft,
                    ItemLetters, InStep, BufferFull
<1>4. CASE ReadLine
  BY <1>3, <1>4 DEF ReadLine
<1>5. CASE InitWrite
  <2>1. con = "init" /\ thr = <<>>
    BY <1>1, <1>5 DEF InitWrite, PrintInv
  <2>2. thr' = thr
    <3>1. /\ write \in 1 .. 8 /\ (write \in 2 .. 4 => Dlab \in line)
          /\ serial_out(InitWrites(lcr_cache)[write][1], InitWrites(lcr_cache)[write][2])
      BY <1>1, <1>5, <2>1 DEF LineInv, InitWrite
    <3>2. CASE write = 2
      <4>1. Dlab \in line
        BY <3>1, <3>2
      <4> QED BY <2>1, <3>1, <3>2, <4>1 DEF serial_out, InitWrites, THR, BRDL, FCR
    <3>3. CASE write # 2
      <4>1. InitWrites(lcr_cache)[write][1] # THR
        <5>1. \/ write = 1 \/ write = 3 \/ write = 4
              \/ write = 5 \/ write = 6 \/ write = 7 \/ write = 8
          BY <3>1, <3>3
        <5> QED BY <5>1 DEF InitWrites, THR, BRDH, IER, FCR, LCR, MDC
      <4> QED BY <2>1, <3>1, <4>1 DEF serial_out
    <3> QED BY <3>2, <3>3
  <2> QED BY <1>3, <1>5, <2>1, <2>2 DEF InitWrite
<1>6. CASE FormatLetter
  <2>1. /\ Literal \/ Percent \/ Flag \/ Convert \/ ConvertChar
        /\ message' = message /\ con = "format" /\ con' = con
        /\ wire' = wire /\ thr' = thr /\ ch' = ch
    BY <1>6 DEF FormatLetter, Literal, Percent, Flag, Convert, ConvertChar, Formatting
  <2>2. FormatInv /\ ch = 1 /\ wire = <<>> /\ thr = <<>>
    BY <1>1, <2>1 DEF PrintInv
  <2>3. FormatInv' /\ (out' = out \/ out' = [i \in 1 .. OutSize |-> out'[i]])
    BY <1>1, <2>1, <2>2, FormatNextInv
  <2> QED BY <1>1, <2>1, <2>2, <2>3 DEF PrintInv
<1>7. CASE Terminate
  <2>1. /\ con = "format" /\ con' = "send" /\ ~ItemsLeft
        /\ message' = message /\ wire' = wire /\ thr' = thr /\ ch' = ch
        /\ out' = [out EXCEPT ![IF pos < OutSize THEN pos + 1 ELSE OutSize] = NUL]
    BY <1>1, <1>7, MessageFacts DEF Terminate, ItemsLeft, PrintInv, FormatInv
  <2>2. FormatInv /\ ch = 1 /\ wire = <<>> /\ thr = <<>>
    BY <1>1, <2>1 DEF PrintInv
  <2>3. /\ item = Len(message.items) + 1 /\ pos \in Nat
        /\ OutSize \in Nat \ {0} /\ Len(message.meant) \in Nat
        /\ message.cuts[item] = Len(message.meant)
    BY <1>1, <2>1, <2>2, MessageFacts, OutSizeAssumption DEF FormatInv, ItemsLeft
  <2>4. (IF pos < OutSize THEN pos + 1 ELSE OutSize) = ShownLen + 1
    BY <2>2, <2>3 DEF FormatInv, InStep, BufferFull, ShownLen
  <2>5. ShownLen <= pos /\ ShownLen \in 0 .. OutSize - 1
    BY <1>1, <2>3, <2>4, ShownFacts
  <2>6. /\ out'[ShownLen + 1] = NUL
        /\ \A i \in 1 .. OutSize : i # ShownLen + 1 => out'[i] = out[i]
        /\ out' = [i \in 1 .. OutSize |-> out'[i]]
    <3> DEFINE end == ShownLen + 1
    <3>1. out' = [out EXCEPT ![end] = NUL] /\ end \in 1 .. OutSize
      <4>1. end \in 1 .. OutSize
        BY <2>3, <2>5
      <4>2. out' = [out EXCEPT ![end] = NUL]
        BY <2>1, <2>4, Zenon
      <4> QED BY <4>1, <4>2
    <3>2. out = [i \in 1 .. OutSize |-> out[i]]
      BY <1>1 DEF PrintInv
    <3> HIDE DEF end
    <3>3. out' = [i \in 1 .. OutSize |-> IF i = end THEN NUL ELSE out[i]]
      <4>1. DOMAIN out = 1 .. OutSize
        BY <3>2
      <4> QED BY <3>1, <4>1
    <3>4. \A i \in 1 .. OutSize : out'[i] = IF i = end THEN NUL ELSE out[i]
      BY <3>3
    <3>5. out' = [i \in 1 .. OutSize |-> out'[i]]
      BY <3>3, <3>4
    <3> QED BY <3>1, <3>4, <3>5 DEF end
  <2>7. \A i \in 1 .. ShownLen : out'[i] = message.meant[i]
    BY <2>2, <2>3, <2>5, <2>6 DEF FormatInv
  <2>8. ShownLen' = ShownLen
    BY <2>1 DEF ShownLen
  <2>9. wire' \o thr' = SubSeq(message.meant, 1, ch' - 1)
    BY <2>1, <2>2, SubSeqEmpty
  <2>10. SendInv'
    BY <2>1, <2>2, <2>5, <2>6, <2>7, <2>8, <2>9 DEF SendInv
  <2> QED BY <1>1, <2>1, <2>6, <2>10 DEF PrintInv
<1>8. CASE PutChar
  <2>1. /\ con = "send" /\ con' = con /\ out[ch] # NUL /\ thr = <<>>
        /\ ch' = ch + 1 /\ message' = message /\ out' = out /\ wire' = wire
    BY <1>8 DEF PutChar, TransmitterEmpty, formatVars
  <2>2. SendInv /\ wire \in Seq(Characters)
    BY <1>1, <2>1 DEF PrintInv
  <2>3. thr' = <<out[ch]>>
    BY <1>1, <1>8, <2>1, SendEffect, Registers7 DEF PutChar, LineInv, LineSet
  <2>4. ch \in 1 .. ShownLen
    BY <2>1, <2>2, <1>1, ShownFacts DEF SendInv
  <2>5. out[ch] = message.meant[ch] /\ out[ch] \in Characters
    BY <1>1, <2>2, <2>4, ShownFacts DEF SendInv
  <2>6. wire = SubSeq(message.meant, 1, ch - 1)
    BY <2>1, <2>2, ConcatEmptySeq DEF SendInv
  <2>7. wire' \o thr' = SubSeq(message.meant, 1, ch)
    <3>1. message.meant \in Seq(Characters)
      BY <1>1, MessageFacts
    <3>2. 1 \in 1 .. Len(message.meant) /\ ch \in 1 .. Len(message.meant)
      BY <1>1, <2>4, ShownFacts
    <3>3. SubSeq(message.meant, 1, ch) =
              SubSeq(message.meant, 1, ch - 1) \o <<message.meant[ch]>>
      BY <3>1, <3>2, SubSeqRecursiveSecond
    <3> QED BY <2>1, <2>3, <2>5, <2>6, <3>3
  <2>8. thr' \in Seq(Characters)
    BY <2>3, <2>5
  <2>9. ShownLen' = ShownLen /\ ShownLen \in Nat
    BY <1>1, <2>1, ShownFacts DEF ShownLen
  <2>10. ch' \in 1 .. ShownLen + 1 /\ ch' - 1 = ch
    BY <2>1, <2>4, <2>9
  <2>11. SendInv'
    BY <2>1, <2>2, <2>7, <2>9, <2>10 DEF SendInv
  <2> QED BY <1>1, <2>1, <2>2, <2>8, <2>11 DEF PrintInv
<1>9. CASE PrintReturns
  <2>1. /\ con = "send" /\ con' = "done" /\ out[ch] = NUL
        /\ UNCHANGED <<printVars, wire, thr>>
    BY <1>9 DEF PrintReturns
  <2>2. SendInv
    BY <1>1, <2>1 DEF PrintInv
  <2>3. ch = ShownLen + 1
    <3>1. ch \in 1 .. ShownLen => out[ch] \in Characters
      BY <1>1, <2>2, ShownFacts DEF SendInv
    <3> QED BY <1>1, <2>1, <2>2, <3>1, ShownFacts, CharactersAssumption DEF SendInv
  <2>4. SendInv'
    BY <2>1, <2>2, <2>3 DEF SendInv, ShownLen, printVars, formatVars
  <2> QED BY <1>1, <2>1, <2>4 DEF PrintInv, printVars, formatVars
<1>10. CASE Transmit
  <2>1. /\ thr # <<>> /\ wire' = wire \o thr /\ thr' = <<>> /\ UNCHANGED <<printVars, con>>
    BY <1>10 DEF Transmit, TransmitterEmpty
  <2>2. /\ con \in {"send", "done"} /\ SendInv
        /\ wire \in Seq(Characters) /\ thr \in Seq(Characters)
    BY <1>1, <2>1 DEF PrintInv
  <2>3. wire' \in Seq(Characters) /\ thr' \in Seq(Characters)
    BY <2>1, <2>2, ConcatProperties
  <2>4. wire' \o thr' = wire \o thr
    BY <2>1, <2>3, ConcatEmptySeq
  <2>5. SendInv'
    BY <2>1, <2>2, <2>4 DEF SendInv, ShownLen, printVars, formatVars
  <2> QED BY <1>1, <2>1, <2>2, <2>3, <2>5 DEF PrintInv, printVars, formatVars
<1>11. CASE UNCHANGED consoleVars
  BY <1>2, <1>11 DEF consoleVars
<1> QED BY <1>4, <1>5, <1>6, <1>7, <1>8, <1>9, <1>10, <1>11
        DEF ConsoleStep, ConsoleNext

LEMMA ConsoleInvSent == ConsoleInv => SentIsMessage
<1> SUFFICES ASSUME ConsoleInv PROVE SentIsMessage
  OBVIOUS
<1> DEFINE sent == wire \o thr
<1>1. message \in Messages /\ wire \in Seq(Characters) /\ thr \in Seq(Characters)
  BY DEF ConsoleInv, PrintInv
<1>2. ASSUME NEW n \in 0 .. ShownLen, sent = SubSeq(message.meant, 1, n)
      PROVE  IsPrefix(sent, Shown(message))
  <2>1. /\ sent \in Seq(Characters) /\ Len(sent) = n
        /\ \A i \in 1 .. n : sent[i] = message.meant[i]
    BY <1>1, <1>2, ShownFacts
  <2>2. /\ Shown(message) = SubSeq(message.meant, 1, ShownLen)
        /\ Len(Shown(message)) = ShownLen /\ ShownLen \in Nat
        /\ Shown(message) \in Seq(Characters)
        /\ \A i \in 1 .. ShownLen : Shown(message)[i] = message.meant[i]
    <3>1. ShownLen \in Nat /\ ShownLen \in 0 .. ShownLen
      BY <1>1, ShownFacts
    <3> QED BY <1>1, <3>1, ShownFacts
  <2>3. SubSeq(sent, 1, n) = sent
    BY <2>1, SubSeqFull
  <2>4. SubSeq(Shown(message), 1, n) = sent
    <3>1. \A i \in 1 .. n : Shown(message)[i] \in Characters
      BY <2>2
    <3>2. /\ SubSeq(Shown(message), 1, n) \in Seq(Characters)
          /\ Len(SubSeq(Shown(message), 1, n)) = n
          /\ \A i \in 1 .. n : SubSeq(Shown(message), 1, n)[i] = Shown(message)[i]
      <4>1. /\ SubSeq(Shown(message), 1, n) \in Seq(Characters)
            /\ Len(SubSeq(Shown(message), 1, n)) = IF 1 <= n THEN n - 1 + 1 ELSE 0
            /\ \A i \in 1 .. n - 1 + 1 :
                   SubSeq(Shown(message), 1, n)[i] = Shown(message)[1 + i - 1]
        BY <3>1, SubSeqProperties
      <4> QED BY <4>1
    <3>3. \A i \in 1 .. n : SubSeq(Shown(message), 1, n)[i] = sent[i]
      BY <2>1, <2>2, <3>2
    <3> QED BY <2>1, <3>2, <3>3, SeqEqual
  <2> QED BY <2>1, <2>2, <2>3, <2>4 DEF IsPrefix
<1>3. CASE con \in {"send", "done"}
  <2>1. /\ ch - 1 \in 0 .. ShownLen /\ sent = SubSeq(message.meant, 1, ch - 1)
        /\ con = "done" => ch - 1 = ShownLen
    BY <1>1, <1>3, ShownFacts DEF ConsoleInv, PrintInv, SendInv
  <2>2. con = "done" => sent = Shown(message)
    BY <1>1, <2>1, ShownFacts
  <2> QED BY <1>2, <2>1, <2>2 DEF SentIsMessage
<1>4. CASE con \notin {"send", "done"}
  <2>1. wire = <<>> /\ thr = <<>>
    BY <1>4 DEF ConsoleInv, PrintInv
  <2>2. sent = SubSeq(message.meant, 1, 0)
    BY <2>1, SubSeqEmpty
  <2>3. 0 \in 0 .. ShownLen
    BY <1>1, ShownFacts
  <2> QED BY <1>2, <1>4, <2>2, <2>3 DEF SentIsMessage
<1> QED BY <1>3, <1>4

(***************************************************************************)
(* 4. The three together (BringUp).                                        *)
(***************************************************************************)

LEMMA PartsInit == Init => RegInit /\ StartInv /\ ConsoleInv
<1>1. ConsoleInit => ConsoleInv
  BY LineInitInv, PrintInitInv DEF ConsoleInv
<1> QED BY <1>1, StartInitInv DEF Init

\* A step of the whole is a step of each part, or leaves it alone.
LEMMA PartsNext ==
    [Next]_vars =>
        /\ [RegNext]_regVars
        /\ [StartNext]_startVars
        /\ [ConsoleStep]_consoleVars
<1> SUFFICES ASSUME [Next]_vars
             PROVE  /\ [RegNext]_regVars
                    /\ [StartNext]_startVars
                    /\ [ConsoleStep]_consoleVars
  OBVIOUS
<1>1. CASE Start
  BY <1>1 DEF Start
<1>2. CASE SetUpBoard
  BY <1>2 DEF SetUpBoard, RegNext
<1>3. CASE UseConsole
  BY <1>3 DEF UseConsole, ConsoleStep
<1>4. CASE BlockFollows
  BY <1>4 DEF BlockFollows, RegNext, Hardware
<1>5. CASE WordDriven
  BY <1>5 DEF WordDriven, RegNext, Hardware
<1>6. CASE CharacterSent
  BY <1>6 DEF CharacterSent, ConsoleStep
<1>7. CASE UNCHANGED vars
  BY <1>7 DEF vars
<1> QED BY <1>1, <1>2, <1>3, <1>4, <1>5, <1>6, <1>7 DEF Next, Hart0

(* Whatever the sizes of the sections, every byte of initialised data and  *)
(* every byte of bss has its value when main is entered.                   *)
THEOREM MemoryReady == Spec => []RamReady
<1>1. StartInv /\ [Next]_vars => StartInv'
  BY PartsNext, StartNextInv
<1>2. Init => StartInv
  BY PartsInit
<1>3. StartInv => RamReady
  BY StartInvReady
<1> QED BY <1>1, <1>2, <1>3, PTL DEF Spec

LEMMA ConsoleCorrect == Spec => []ConsoleInv
<1>1. ConsoleInv /\ [Next]_vars => ConsoleInv'
  BY PartsNext, LineNextInv, PrintNextInv DEF ConsoleInv
<1>2. Init => ConsoleInv
  BY PartsInit
<1> QED BY <1>1, <1>2, PTL DEF Spec

(* Whatever state the line was left in, uart_init sets the divisor latch   *)
(* and the interrupt enables, which share their addresses with the         *)
(* transmitter's, to the values meant for them.                            *)
THEOREM LineIsSet == Spec => []LineSet
<1>1. ConsoleInv => LineSet
  BY DEF ConsoleInv, LineInv
<1> QED BY <1>1, ConsoleCorrect, PTL

(* For every message and every size of the buffer, what printk sends is    *)
(* the message, cut to the buffer: no character is lost to a busy          *)
(* transmitter, none comes from what the buffer held before, and no        *)
(* argument is taken for another's.                                        *)
THEOREM MessageSent == Spec => []SentIsMessage
<1> QED BY ConsoleInvSent, ConsoleCorrect, PTL

\* The board's macros behave in the whole as they do alone.
LEMMA RegistersInWhole == Spec => RegSpec
<1>1. Init => RegInit
  BY PartsInit
<1>2. [Next]_vars => [RegNext]_regVars
  BY PartsNext
<1> QED BY <1>1, <1>2, PTL DEF Spec, RegSpec

(* From _start on, with the start-up code before them and the console      *)
(* after them, the macros implement FieldStore.                            *)
THEOREM BoardRefines == Spec => ImplementsFieldStore
BY RegistersInWhole, Refinement

-----------------------------------------------------------------------------
(* Clocks and resets.                                                      *)

\* A call that sets a field of one bit, to 1 or to 0.
Raises(op, f) == op.kind = "set" /\ op.field = f /\ 0 \in op.value
Lowers(op, f) == op.kind = "set" /\ op.field = f /\ 0 \notin op.value

\* No call clears the block's reset but after one that opens its gate, or
\* with the gate open from the start, and none between them closes it.
Clocked(calls, b, gate) ==
    \A i \in DOMAIN calls : Lowers(calls[i], b.reset) =>
        \E j \in 0 .. i - 1 :
            /\ (j = 0 /\ 0 \in gate) \/ (j > 0 /\ Raises(calls[j], b.gate))
            /\ \A k \in j + 1 .. i - 1 : ~Lowers(calls[k], b.gate)

\* A program that names the clock of a block opens it before it clears the
\* block's reset.
OpensClocks(p) ==
    \A b \in GatedBlocks :
        (\E i \in DOMAIN p : p[i].field.reg = b.gate.reg) => Clocked(p, b, {})

ClocksInv ==
    \A b \in GatedBlocks :
        b.gate \in Played => Clocked(todo, b, Value(b.gate))

LEMMA BlockRoles ==
    ASSUME NEW b \in GatedBlocks
    PROVE  /\ b.reset.at.role = "rstn" /\ b.gate.at.role = "gate"
           /\ IsReset(b.reset) /\ ~IsReset(b.gate)
<1>1. ASSUME NEW name, name \notin ActiveHigh
      PROVE  ResetNamed(name).at.role = "rstn"
  BY <1>1 DEF ResetNamed, Reset, FieldAt
<1>2. "rstn_x2c_axi" \notin ActiveHigh /\ "rstn_msi_apb" \notin ActiveHigh
  BY DEF ActiveHigh
<1>3. ASSUME NEW clock PROVE GateOf(clock).at.role = "gate"
  BY DEF GateOf, FieldIn, Gate, FieldAt
<1>4. b.reset.at.role = "rstn" /\ b.gate.at.role = "gate"
  BY <1>1, <1>2, <1>3 DEF GatedBlocks
<1> QED BY <1>4 DEF IsReset

\* When a call returns, the calls after it are as far from their gates.
LEMMA ClockedTail ==
    ASSUME NEW calls \in Seq(Operation), calls # <<>>, NEW b, NEW gate, NEW now,
           Clocked(calls, b, gate),
           0 \in gate /\ ~Lowers(Head(calls), b.gate) => 0 \in now,
           Raises(Head(calls), b.gate) => 0 \in now
    PROVE  Clocked(Tail(calls), b, now)
<1>1. /\ Len(calls) \in Nat \ {0} /\ Head(calls) = calls[1]
      /\ DOMAIN calls = 1 .. Len(calls)
      /\ Tail(calls) \in Seq(Operation) /\ Len(Tail(calls)) = Len(calls) - 1
      /\ DOMAIN Tail(calls) = 1 .. Len(calls) - 1
      /\ \A i \in 1 .. Len(calls) - 1 : Tail(calls)[i] = calls[i + 1]
  BY HeadTailProperties, EmptySeq
<1> SUFFICES ASSUME NEW i \in 1 .. Len(calls) - 1,
                    Lowers(Tail(calls)[i], b.reset)
             PROVE  \E j \in 0 .. i - 1 :
                        /\ \/ j = 0 /\ 0 \in now
                           \/ j > 0 /\ Raises(Tail(calls)[j], b.gate)
                        /\ \A k \in j + 1 .. i - 1 :
                               ~Lowers(Tail(calls)[k], b.gate)
  BY <1>1 DEF Clocked
<1>2. i + 1 \in DOMAIN calls /\ Lowers(calls[i + 1], b.reset)
  <2>1. i + 1 \in DOMAIN calls /\ Tail(calls)[i] = calls[i + 1]
    BY <1>1
  <2> QED BY <2>1, Zenon
<1>3. PICK j \in 0 .. i :
          /\ (j = 0 /\ 0 \in gate) \/ (j > 0 /\ Raises(calls[j], b.gate))
          /\ \A k \in j + 1 .. i : ~Lowers(calls[k], b.gate)
  <2>1. (i + 1) - 1 = i
    OBVIOUS
  <2> QED BY <1>2, <2>1 DEF Clocked
<1>4. \A k \in 1 .. i - 1 : Tail(calls)[k] = calls[k + 1] /\ k + 1 \in 1 .. i
  BY <1>1
<1>5. CASE j = 0 \/ j = 1
  <2>1. 0 \in now
    <3>1. CASE j = 0
      <4>1. 1 \in j + 1 .. i
        BY <3>1
      <4> QED BY <1>1, <1>3, <3>1, <4>1
    <3>2. CASE j = 1
      BY <1>1, <1>3, <3>2
    <3> QED BY <1>5, <3>1, <3>2
  <2>2. \A k \in 1 .. i - 1 : ~Lowers(Tail(calls)[k], b.gate)
    <3>1. \A k \in 1 .. i - 1 : k + 1 \in j + 1 .. i
      BY <1>5
    <3> QED BY <1>3, <1>4, <3>1
  <2> QED BY <2>1, <2>2
<1>6. CASE j \in 2 .. i
  <2>1. j - 1 \in 1 .. i - 1 /\ (j - 1) + 1 = j
    BY <1>6
  <2>2. Raises(Tail(calls)[j - 1], b.gate)
    BY <1>3, <1>4, <1>6, <2>1
  <2>3. \A k \in (j - 1) + 1 .. i - 1 : ~Lowers(Tail(calls)[k], b.gate)
    <3>1. \A k \in (j - 1) + 1 .. i - 1 : k \in 1 .. i - 1 /\ k + 1 \in j + 1 .. i
      BY <1>6
    <3> QED BY <1>3, <1>4, <3>1
  <2> QED BY <2>1, <2>2, <2>3
<1> QED BY <1>5, <1>6

LEMMA InitClocked ==
    ASSUME RegInit, \A p \in Programs : OpensClocks(p)
    PROVE  ClocksInv
<1> SUFFICES ASSUME NEW b \in GatedBlocks, b.gate \in Played
             PROVE  Clocked(todo, b, Value(b.gate))
  BY DEF ClocksInv
<1>1. todo \in Programs /\ DOMAIN word = {todo[i].field.reg : i \in DOMAIN todo}
  BY DEF RegInit
<1>2. b.gate.reg \in DOMAIN word
  BY DEF Played
<1>3. \E i \in DOMAIN todo : todo[i].field.reg = b.gate.reg
  BY <1>1, <1>2
<1>4. Clocked(todo, b, {})
  BY <1>1, <1>3 DEF OpensClocks
<1> QED BY <1>4 DEF Clocked

LEMMA WordsKept == IInv /\ [RegNext]_regVars => DOMAIN word' = DOMAIN word
<1>1. ASSUME IInv, StoreWord PROVE DOMAIN word' = DOMAIN word
  BY <1>1 DEF StoreWord, IInv, TypeOK
<1>2. ASSUME IInv, NEW r \in DOMAIN word, Drive(r) PROVE DOMAIN word' = DOMAIN word
  BY <1>2, DriveEffect
<1> QED BY <1>1, <1>2 DEF RegNext, Macro, Hardware, ReadWord, SetField, SetReset,
                          PollStatus, GetField, ReadResetStatus, Follow, regVars

LEMMA NextClocked == IInv /\ ClocksInv /\ [RegNext]_regVars => ClocksInv'
<1> SUFFICES ASSUME IInv, ClocksInv, [RegNext]_regVars,
                    NEW b \in GatedBlocks, b.gate \in Played'
             PROVE  Clocked(todo, b, Value(b.gate))'
  BY DEF ClocksInv, GatedBlocks
<1>0. b.gate \in Played /\ Clocked(todo, b, Value(b.gate))
  <2>1. DOMAIN word' = DOMAIN word
    BY WordsKept
  <2> QED BY <2>1, PlayedConstant DEF ClocksInv
<1>1. ASSUME todo' = todo, Value(b.gate)' = Value(b.gate)
      PROVE  Clocked(todo, b, Value(b.gate))'
  BY <1>0, <1>1 DEF Clocked
<1>2. ASSUME todo # <<>>, todo' = Tail(todo),
             0 \in Value(b.gate) /\ ~Lowers(Call, b.gate) => 0 \in Value(b.gate)',
             Raises(Call, b.gate) => 0 \in Value(b.gate)'
      PROVE  Clocked(todo, b, Value(b.gate))'
  BY <1>0, <1>2, ClockedTail DEF IInv, TypeOK, Call
<1>3. ASSUME todo # <<>>, todo' = Tail(todo), word' = word,
             Call.kind = "get" \/ IsReset(Call.field)
      PROVE  Clocked(todo, b, Value(b.gate))'
  <2>1. Value(b.gate)' = Value(b.gate)
    BY <1>3 DEF Value
  <2>2. ~Raises(Call, b.gate)
    BY <1>3, BlockRoles DEF Raises, Lowers
  <2> QED BY <1>2, <1>3, <2>1, <2>2
<1>4. CASE ReadWord
  BY <1>1, <1>4 DEF ReadWord, Value
<1>5. CASE SetField
  <2>1. /\ pc = "store" /\ StoreWord /\ todo # <<>> /\ todo' = Tail(todo)
    BY <1>5 DEF SetField, Return, IInv, MacroInv
  <2>2. PICK f : f = Call.field
    OBVIOUS
  <2>3. /\ Value(f)' = Call.value \intersect Lowest(f.at)
        /\ b.gate # f => Value(b.gate)' = Value(b.gate)
    BY <1>0, <2>1, <2>2, StoreEffect
  <2>4. 0 \in Lowest(f.at)
    BY <2>1, <2>2, LegalCall, ShapesAssumption DEF Lowest, IInv
  <2>5. Call.kind = "set"
    BY <2>1 DEF IInv, MacroInv
  <2>6. CASE b.gate = f
    <3>1. Value(b.gate)' = Call.value \intersect Lowest(f.at)
      BY <2>3, <2>6
    <3>2. 0 \in Value(b.gate)' <=> 0 \in Call.value
      BY <2>4, <3>1
    <3> QED BY <1>2, <2>1, <2>2, <2>5, <2>6, <3>2 DEF Raises, Lowers
  <2>7. CASE b.gate # f
    BY <1>2, <2>1, <2>2, <2>3, <2>7 DEF Raises
  <2> QED BY <2>6, <2>7
<1>6. CASE SetReset
  <2>1. pc = "store" /\ StoreWord /\ todo' = todo /\ b.gate # Call.field
    BY <1>6, BlockRoles DEF SetReset
  <2>2. Value(b.gate)' = Value(b.gate)
    BY <1>0, <2>1, StoreEffect
  <2> QED BY <1>1, <2>1, <2>2
<1>7. CASE PollStatus
  BY <1>3, <1>7 DEF PollStatus, Return, IInv, MacroInv
<1>8. CASE GetField \/ ReadResetStatus
  BY <1>3, <1>8 DEF GetField, ReadResetStatus, Calling, Return
<1>9. CASE \E f \in Played : Follow(f)
  BY <1>1, <1>9 DEF Follow, hart, Value
<1>10. ASSUME NEW r \in DOMAIN word, Drive(r)
       PROVE  Clocked(todo, b, Value(b.gate))'
  <2>1. Value(b.gate)' = Value(b.gate)
    BY <1>0, <1>10, BlockRoles, DriveEffect
  <2> QED BY <1>1, <1>10, <2>1 DEF Drive, hart
<1>11. CASE UNCHANGED regVars
  BY <1>1, <1>11 DEF regVars, Value
<1> QED BY <1>4, <1>5, <1>6, <1>7, <1>8, <1>9, <1>10, <1>11
        DEF RegNext, Macro, Hardware

\* A block that leaves its reset does so while the macro that has cleared
\* the reset waits for it.
LEMMA ReleaseAwaited ==
    ASSUME IInv, Settled, ClocksInv, [Next]_vars,
           NEW b \in GatedBlocks, b.gate \in Played, b.reset \in status' \ status
    PROVE  0 \in Value(b.gate)
<1>1. [RegNext]_regVars
  BY PartsNext
<1>2. PICK f \in Played : Follow(f)
  BY <1>1 DEF RegNext, Macro, Hardware, ReadWord, SetField, SetReset, PollStatus,
              GetField, ReadResetStatus, Drive, regVars
<1>3. f = b.reset /\ 0 \notin Value(f)
  BY <1>2, BlockRoles DEF Follow, LineLevel
<1>4. pc = "poll" /\ Call.field = f
  BY <1>2 DEF Settled, Follow
<1>5. todo # <<>> /\ Call.kind = "set" /\ Value(Call.field) = Call.value
  BY <1>4 DEF IInv, MacroInv
<1>6. Lowers(Call, b.reset)
  BY <1>3, <1>4, <1>5 DEF Lowers
<1>7. 1 \in DOMAIN todo /\ Call = todo[1]
  BY <1>5, EmptySeq DEF IInv, TypeOK, Call
<1>8. Clocked(todo, b, Value(b.gate))
  BY DEF ClocksInv
<1> QED BY <1>6, <1>7, <1>8 DEF Clocked

(* Whatever else the calls do, in whatever order and however slow the      *)
(* hardware is, when every program opens the clock of a block before it    *)
(* clears its reset, the block leaves its reset with the clock running.    *)
THEOREM ClockBeforeRelease ==
    ASSUME \A p \in Programs : OpensClocks(p)
    PROVE  Spec => ReleasedWithClock
<1>1. Init => IInv /\ Settled /\ ClocksInv
  BY PartsInit, InitInv, InitSettled, InitClocked
<1>2. IInv /\ Settled /\ ClocksInv /\ [Next]_vars => (IInv /\ Settled /\ ClocksInv)'
  BY PartsNext, NextInv, NextSettled, NextClocked
<1>3. IInv /\ Settled /\ ClocksInv /\ [Next]_vars =>
          [\A b \in GatedBlocks :
               b.gate \in Played /\ b.reset \in status' \ status =>
                   0 \in Value(b.gate)]_vars
  BY ReleaseAwaited
<1> QED BY <1>1, <1>2, <1>3, PTL DEF Spec, ReleasedWithClock

-----------------------------------------------------------------------------
(* BootMain opens the clocks.                                              *)

IsNamed(name) == \E v \in 1 .. 4 : \E b \in 1 .. Len(ResetWords[v]) : ResetWords[v][b] = name

LEMMA ResetsNamed ==
    \A name \in {"rstn_hifi4noc_axi", "rstn_usbnoc_axi", "rstn_dma1p_axi",
                 "rstn_x2c_axi", "rstn_dspx2c_axi", "rstn_msi_apb"} : IsNamed(name)
<1>1. /\ Len(ResetWords[2]) = 32
      /\ ResetWords[2][3] = "rstn_hifi4noc_axi" /\ ResetWords[2][7] = "rstn_usbnoc_axi"
      /\ ResetWords[2][9] = "rstn_dma1p_axi" /\ ResetWords[2][10] = "rstn_x2c_axi"
      /\ ResetWords[2][15] = "rstn_dspx2c_axi"
  BY DEF ResetWords, Hifi4Resets, UsbResets, NneResets, VideoInResets, IspResets,
         DisplayResets, BridgeResets
<1>2. Len(ResetWords[4]) = 18 /\ ResetWords[4][15] = "rstn_msi_apb"
  BY DEF ResetWords, I2cAndWatchdogResets, TimerResets, LateTimerResets, TempResets
<1>3. {3, 7, 9, 10, 15} \subseteq 1 .. 32 /\ 15 \in 1 .. 18 /\ {2, 4} \subseteq 1 .. 4
  OBVIOUS
<1> QED BY <1>1, <1>2, <1>3 DEF IsNamed

\* Resets of two names are two bits.
LEMMA ResetsApart ==
    ASSUME NEW m, NEW n, m # n, IsNamed(m), IsNamed(n)
    PROVE  ResetNamed(m) # ResetNamed(n)
<1> DEFINE W(name) == CHOOSE v \in 1 .. 4 :
                          \E b \in 1 .. Len(ResetWords[v]) : ResetWords[v][b] = name
           B(name) == CHOOSE c \in 1 .. Len(ResetWords[W(name)]) :
                          ResetWords[W(name)][c] = name
<1>1. ASSUME NEW name, IsNamed(name)
      PROVE  /\ B(name) \in Int /\ ResetWords[W(name)][B(name)] = name
             /\ ResetNamed(name).reg[2] = W(name)
             /\ ResetNamed(name).at.shift = B(name) - 1
  <2>1. \E b \in 1 .. Len(ResetWords[W(name)]) : ResetWords[W(name)][b] = name
    BY <1>1 DEF IsNamed
  <2>2. /\ B(name) \in 1 .. Len(ResetWords[W(name)])
        /\ ResetWords[W(name)][B(name)] = name
    BY <2>1
  <2>3. ResetNamed(name) =
            [reg |-> <<"rstgen", W(name)>>, at |-> Reset(B(name) - 1, name \in ActiveHigh)]
    BY DEF ResetNamed
  <2> HIDE DEF W, B
  <2> QED BY <2>2, <2>3 DEF Reset, FieldAt
<1> HIDE DEF W, B
<1>2. /\ B(m) \in Int /\ ResetWords[W(m)][B(m)] = m /\ ResetNamed(m).reg[2] = W(m)
      /\ ResetNamed(m).at.shift = B(m) - 1
  BY <1>1
<1>3. /\ B(n) \in Int /\ ResetWords[W(n)][B(n)] = n /\ ResetNamed(n).reg[2] = W(n)
      /\ ResetNamed(n).at.shift = B(n) - 1
  BY <1>1
<1> QED BY <1>2, <1>3

\* The calls of BootMain, and which of them are on a reset or on a gate.
LEMMA BootMainCalls ==
    /\ DOMAIN BootMain = 1 .. 23
    /\ BootMain[6] = ClearReset("rstn_usbnoc_axi")
    /\ BootMain[7] = ClearReset("rstn_hifi4noc_axi")
    /\ BootMain[8] = Enable("x2c_axi")
    /\ BootMain[9] = ClearReset("rstn_x2c_axi")
    /\ BootMain[10] = ClearReset("rstn_dspx2c_axi")
    /\ BootMain[11] = ClearReset("rstn_dma1p_axi")
    /\ BootMain[12] = Enable("msi_apb")
    /\ BootMain[13] = ClearReset("rstn_msi_apb")
    /\ BootMain[14] = AssertReset("rstn_x2c_axi")
    /\ BootMain[15] = ClearReset("rstn_x2c_axi")
    /\ \A k \in 1 .. 5 : BootMain[k].field.at.role \in {"source", "config"}
    /\ \A k \in 16 .. 23 : BootMain[k].field.at.role = "config"
<1> USE DEF BootMain, chip_clk_init, BusesOut, PadsRouted
<1>1. \A c, w, k : Switch(c, w, k).field.at.role = "source"
  BY DEF Switch, Set, FieldIn, Source, FieldAt
<1>2. /\ \A i, v : Funcshare(i, v).field.at.role = "config"
      /\ Sysmain("register69", Config(0, 1), {0}).field.at.role = "config"
      /\ Pad(104, Config(0, 3), {1, 2}).field.at.role = "config"
  BY DEF Funcshare, Pad, Sysmain, Set, FieldIn, Config, FieldAt
<1>3. \A k \in 1 .. 5 : BootMain[k].field.at.role \in {"source", "config"}
  <2>1. \A k \in 1 .. 5 : k \in {1, 2, 3, 4, 5}
    OBVIOUS
  <2> QED BY <1>1, <1>2, <2>1
<1>4. \A k \in 16 .. 23 : BootMain[k].field.at.role = "config"
  <2>1. \A k \in 16 .. 23 : k \in {16, 17, 18, 19, 20, 21, 22, 23}
    OBVIOUS
  <2> QED BY <1>2, <2>1
<1> QED BY <1>3, <1>4

(* BootMain opens the clock of the block between the buses and that of the *)
(* MSI block before it clears their resets, so that ClockBeforeRelease     *)
(* applies to it.                                                          *)
THEOREM BootMainOpens == OpensClocks(BootMain)
<1> DEFINE x2c == [reset |-> ResetNamed("rstn_x2c_axi"), gate |-> GateOf("x2c_axi")]
           msi == [reset |-> ResetNamed("rstn_msi_apb"), gate |-> GateOf("msi_apb")]
<1>1. \A b \in GatedBlocks : b = x2c \/ b = msi
  BY DEF GatedBlocks
<1>2. x2c \in GatedBlocks /\ msi \in GatedBlocks
  BY DEF GatedBlocks
<1>3. /\ x2c.reset.at.role = "rstn" /\ x2c.gate.at.role = "gate"
      /\ msi.reset.at.role = "rstn" /\ msi.gate.at.role = "gate"
  BY <1>2, BlockRoles
<1>4. /\ \A name : ClearReset(name).field = ResetNamed(name)
      /\ \A name : ClearReset(name).field.at.role \in {"rst", "rstn"}
      /\ \A name : AssertReset(name).field.at.role \in {"rst", "rstn"}
      /\ \A clock : Raises(Enable(clock), GateOf(clock)) /\ 0 \in Enable(clock).value
      /\ \A clock : Enable(clock).field.at.role = "gate"
  BY DEF ClearReset, AssertReset, Enable, Set, Raises, ResetNamed, Reset, FieldAt,
         GateOf, FieldIn, Gate
<1>5. ASSUME NEW b \in GatedBlocks, NEW k \in 1 .. 23
      PROVE  ~Lowers(BootMain[k], b.gate)
  <2>1. b.gate.at.role = "gate"
    BY BlockRoles
  <2>2. \/ k \in 1 .. 5 \/ k = 6 \/ k = 7 \/ k = 8 \/ k = 9 \/ k = 10 \/ k = 11
        \/ k = 12 \/ k = 13 \/ k = 14 \/ k = 15 \/ k \in 16 .. 23
    OBVIOUS
  <2>3. BootMain[k].field.at.role = "gate" => 0 \in BootMain[k].value
    BY <1>4, <2>2, BootMainCalls
  <2> QED BY <2>1, <2>3 DEF Lowers
<1>6. \A k \in 1 .. 7 : ~Lowers(BootMain[k], x2c.reset)
  <2>1. /\ ResetNamed("rstn_usbnoc_axi") # ResetNamed("rstn_x2c_axi")
        /\ ResetNamed("rstn_hifi4noc_axi") # ResetNamed("rstn_x2c_axi")
    BY ResetsNamed, ResetsApart
  <2>2. \A k \in 1 .. 7 : k \in 1 .. 5 \/ k = 6 \/ k = 7
    OBVIOUS
  <2> QED BY <1>3, <1>4, <2>1, <2>2, BootMainCalls DEF Lowers
<1>7. \A k \in 1 .. 11 : ~Lowers(BootMain[k], msi.reset)
  <2>1. \A name \in {"rstn_hifi4noc_axi", "rstn_usbnoc_axi", "rstn_dma1p_axi",
                     "rstn_x2c_axi", "rstn_dspx2c_axi"} :
            ResetNamed(name) # ResetNamed("rstn_msi_apb")
    BY ResetsNamed, ResetsApart
  <2>2. \A k \in 1 .. 11 : \/ k \in 1 .. 5 \/ k = 6 \/ k = 7 \/ k = 8 \/ k = 9
                           \/ k = 10 \/ k = 11
    OBVIOUS
  <2> QED BY <1>3, <1>4, <2>1, <2>2, BootMainCalls DEF Lowers
<1>8. Raises(BootMain[8], x2c.gate) /\ Raises(BootMain[12], msi.gate)
  BY <1>4, BootMainCalls
<1> HIDE DEF x2c, msi
<1>9. ASSUME NEW b \in GatedBlocks, NEW j \in 1 .. 23, Raises(BootMain[j], b.gate),
             \A k \in 1 .. j - 1 : ~Lowers(BootMain[k], b.reset)
      PROVE  Clocked(BootMain, b, {})
  <2> SUFFICES ASSUME NEW i \in 1 .. 23, Lowers(BootMain[i], b.reset)
               PROVE  \E n \in 0 .. i - 1 :
                          /\ \/ n = 0 /\ 0 \in {}
                             \/ n > 0 /\ Raises(BootMain[n], b.gate)
                          /\ \A k \in n + 1 .. i - 1 : ~Lowers(BootMain[k], b.gate)
    BY BootMainCalls DEF Clocked
  <2>1. i # j
    BY <1>9 DEF Raises, Lowers
  <2>2. j \in 0 .. i - 1 /\ j > 0
    BY <1>9, <2>1
  <2>3. \A k \in j + 1 .. i - 1 : ~Lowers(BootMain[k], b.gate)
    BY <1>5
  <2> QED BY <1>9, <2>2, <2>3
<1>10. Clocked(BootMain, x2c, {})
  BY <1>2, <1>6, <1>8, <1>9
<1>11. Clocked(BootMain, msi, {})
  BY <1>2, <1>7, <1>8, <1>9
<1> QED BY <1>1, <1>10, <1>11 DEF OpensClocks
=============================================================================
