---------------------------- MODULE ControlRegs -----------------------------
(***************************************************************************)
(* The macros of the four generated headers (common/clkgen_ctrl_macro.h,   *)
(* rstgen_, syscon_sysmain_, syscon_iopad_): each reads its 32-bit         *)
(* register, clears the bits of one field, ors the value in, cut to the    *)
(* field, and stores the word back; a macro of a reset then reads the      *)
(* status word until the block has followed.  Some words also hold bits    *)
(* that the hardware drives and software only reads.                       *)
(*                                                                         *)
(* A word is the set of its bits that are 1, and so is a value.  Only the  *)
(* registers that a behaviour's program names are kept as state.           *)
(***************************************************************************)
EXTENDS RegisterFields, Sequences

CONSTANTS
    Layout,       \* the field shapes of each register
    Programs,     \* the sequences of macro calls that a behaviour may make
    InitialWords  \* what the registers of the chip may hold before

Registers == DOMAIN Layout
FieldsOf(r) == {[reg |-> r, at |-> a] : a \in Layout[r]}
Field == UNION {FieldsOf(r) : r \in Registers}

Bits(a) == a.shift .. a.shift + a.width - 1
Lowest(a) == 0 .. a.width - 1
IsReset(f) == f.at.role \in {"rst", "rstn"}

\* The bits of 0 .. 3, and the values that the macros of a shape write.
Choice(k) == {b \in 0 .. 1 : k = 3 \/ k = b + 1}
Writes(a) ==
    IF a.role = "status" THEN {}
    ELSE IF a.ways = 0 THEN SUBSET WordBits
    ELSE {Choice(k) : k \in 0 .. a.ways - 1}

Operation == [kind : {"get", "set"}, field : Field, value : SUBSET WordBits]

Legal(op) == op.kind = "get" \/ op.value \in Writes(op.field.at)

ASSUME ShapesAssumption ==
    \A r \in Registers : \A a \in Layout[r] :
        /\ a.shift \in Nat /\ a.width \in Nat \ {0}
        /\ Bits(a) \subseteq WordBits
        /\ a.ways \in {0, 2, 3, 4}
        /\ a.role \in {"rst", "rstn"} => a.width = 1 /\ a.ways = 2

ASSUME DisjointAssumption ==
    \A r \in Registers : \A a, b \in Layout[r] :
        a # b => Bits(a) \intersect Bits(b) = {}

ASSUME ProgramsAssumption ==
    \A p \in Programs : p \in Seq(Operation) /\ \A i \in DOMAIN p : Legal(p[i])

ASSUME InitialWordsAssumption ==
    InitialWords \subseteq [Registers -> SUBSET WordBits]

VARIABLES
    word,    \* the registers of the program
    status,  \* the resets whose status bit is 1
    todo,    \* the calls that are still to be made or to return
    pc,      \* where the macro at the head of todo is
    cache,   \* its _ezchip_macro_read_value_
    result   \* what the last macro that reads has returned

hart == <<todo, pc, cache, result>>
regVars == <<word, status, todo, pc, cache, result>>

Played == {f \in Field : f.reg \in DOMAIN word}

ValueIn(a, w) == {b \in Lowest(a) : b + a.shift \in w}
Value(f) == ValueIn(f.at, word[f.reg])

\* The bits of a word that the hardware drives: a store does not reach them.
Driven(r) == UNION {Bits(a) : a \in {s \in Layout[r] : s.role = "status"}}

\* The level of the line of a reset whose bit is set or not.
LineLevel(f, asserted) == IF f.at.role = "rst" THEN asserted ELSE ~asserted

RegInit ==
    /\ todo \in Programs
    /\ \E w \in InitialWords :
           word = [r \in {todo[i].field.reg : i \in DOMAIN todo} |-> w[r]]
    /\ status = {f \in Played : IsReset(f) /\ LineLevel(f, 0 \in Value(f))}
    /\ pc = "call"
    /\ cache = {}
    /\ result = {}

-----------------------------------------------------------------------------
(* The macros.                                                             *)

Call == Head(todo)
Calling(kind) == pc = "call" /\ todo # <<>> /\ Call.kind = kind
Return == todo' = Tail(todo) /\ pc' = "call"

\* _ezchip_macro_read_value_ = MA_INW(reg)
ReadWord ==
    /\ Calling("set")
    /\ cache' = word[Call.field.reg]
    /\ pc' = "store"
    /\ UNCHANGED <<word, status, todo, result>>

Modified_Kept(a, w, v) ==
    w \union {b + a.shift : b \in v \intersect Lowest(a)}

\* read_value &= ~(mask << shift), read_value |= (v & mask) << shift
Modified(a, w, v) ==
    (w \ Bits(a)) \union {b + a.shift : b \in v \intersect Lowest(a)}

\* MA_OUTW(reg, _ezchip_macro_read_value_)
StoreWord ==
    LET r == Call.field.reg
    IN  word' = [word EXCEPT ![r] =
                    (Modified(Call.field.at, cache, Call.value) \ Driven(r))
                    \union (@ \intersect Driven(r))]

SetField ==
    /\ pc = "store" /\ ~IsReset(Call.field)
    /\ StoreWord
    /\ Return
    /\ UNCHANGED <<status, cache, result>>

SetReset ==
    /\ pc = "store" /\ IsReset(Call.field)
    /\ StoreWord
    /\ pc' = "poll"
    /\ UNCHANGED <<status, todo, cache, result>>

Awaited_AnyPolarity(f, v) == v = {}

\* The status that ends the macro's loop: that of the reset asserted (value
\* 1) or cleared (value 0).
Awaited(f, v) == IF f.at.role = "rst" THEN v = {0} ELSE v = {}

PollStatus_Once ==
    /\ pc = "poll"
    /\ Return
    /\ UNCHANGED <<word, status, cache, result>>

\* do { read status } while (it is not the one awaited)
PollStatus ==
    /\ pc = "poll"
    /\ (Call.field \in status) = Awaited(Call.field, Call.value)
    /\ Return
    /\ UNCHANGED <<word, status, cache, result>>

GetField ==
    /\ Calling("get") /\ ~IsReset(Call.field)
    /\ result' = Value(Call.field)
    /\ Return
    /\ UNCHANGED <<word, status, cache>>

ReadResetStatus ==
    /\ Calling("get") /\ IsReset(Call.field)
    /\ result' = IF Call.field \in status THEN {0} ELSE {}
    /\ Return
    /\ UNCHANGED <<word, status, cache>>

Macro ==
    \/ ReadWord
    \/ SetField
    \/ SetReset
    \/ PollStatus
    \/ GetField
    \/ ReadResetStatus

-----------------------------------------------------------------------------
(* The hardware.                                                           *)

\* The block of a reset has followed its bit, and the status says so.
Follow(f) ==
    /\ IsReset(f)
    /\ (f \in status) # LineLevel(f, 0 \in Value(f))
    /\ status' = IF f \in status THEN status \ {f} ELSE status \union {f}
    /\ UNCHANGED <<word, hart>>

\* The bits that software only reads change, all of a word's together.
Drive(r) ==
    /\ Driven(r) # {}
    /\ \E bits \in {{}, Driven(r)} :
           word' = [word EXCEPT ![r] = (@ \ Driven(r)) \union bits]
    /\ UNCHANGED <<status, hart>>

Hardware ==
    \/ \E f \in Played : Follow(f)
    \/ \E r \in DOMAIN word : Drive(r)

RegNext == Macro \/ Hardware

RegSpec == RegInit /\ [][RegNext]_regVars

-----------------------------------------------------------------------------
TypeOK ==
    /\ DOMAIN word \subseteq Registers
    /\ word \in [DOMAIN word -> SUBSET WordBits]
    /\ status \subseteq Played
    /\ todo \in Seq(Operation)
    /\ \A i \in DOMAIN todo :
           Legal(todo[i]) /\ todo[i].field.reg \in DOMAIN word
    /\ pc \in {"call", "store", "poll"}
    /\ cache \subseteq WordBits
    /\ result \subseteq WordBits

\* The abstract store: the value of each field, and a block that its reset
\* holds whatever the polarity of the line.
Store == INSTANCE FieldStore WITH
             value <- [f \in Played |-> Value(f)],
             held <- {f \in Played :
                         IsReset(f) /\ (f \in status) = (f.at.role = "rst")},
             applied <- (pc = "poll")

(* A reset that is set and cleared again is a pulse that its block sees:   *)
(* no store takes an asserted reset back before the block was held in it,  *)
(* however slow the hardware is.                                           *)
FullPulse ==
    [][\A f \in Played :
           IsReset(f) /\ 0 \in Value(f) /\ 0 \notin Value(f)' =>
               (f \in status) = Awaited(f, {0})]_regVars

(* The macros implement a store of independent fields: whatever a register *)
(* held, whatever the hardware changes in it meanwhile and whatever value  *)
(* the caller passes, a macro changes its own field only, and one that     *)
(* sets a reset returns when the block has followed, whichever the         *)
(* polarity of its line.                                                   *)
ImplementsFieldStore == Store!Spec
=============================================================================
