----------------------------- MODULE FieldStore -----------------------------
(***************************************************************************)
(* What the macros of the generated headers promise: the system's          *)
(* configuration is a store of independent fields.  Setting a field        *)
(* changes that field alone, to the value asked for cut to the width of    *)
(* the field.  A reset is more than its field: the hardware takes its      *)
(* time to put the block in reset or to let it go, and a macro that sets a *)
(* reset returns when the block has followed.                              *)
(***************************************************************************)
EXTENDS RegisterFields, Sequences

CONSTANTS
    Field,      \* the fields, each a register and a shape in it
    Operation   \* [kind, field, value]: the calls there may be

VARIABLES
    value,    \* the value of each field, as the set of its bits that are 1
    held,     \* the resets whose block is in reset
    todo,     \* the calls that are still to be made or to return
    applied,  \* the call at the head of todo has set its reset, and waits
    result    \* what the last call that reads has returned

vars == <<value, held, todo, applied, result>>

Lowest(a) == 0 .. a.width - 1
IsReset(f) == f.at.role \in {"rst", "rstn"}
Asserted(v) == 0 \in v

\* A reset's status bit gives the level of its line.
StatusBit(f) == IF (f \in held) = (f.at.role = "rst") THEN {0} ELSE {}

Call == Head(todo)
Return == todo' = Tail(todo)

Init ==
    /\ DOMAIN value \subseteq Field
    /\ \A f \in DOMAIN value : value[f] \subseteq Lowest(f.at)
    /\ held = {f \in DOMAIN value : IsReset(f) /\ Asserted(value[f])}
    /\ todo \in Seq(Operation)
    /\ applied = FALSE
    /\ result = {}

Assign(f, v) == value' = [value EXCEPT ![f] = v \intersect Lowest(f.at)]

SetField ==
    /\ todo # <<>> /\ Call.kind = "set" /\ ~IsReset(Call.field)
    /\ Assign(Call.field, Call.value)
    /\ Return
    /\ UNCHANGED <<held, applied, result>>

SetReset ==
    /\ todo # <<>> /\ Call.kind = "set" /\ IsReset(Call.field) /\ ~applied
    /\ Assign(Call.field, Call.value)
    /\ applied' = TRUE
    /\ UNCHANGED <<held, todo, result>>

ResetReturns ==
    /\ applied
    /\ (Call.field \in held) = Asserted(Call.value)
    /\ applied' = FALSE
    /\ Return
    /\ UNCHANGED <<value, held, result>>

GetField ==
    /\ todo # <<>> /\ Call.kind = "get"
    /\ result' = IF IsReset(Call.field) THEN StatusBit(Call.field)
                                        ELSE value[Call.field]
    /\ Return
    /\ UNCHANGED <<value, held, applied>>

\* The block of a reset follows it.
Follow(f) ==
    /\ IsReset(f)
    /\ (f \in held) # Asserted(value[f])
    /\ held' = IF f \in held THEN held \ {f} ELSE held \union {f}
    /\ UNCHANGED <<value, todo, applied, result>>

\* The hardware changes the fields of a register that software only reads.
Drive(r) ==
    /\ \E ones \in BOOLEAN :
           value' = [f \in DOMAIN value |->
                        IF f.reg = r /\ f.at.role = "status"
                        THEN IF ones THEN Lowest(f.at) ELSE {}
                        ELSE value[f]]
    /\ UNCHANGED <<held, todo, applied, result>>

Next ==
    \/ SetField
    \/ SetReset
    \/ ResetReturns
    \/ GetField
    \/ \E f \in DOMAIN value : Follow(f)
    \/ \E f \in DOMAIN value : Drive(f.reg)

Spec == Init /\ [][Next]_vars
=============================================================================
