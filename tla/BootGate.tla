------------------------------ MODULE BootGate ------------------------------
(***************************************************************************)
(* What the second boot promises to whoever wrote the DDR-init image: the  *)
(* image is loaded once; hart 0 may enter it only when the load has        *)
(* returned well; the other hart may enter it only when hart 0 has         *)
(* released it after that; a load that fails lets nobody in, ever.         *)
(***************************************************************************)
EXTENDS Naturals

VARIABLES
    stage,      \* how far the load is
    inside      \* the harts that execute the image

vars == <<stage, inside>>

Init == stage = "loading" /\ inside = {}

Load    == stage = "loading" /\ stage' = "loaded"   /\ UNCHANGED inside
Fail    == stage = "loading" /\ stage' = "failed"   /\ UNCHANGED inside
Release == stage = "loaded"  /\ stage' = "released" /\ UNCHANGED inside

\* The loading hart need not wait for its own release to take effect.
EnterLoader == /\ stage \in {"loaded", "released"}
               /\ inside' = inside \union {0}
               /\ UNCHANGED stage

EnterOther == /\ stage = "released"
              /\ inside' = inside \union {1}
              /\ UNCHANGED stage

\* The image is called as a function and could return to its caller.
LeaveLoader == /\ 0 \in inside
               /\ inside' = inside \ {0}
               /\ UNCHANGED stage

Next == Load \/ Fail \/ Release \/ EnterLoader \/ EnterOther \/ LeaveLoader

Spec == Init /\ [][Next]_vars
=============================================================================
