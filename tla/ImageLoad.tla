------------------------------ MODULE ImageLoad ------------------------------
(***************************************************************************)
(* What loading a file promises: bytes of the file are put in their places *)
(* in any order and any grouping; the load may give up at any time, but    *)
(* takes no byte back; it may end well only when the file is not empty and *)
(* every byte is in place.                                                 *)
(***************************************************************************)
EXTENDS Naturals

VARIABLES
    status,     \* "start", "loading", "ok" or "failed"
    size,       \* the size of the file, once it is known
    placed      \* the positions that hold their byte of the file

vars == <<status, size, placed>>

Init == status = "start" /\ size = 0 /\ placed = {}

Begin == /\ status = "start"
         /\ status' = "loading"
         /\ size' \in Nat \ {0}
         /\ placed \subseteq placed'

Place == /\ status = "loading"
         /\ placed \subseteq placed'
         /\ UNCHANGED <<status, size>>

Finish == /\ status = "loading"
          /\ 0 .. size - 1 \subseteq placed
          /\ status' = "ok"
          /\ UNCHANGED <<size, placed>>

GiveUp == /\ status \in {"start", "loading"}
          /\ status' = "failed"
          /\ placed \subseteq placed'
          /\ UNCHANGED size

Next == Begin \/ Place \/ Finish \/ GiveUp

Spec == Init /\ [][Next]_vars
=============================================================================
