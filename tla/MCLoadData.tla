----------------------------- MODULE MCLoadData -----------------------------
(***************************************************************************)
(* LoadData on its own for TLC, with sizes that overflow.                  *)
(***************************************************************************)
EXTENDS LoadData

\* Every value of the size word, the erased flash's (all ones) included.
AllSizes == 0 .. WordMod - 1
=============================================================================
