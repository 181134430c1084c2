---------------------------- MODULE MCSecondBoot ----------------------------
(***************************************************************************)
(* SecondBoot for TLC: pages of eight bytes and a size word of 32 values,  *)
(* so that every size that load_data can align to a page is looked at.     *)
(***************************************************************************)
EXTENDS SecondBoot

\* The sizes whose alignment to a page does not overflow the word.
FittingSizes == 0 .. WordMod - PageSize

\* One size for each number of pages.
SampleSizes == {n \in FittingSizes : n % PageSize = 0}
=============================================================================
