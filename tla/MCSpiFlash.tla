----------------------------- MODULE MCSpiFlash -----------------------------
(***************************************************************************)
(* SpiFlash for TLC: a flash of four 2-byte pages, erased two bytes or     *)
(* four bytes at a time.                                                   *)
(***************************************************************************)
EXTENDS SpiFlash

Erases(units) ==
    {c \in [kind : {"erase"}, start : {0, 2, 3, 4}, len : {0, 2, 4}, unit : units] :
        c.start + c.len <= Size}

Transfers(kinds, modes, lens) ==
    {c \in [kind : kinds, start : {1, 2, 4}, len : lens, mode : modes] :
        c.start + c.len <= Size}

\* Everything this driver does, in the modes it implements.
AllCalls ==
    Erases({2, 4}) \union Transfers({"program"}, {1, 4}, {0, 1, 4})
                   \union Transfers({"read"}, {1, 4}, {2})
=============================================================================
