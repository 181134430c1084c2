---------------------------- MODULE MCFlashProbe ----------------------------
(***************************************************************************)
(* FlashProbe for TLC: two chip selects, four delays, and the table of    *)
(* the build (spi_probe.c:157-159), in which two entries share an ID.      *)
(***************************************************************************)
EXTENDS FlashProbe, TLC

MCTable == <<"0x200201", "0x1960C8", "0x1960C8">>
MCIds == {NoId, "0x200201", "0x1960C8", "unknown"}

\* A chip of the table beside one that is not in it, and one with nothing.
MCBoards == {(0 :> "0x1960C8") @@ (1 :> "unknown"),
             (0 :> NoId) @@ (1 :> "0x200201")}

\* No delay works, or a run of two and another, or all but the first.
MCWindows == {{}, {0, 1, 3}, {1, 2, 3}}
=============================================================================
