--------------------------- MODULE RegisterFields ---------------------------
(***************************************************************************)
(* The shapes of a field of a 32-bit control register: where its bits are, *)
(* and which macros the generated headers define for it.                   *)
(***************************************************************************)
EXTENDS Naturals

WordBits == 0 .. 31

\* role: which macros there are; ways: how many values they write (0: any).
FieldAt(role, shift, width, ways) ==
    [role |-> role, shift |-> shift, width |-> width, ways |-> ways]

\* _ENABLE_CLOCK_, _DISABLE_CLOCK_
Gate == FieldAt("gate", 31, 1, 2)

\* _SET_CLOCK_..._POLARITY_, _UNSET_CLOCK_..._POLARITY_
Polarity == FieldAt("polarity", 30, 1, 2)

\* _DIVIDE_CLOCK_(div)
Divider(width) == FieldAt("divide", 0, width, 0)

\* n macros _SWITCH_CLOCK_..._SOURCE_..., one per source
Source(n) == FieldAt("source", 24, IF n = 2 THEN 1 ELSE 2, n)

\* _ASSERT_RESET_, _CLEAR_RESET_: bit b of the assert and status words
Reset(b, activeHigh) == FieldAt(IF activeHigh THEN "rst" ELSE "rstn", b, 1, 2)

\* _SET_SYSCON_REG_(v), _GET_SYSCON_REG_
Config(shift, width) == FieldAt("config", shift, width, 0)

\* _GET_SYSCON_REG_ alone: the hardware drives the bits
Status(shift, width) == FieldAt("status", shift, width, 0)

Whole == {Config(0, 32)}
=============================================================================
