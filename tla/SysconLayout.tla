---------------------------- MODULE SysconLayout ----------------------------
(***************************************************************************)
(* The words of the two system controllers: SYSMAIN                        *)
(* (common/syscon_sysmain_ctrl_macro.h), named as its addresses are, and   *)
(* IOPAD (common/syscon_iopad_ctrl_macro.h), numbered from 0.  A           *)
(* definition stands for the macros of consecutive words.                  *)
(***************************************************************************)
EXTENDS RegisterFields, TLC

Words(names, fields) == [w \in names |-> fields]

\* reset, pwrdn, intfb, bypass, refdiv, fbkdiv, bw_adj, outdiv
PllFields ==
    {Config(0, 1), Config(1, 1), Config(2, 1), Config(3, 1), Config(4, 4),
     Config(8, 6), Config(16, 6), Config(24, 4)}

PllWords == Words({"pll0", "pll1", "pll2"}, PllFields)

\* One test bit, and a lock and two slip flags, of each PLL.
PllStatus ==
    Words({"plls_stat"},
          {Config(p, 1) : p \in 0 .. 2} \union
          {Status(4 + 4 * p + i, 1) : p \in 0 .. 2, i \in 0 .. 2})

CoreWords ==
    Words({"register4"}, {Status(b, 1) : b \in 0 .. 3}) @@
    Words({"boot_vect0_low", "boot_vect1_low"}, Whole) @@
    Words({"boot_vect0_hi", "boot_vect1_hi"}, {Config(0, 6)}) @@
    Words({"u74_PRID"}, {Config(0, 11)}) @@
    Words({"register10"}, {Status(b, 1) : b \in 0 .. 2})

DlaWords ==
    Words({"register11", "register12", "register13", "register14",
           "register15"}, Whole) @@
    Words({"register16"}, {Config(b, 1) : b \in 0 .. 3})

VideoWords ==
    Words({"register17"}, {Status(0, 2)}) @@
    Words({"register18", "register19"}, {Status(0, 1)}) @@
    Words({"register20"}, {Config(0, 1)}) @@
    Words({"register21"}, {Status(0, 1), Status(1, 1)}) @@
    Words({"register22"}, {Status(0, 8)}) @@
    Words({"register23"}, {Config(0, 1), Config(1, 1)}) @@
    Words({"qspi"}, {Config(0, 8)}) @@
    Words({"intmem"}, {Config(0, 8), Config(8, 8)})

DmaAndGmacWords ==
    Words({"register26", "register27"}, Whole) @@
    Words({"register28"}, {Config(0, 3), Config(4, 8)}) @@
    Words({"register29"}, {Status(0, 2), Status(2, 1), Status(3, 1)}) @@
    Words({"gmac_timestamp0", "gmac_timestamp1"}, {Status(0, 32)}) @@
    Words({"register32"}, {Config(0, 1)})

SdioAndSramWords ==
    Words({"register33", "register34"},
          {Config(0, 1), Config(1, 1), Config(2, 8)}) @@
    Words({"register35"}, {Config(0, 2)}) @@
    Words({"register36"}, {Status(0, 1)}) @@
    Words({"register37", "register38"}, {Config(0, 8)}) @@
    Words({"register39"}, {Config(0, 8), Config(8, 8)}) @@
    Words({"register40"}, {Status(0, 1), Status(1, 1)})

InterruptWords ==
    Words({"intC1_7to0", "intC0_src15to8", "intC0_src23to16",
           "intC0_src31to24"}, {Config(0, 8)}) @@
    Words({"register47", "register48", "register49", "register50",
           "register51", "register52"}, Whole)

\* axi_cache_sel, default_arcache, default_awcache
CacheFields == {Config(0, 8), Config(8, 4), Config(12, 4)}

CacheWords53 ==
    Words({"register66", "register53", "register54", "register55"},
          CacheFields)

CacheWords56 ==
    Words({"register56", "register57", "register58", "register59"},
          CacheFields)

CacheWords60 ==
    Words({"register60", "register61", "register62", "register63"},
          CacheFields)

CacheWords64 ==
    Words({"register64", "register65", "register67"}, CacheFields) @@
    Words({"register68"}, {Config(0, 1)})

\* core1_en, boot_mode, u74_reset_vector, boot_device_sel
BootWords ==
    Words({"register69"}, {Config(0, 1)}) @@
    Words({"register70"}, {Config(0, 1), Status(1, 1)}) @@
    Words({"register71"}, Whole) @@
    Words({"register72"}, {Status(0, 3)})

SysmainLayout ==
    PllWords @@ PllStatus @@ CoreWords @@ DlaWords @@ VideoWords @@
    DmaAndGmacWords @@ SdioAndSramWords @@ InterruptWords @@ CacheWords53 @@
    CacheWords56 @@ CacheWords60 @@ CacheWords64 @@ BootWords

-----------------------------------------------------------------------------
(* IOPAD: a pad control word is one field.                                 *)

GpioPads0 == Words(0 .. 11, Whole)
GpioPads12 == Words(12 .. 23, Whole)
GpioPads24 == Words(24 .. 31, Whole)

\* Word 32 + i is funcshare_pad_ctrl_i.
FuncsharePads0 == Words(32 .. 43, Whole)
FuncsharePads12 == Words(44 .. 55, Whole)
FuncsharePads24 == Words(56 .. 67, Whole)
FuncsharePads36 == Words(68 .. 79, Whole)
FuncsharePads48 == Words(80 .. 91, Whole)
FuncsharePads60 == Words(92 .. 102, Whole)

\* qspi_ioctrl, io_padshare_sel
PadSelection == Words({103}, {Config(0, 7)}) @@ Words({104}, {Config(0, 3)})

IopadLayout ==
    GpioPads0 @@ GpioPads12 @@ GpioPads24 @@ FuncsharePads0 @@
    FuncsharePads12 @@ FuncsharePads24 @@ FuncsharePads36 @@
    FuncsharePads48 @@ FuncsharePads60 @@ PadSelection
=============================================================================
