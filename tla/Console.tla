------------------------------ MODULE Console -------------------------------
(***************************************************************************)
(* The console (uart/uart.c): uart_init, which sets the line up through    *)
(* registers that have two uses each, and printk, which formats into a     *)
(* buffer of fixed size and sends it one character at a time, each when    *)
(* the transmitter has room.                                               *)
(*                                                                         *)
(* A register value is the set of its bits that are 1.  A format string is *)
(* cut into items, a literal character or a conversion, and an item has    *)
(* what its argument prints as, taken as an int and taken as a long.       *)
(***************************************************************************)
EXTENDS Naturals, Sequences, SequencesExt

CONSTANTS
    OutSize,     \* sizeof(out) in vprintk, 256 in the code
    Characters,  \* what messages are made of
    Messages,    \* the messages that may be printed
    OldLines     \* what the line control register may hold before uart_init

NUL == "NUL"

\* What vnprintf knows; a flag that it does not know it ignores.
Conversions ==
    {<<"%", c>> : c \in {"x", "d", "p", "s", "c"}} \union
    {<<"%", flag, c>> : flag \in {"l", "0"}, c \in {"x", "d"}}

Item ==
    [letters : {<<c>> : c \in Characters \ {"%"}} \union Conversions,
     int : Seq(Characters), long : Seq(Characters)]

IsConv(i) == i.letters \in Conversions

\* What the caller means by an item.
TextOf(i) ==
    IF ~IsConv(i) THEN i.letters
    ELSE IF i.letters[2] = "p" THEN <<"0", "x">> \o i.long
    ELSE IF i.letters[2] = "l" THEN i.long
    ELSE i.int

\* What is meant by a message is the texts of its items one after the other,
\* the one of item i after the first cuts[i] characters.
IsMessage(m) ==
    LET n == Len(m.items)
    IN  /\ m.items \in Seq(Item) /\ m.meant \in Seq(Characters)
        /\ m.cuts \in [1 .. n + 1 -> Nat]
        /\ m.cuts[1] = 0 /\ m.cuts[n + 1] = Len(m.meant)
        /\ \A i \in 1 .. n :
               LET text == TextOf(m.items[i])
               IN  /\ m.cuts[i + 1] = m.cuts[i] + Len(text)
                   /\ \A k \in 1 .. Len(text) : m.meant[m.cuts[i] + k] = text[k]
                   /\ m.items[i].letters = <<"%", "c">> => Len(text) = 1

ASSUME OutSizeAssumption == OutSize \in Nat \ {0}
ASSUME CharactersAssumption == NUL \notin Characters /\ {"0", "x"} \subseteq Characters
ASSUME MessagesAssumption == \A m \in Messages : IsMessage(m)

VARIABLES
    line,      \* LCR
    divisor,   \* the divisor latch, [low, high]
    irqs,      \* IER
    thr,       \* the transmitter: empty, or the one character it is sending
    wire,      \* what has been sent
    lcr_cache, \* uart_init's copy of LCR
    write,     \* which of its writes uart_init does next
    message,   \* the message to print
    item,      \* where vnprintf's s is: in this item,
    letter,    \*   at this letter
    vl,        \* the item whose argument va_list is at, or one before it
    format,    \* vnprintf's format, longarg, pos
    longarg,
    pos,
    out,       \* vprintk's buffer
    ch,        \* the character of it that _puts is at
    con        \* where uart_init and printk are

uartRegs == <<line, divisor, irqs>>
initVars == <<lcr_cache, write>>
formatVars == <<item, letter, vl, format, longarg, pos, out>>
printVars == <<message, formatVars, ch>>
consoleVars == <<uartRegs, thr, wire, initVars, printVars, con>>

Dlab == 7                      \* LCR_DLAB
Cs8 == {0, 1}                  \* LCR_CS8 | LCR_1_STB | LCR_PDIS
Fifo == {0, 1, 2, 3, 7}        \* enabled, mode 1, 8 bytes, both FIFOs cleared
XmitClear == 2                 \* FCR_XMITCLR
Baud115200 == {1, 2, 4, 5}     \* 54 = (100000000 / 115200) >> 4

ConsoleInit ==
    /\ line \in OldLines
    /\ divisor = [low |-> {0}, high |-> {0}]
    /\ irqs = {0}
    /\ thr = <<>> /\ wire = <<>>
    /\ lcr_cache = {} /\ write = 1
    /\ message \in Messages
    /\ item = 1 /\ letter = 1 /\ vl = 1
    /\ format = FALSE /\ longarg = FALSE /\ pos = 0
    /\ out = [i \in 1 .. OutSize |-> "junk"]
    /\ ch = 1
    /\ con = "start"

-----------------------------------------------------------------------------
(* The UART.                                                               *)

THR == 0
BRDL == 0
IER == 1
BRDH == 1
FCR == 2
LCR == 3
MDC == 4

\* A write: offsets 0 and 1 are the divisor latch while DLAB is set.
serial_out(offset, v) ==
    /\ line' = IF offset = LCR THEN v ELSE line
    /\ divisor' = CASE Dlab \in line /\ offset = BRDL -> [divisor EXCEPT !.low = v]
                    [] Dlab \in line /\ offset = BRDH -> [divisor EXCEPT !.high = v]
                    [] OTHER -> divisor
    /\ irqs' = IF Dlab \notin line /\ offset = IER THEN v ELSE irqs
    /\ thr' = CASE Dlab \notin line /\ offset = THR -> <<v>>
                [] offset = FCR /\ XmitClear \in v -> <<>>
                [] OTHER -> thr

\* LSR_THRE
TransmitterEmpty == thr = <<>>

Transmit ==
    /\ ~TransmitterEmpty
    /\ wire' = wire \o thr
    /\ thr' = <<>>
    /\ UNCHANGED <<uartRegs, initVars, printVars, con>>

-----------------------------------------------------------------------------
(* uart_init.                                                              *)

InitWrites_NoDlab(old) ==
    <<<<LCR, old>>, <<BRDL, Baud115200>>, <<BRDH, {}>>, <<LCR, old>>,
      <<LCR, Cs8>>, <<MDC, {}>>, <<FCR, Fifo>>, <<IER, {}>>>>

\* The writes of uart_init, which has read old from LCR.
InitWrites(old) ==
    <<<<LCR, old \union {Dlab}>>, <<BRDL, Baud115200>>, <<BRDH, {}>>,
      <<LCR, old>>, <<LCR, Cs8>>, <<MDC, {}>>, <<FCR, Fifo>>, <<IER, {}>>>>

\* lcr_cache = serial_in(REG_LCR)
ReadLine ==
    /\ con = "start"
    /\ lcr_cache' = line
    /\ con' = "init"
    /\ UNCHANGED <<uartRegs, thr, wire, write, printVars>>

InitWrite ==
    /\ con = "init"
    /\ LET w == InitWrites(lcr_cache)[write] IN serial_out(w[1], w[2])
    /\ write' = write + 1
    /\ con' = IF write = 8 THEN "format" ELSE "init"
    /\ UNCHANGED <<wire, lcr_cache, printVars>>

-----------------------------------------------------------------------------
(* vnprintf, one turn of its loop at a time.                               *)

Formatting == con = "format" /\ item <= Len(message.items)
Letter == message.items[item].letters[letter]

\* s++
NextLetter ==
    IF letter < Len(message.items[item].letters)
    THEN letter' = letter + 1 /\ item' = item
    ELSE letter' = 1 /\ item' = item + 1

\* For each character of a text: if (++pos < n) out[pos-1] = c
Put(text) ==
    /\ pos' = pos + Len(text)
    /\ out' = [i \in 1 .. OutSize |->
                  IF i \in pos + 1 .. pos + Len(text) /\ i < OutSize
                  THEN text[i - pos] ELSE out[i]]

\* The item of the next argument.
ArgItem ==
    CHOOSE j \in vl .. Len(message.items) :
        /\ IsConv(message.items[j])
        /\ \A k \in vl .. j - 1 : ~IsConv(message.items[k])

Literal ==
    /\ Formatting /\ ~format /\ Letter # "%"
    /\ Put(<<Letter>>)
    /\ NextLetter
    /\ UNCHANGED <<vl, format, longarg>>

Percent ==
    /\ Formatting /\ ~format /\ Letter = "%"
    /\ format' = TRUE
    /\ NextLetter
    /\ UNCHANGED <<vl, longarg, pos, out>>

\* case 'l', and the default
Flag ==
    /\ Formatting /\ format /\ Letter \notin {"x", "d", "p", "s", "c"}
    /\ longarg' = (longarg \/ Letter = "l")
    /\ NextLetter
    /\ UNCHANGED <<vl, format, pos, out>>

EndConversion == format' = FALSE /\ longarg' = FALSE /\ NextLetter

Convert ==
    /\ Formatting /\ format /\ Letter \in {"x", "d", "p", "s"}
    /\ LET arg == message.items[ArgItem]
           whole == Letter = "p" \/ (longarg /\ Letter # "s")
       IN  Put((IF Letter = "p" THEN <<"0", "x">> ELSE <<>>) \o
               (IF whole THEN arg.long ELSE arg.int))
    /\ vl' = ArgItem + 1
    /\ EndConversion

\* if (++pos < n) out[pos-1] = (char)va_arg(vl,int): an argument that does
\* not fit is not taken.
ConvertChar ==
    /\ Formatting /\ format /\ Letter = "c"
    /\ IF pos + 1 < OutSize
       THEN Put(message.items[ArgItem].int) /\ vl' = ArgItem + 1
       ELSE pos' = pos + 1 /\ UNCHANGED <<vl, out>>
    /\ EndConversion

FormatLetter ==
    /\ Literal \/ Percent \/ Flag \/ Convert \/ ConvertChar
    /\ UNCHANGED <<uartRegs, thr, wire, initVars, message, ch, con>>

\* if (pos < n) out[pos] = 0; else if (n) out[n-1] = 0
Terminate ==
    /\ con = "format" /\ item > Len(message.items)
    /\ out' = [out EXCEPT ![IF pos < OutSize THEN pos + 1 ELSE OutSize] = NUL]
    /\ con' = "send"
    /\ UNCHANGED <<uartRegs, thr, wire, initVars, message, item, letter, vl,
                   format, longarg, pos, ch>>

-----------------------------------------------------------------------------
(* _puts and _putc.                                                        *)

PutChar_NoWait ==
    /\ con = "send" /\ out[ch] # NUL
    /\ serial_out(THR, out[ch])
    /\ ch' = ch + 1
    /\ UNCHANGED <<wire, initVars, message, formatVars, con>>

\* do {} while ((serial_in(REG_LSR) & LSR_THRE) == 0); serial_out(REG_THR, c)
PutChar ==
    /\ con = "send" /\ out[ch] # NUL
    /\ TransmitterEmpty
    /\ serial_out(THR, out[ch])
    /\ ch' = ch + 1
    /\ UNCHANGED <<wire, initVars, message, formatVars, con>>

PrintReturns ==
    /\ con = "send" /\ out[ch] = NUL
    /\ con' = "done"
    /\ UNCHANGED <<uartRegs, thr, wire, initVars, printVars>>

ConsoleNext ==
    \/ ReadLine \/ InitWrite
    \/ FormatLetter \/ Terminate
    \/ PutChar \/ PrintReturns

-----------------------------------------------------------------------------
(* When uart_init has returned, the divisor latch and the interrupt        *)
(* enables, which share their addresses with the transmitter's, have the   *)
(* values meant for them, whatever state the line was left in.             *)
LineSet ==
    con \notin {"start", "init"} =>
        /\ divisor = [low |-> Baud115200, high |-> {}]
        /\ irqs = {}
        /\ line = Cs8

\* As much of a message as the buffer has room for.
Shown(m) ==
    SubSeq(m.meant, 1, IF Len(m.meant) < OutSize THEN Len(m.meant) ELSE OutSize - 1)

(* What goes out on the wire is the message, cut to what the buffer holds: *)
(* in order, nothing lost to a busy transmitter, nothing before it, and    *)
(* nothing of what the buffer held before.                                 *)
SentIsMessage ==
    /\ IsPrefix(wire \o thr, Shown(message))
    /\ con = "done" => wire \o thr = Shown(message)
=============================================================================
