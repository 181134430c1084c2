----------------------------- MODULE MCBringUp ------------------------------
(***************************************************************************)
(* BootMain's program with each size of the sections, state of the line    *)
(* and message, and one short program per field of the four headers.       *)
(***************************************************************************)
EXTENDS BringUp, FiniteSets

Get(field) == [kind |-> "get", field |-> field, value |-> {}]

\* Nothing, everything, and bits inside and outside every field.
MCOperands == {{}, WordBits, {0, 2, 5, 6, 11, 30}}

FieldPrograms(f) ==
    IF IsReset(f) THEN {<<Set(f, {0}), Get(f), Set(f, {}), Get(f)>>}
    ELSE IF f.at.role = "status" THEN {<<Get(f)>>}
    ELSE {<<Set(f, v), Get(f)>> :
             v \in IF f.at.ways = 0 THEN MCOperands ELSE Writes(f.at)}

MCClients == UNION {FieldPrograms(f) : f \in Field}
MCPrograms == {BootMain} \union MCClients

\* All clear, all set, and every block in reset with its clock off.
MCInitialWords ==
    {[r \in Registers |-> {}], [r \in Registers |-> WordBits],
     [r \in Registers |-> IF r[1] = "rstgen" THEN WordBits ELSE {}]}

Sizes(data, sdata, bss) == [data |-> data, sdata |-> sdata, bss |-> bss]
PlainSizes == Sizes(0, 0, 0)

\* Sections that are empty, and data that ends on, before and after a
\* multiple of 8.
MCSectionSizes ==
    {PlainSizes, Sizes(8, 0, 16), Sizes(0, 13, 0), Sizes(72, 1, 16),
     Sizes(72, 8, 8)}

MCOldLines == {{}, {7}, {0, 3, 6}}

\* A message of these items.
Message(items) ==
    LET texts == [i \in DOMAIN items |-> TextOf(items[i])]
    IN  [items |-> items,
         meant |-> FlattenSeq(texts),
         cuts |-> [i \in 1 .. Len(items) + 1 |->
                      Len(FlattenSeq(SubSeq(texts, 1, i - 1)))]]

Char(c) == [letters |-> <<c>>, int |-> <<>>, long |-> <<>>]
Conv(letters, int, long) == [letters |-> letters, int |-> int, long |-> long]
Hex(int, long) == Conv(<<"%", "x">>, int, long)
Str(s) == Conv(<<"%", "s">>, s, <<>>)
x == Char("x")

MCCharacters == {"x", "r", "e", "a", "d", "s", "f", "0", "1", "2", "8", "-", "%"}

MCMessages ==
    {Message(items) : items \in
        {<<>>, <<x, x, x, x, x>>, <<x, x, x, x, x, x>>,
         <<x, Str(<<"r", "e", "%", "d">>), x>>,
         <<Hex(<<"1">>, <<"8", "1">>), x,
           Conv(<<"%", "l", "x">>, <<"1">>, <<"8", "1">>), Hex(<<"2">>, <<"0">>)>>,
         <<Conv(<<"%", "p">>, <<"2">>, <<"1", "2">>), Hex(<<"f">>, <<"0">>), x>>,
         <<Conv(<<"%", "l", "d">>, <<"1", "0">>, <<"2", "0">>),
           Conv(<<"%", "d">>, <<"-", "1">>, <<"2", "0">>),
           Conv(<<"%", "0", "x">>, <<"f">>, <<"8">>)>>,
         <<Conv(<<"%", "c">>, <<"r">>, <<>>), Str(<<"e", "a", "d">>), x,
           Conv(<<"%", "c">>, <<"s">>, <<>>), Str(<<>>)>>}}

\* From _start, the inputs of the three parts varied one at a time.
FromReset ==
    /\ todo = BootMain /\ Init
    /\ Cardinality({part \in {"sizes", "line", "message", "word"} :
            CASE part = "sizes" -> sizes # PlainSizes
              [] part = "line" -> line # {}
              [] part = "message" -> message.items # <<>>
              [] part = "word" -> \E r \in DOMAIN word : word[r] # {}}) <= 1

\* The macros of one field, called once the set-up is over.
Afterwards ==
    /\ sizes = PlainSizes /\ mem = [a \in 0 .. BssEnd + 7 |-> Junk]
    /\ t0 = DataLma /\ t1 = BssStart /\ crt = "main"
    /\ RegInit /\ todo # BootMain
    /\ line = Cs8 /\ divisor = [low |-> Baud115200, high |-> {}] /\ irqs = {}
    /\ thr = <<>> /\ wire = <<>> /\ lcr_cache = {} /\ write = 9
    /\ message = Message(<<>>) /\ item = 1 /\ letter = 1 /\ vl = 1
    /\ format = FALSE /\ longarg = FALSE /\ pos = 0
    /\ out = [i \in 1 .. OutSize |-> IF i = 1 THEN NUL ELSE "junk"]
    /\ ch = 1 /\ con = "done"

MCSpec ==
    /\ FromReset \/ Afterwards
    /\ [][Next]_vars
    /\ WF_vars(Hart0) /\ WF_vars(BlockFollows) /\ WF_vars(CharacterSent)
=============================================================================
