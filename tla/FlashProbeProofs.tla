-------------------------- MODULE FlashProbeProofs --------------------------
(***************************************************************************)
(* Proofs about FlashProbe, for any number of delays, any clocks, chips    *)
(* and table, and any sequence of probes and operations.                   *)
(***************************************************************************)
EXTENDS FlashProbe, SequenceTheorems, TLAPS

-----------------------------------------------------------------------------
(* Types.                                                                  *)

\* What the scan has found so far: the first delay that reads well, and the
\* last tried after it.
ScanRange ==
    /\ pc = "scan" /\ rangeLo = -1 => rangeHi = i - 1
    /\ pc = "scan" /\ rangeLo # -1 =>
         rangeLo < i /\ (rangeHi = i - 1 \/ (rangeLo = i - 1 /\ rangeHi = i - 2))
    /\ pc = "settle" /\ rangeLo # -1 => rangeHi >= 0

\* The driver is free except while a slave is set up for a probe.
Turns ==
    /\ at = "setup" <=> pc # "free"
    /\ pc # "free" => hz # 0
    /\ pc \in {"golden", "scan", "settle", "finish"} => ret = "none"

TInv == TypeOK /\ ScanRange /\ Turns

LEMMA Bounds ==
    /\ -1 \in -1 .. Taps - 1 /\ 0 \in 0 .. Taps /\ 0 \in 0 .. Taps - 1
    /\ 0 \in 0 .. MaxHz /\ 0 \in 0 .. MaxCalls
BY TapsAssumption, MaxHzAssumption, MaxCallsAssumption

LEMMA InitTypes == Init => TInv
<1> SUFFICES ASSUME Init PROVE TInv
  OBVIOUS
<1>1. TransferTypeOK
  BY ChipsAssumption, EmptySeq DEF Init, TransferTypeOK, TransferInit
<1>2. SetupTypeOK /\ ScanRange
  <2>1. cs \in Chips /\ tunedOn \in Chips
    BY <1>1 DEF Init, TransferTypeOK, SetupInit
  <2> QED BY <2>1, Bounds, ChipsAssumption
          DEF Init, SetupTypeOK, SetupInit, ScanRange
<1>3. 0 \in 0 .. Beyond
  BY TableAssumption DEF Beyond
<1> QED BY <1>1, <1>2, <1>3, IdsAssumption
        DEF Init, SetupInit, TInv, Turns, TypeOK

LEMMA ReadWriteType ==
    ASSUME NEW c \in [op : Ops, addressed : BOOLEAN],
           NEW d \in {"none", "in", "out"}
    PROVE  ReadWrite(c, d) \in Seq(Transfers)
<1>1. d = "none" => <<BeginEnd(c)>> \in Seq(Transfers)
  BY DEF Transfers
<1>2. d # "none" => <<Begin(c), End(d)>> \in Seq(Transfers)
  BY DEF Transfers
<1> QED BY <1>1, <1>2 DEF ReadWrite

\* A transfer takes the first of those that are still to come.
LEMMA TransferType ==
    ASSUME TransferTypeOK, BeginTransfer \/ EndTransfer
    PROVE  TransferTypeOK'
<1>1. xfers # <<>> /\ xfers' = Tail(xfers) /\ selected' = slave /\ slave' = slave
  BY DEF BeginTransfer, EndTransfer, Select
<1>2. xfers' \in Seq(Transfers) /\ Head(xfers) \in Transfers
  BY <1>1, HeadTailProperties DEF TransferTypeOK
<1>3. cmd' \in [op : Ops, addressed : BOOLEAN] \union {Empty}
  <2>1. CASE BeginTransfer
    BY <1>2, <2>1 DEF BeginTransfer, Transfers, Begin, BeginEnd, End
  <2>2. CASE EndTransfer
    BY <2>2 DEF EndTransfer
  <2> QED BY <2>1, <2>2
<1> QED BY <1>1, <1>2, <1>3 DEF TransferTypeOK

\* A step of the set-up keeps the types and the range of the scan.
LEMMA SetupTypes ==
    ASSUME TInv, pc # "free", SetupStep
    PROVE  /\ SetupTypeOK' /\ ScanRange' /\ slave' \in Chips
           /\ pc' # "free" /\ hz' # 0
           /\ pc' # "return" => ret' = "none"
<1> USE TapsAssumption, MaxHzAssumption
<1> USE DEF TInv, TypeOK, SetupTypeOK, TransferTypeOK, ScanRange, Turns, scan,
            cache, controller
<1>1. CASE ReadGolden /\ UNCHANGED slave
  <2>1. CASE pc' = "scan"
    <3>1. i' = 0 /\ rangeLo' = -1 /\ rangeHi' = -1
      BY <1>1, <2>1 DEF ReadGolden, ReadFails
    <3>2. ScanRange'
      BY <2>1, <3>1
    <3> QED BY <1>1, <2>1, <3>1, <3>2, Bounds DEF ReadGolden, ReadFails
  <2>2. CASE pc' # "scan"
    BY <1>1, <2>2, Bounds DEF ReadGolden, ReadFails
  <2> QED BY <2>1, <2>2
<1>2. CASE TryFails /\ UNCHANGED slave
  BY <1>2 DEF TryFails, Try, ReadFails
<1>3. CASE FindLow /\ UNCHANGED slave
  BY <1>3 DEF FindLow, Try, Next_i
<1>4. CASE FindHigh /\ UNCHANGED slave
  BY <1>4 DEF FindHigh, Try
<1>5. CASE KeepLooking /\ UNCHANGED slave
  BY <1>5 DEF KeepLooking, Try, Next_i
<1>6. CASE ScanEnds /\ UNCHANGED slave
  BY <1>6 DEF ScanEnds
<1>7. CASE Settle /\ UNCHANGED slave
  <2>1. (rangeHi + rangeLo) \div 2 \in 0 .. Taps - 1
    BY <1>7 DEF Settle
  <2> QED BY <1>7, <2>1 DEF Settle
<1>8. CASE SettleForNone /\ UNCHANGED slave
  BY <1>8 DEF SettleForNone
<1>9. CASE Finish
  BY <1>9 DEF Finish
<1> QED BY <1>1, <1>2, <1>3, <1>4, <1>5, <1>6, <1>7, <1>8, <1>9 DEF SetupStep

LEMMA NextTypes == TInv /\ [Next]_vars => TInv'
<1> SUFFICES ASSUME TInv, [Next]_vars PROVE TInv'
  OBVIOUS
<1> USE DEF TInv, Turns
<1>1. CASE Probe
  <2>1. Least(MaxHz + 1, MaxHz) = MaxHz
        /\ \A r \in 1 .. MaxHz + 1 : Least(r, MaxHz) \in 1 .. MaxHz
    BY MaxHzAssumption DEF Least
  <2> QED BY <1>1, <2>1, MaxCallsAssumption
          DEF Probe, SetupSlave, TypeOK, SetupTypeOK, TransferTypeOK, ScanRange,
              transferVars, scan, cache, controller
<1>2. CASE SetUp
  <2>1. pc # "free" /\ SetupStep
    BY <1>2 DEF SetUp
  <2>2. SetupTypeOK' /\ ScanRange' /\ slave' \in Chips /\ pc' # "free" /\ hz' # 0
        /\ (pc' # "return" => ret' = "none")
    BY <2>1, SetupTypes
  <2> QED BY <1>2, <2>2 DEF SetUp, TypeOK, TransferTypeOK, probeVars
<1>3. CASE NoSlave
  BY <1>3 DEF NoSlave, SetupReturns, TypeOK, SetupTypeOK, TransferTypeOK,
              ScanRange, transferVars, scan, cache, controller
<1>4. CASE SlaveReady
  <2>1. ReadId \in Operations \union {ReadId}
        /\ ReadWrite(ReadId.cmd, ReadId.data) \in Seq(Transfers)
    BY ReadWriteType, IdsAssumption DEF ReadId, Command
  <2> QED BY <1>4, <2>1 DEF SlaveReady, SetupReturns, TypeOK, SetupTypeOK,
             TransferTypeOK, ScanRange, scan, cache, controller
<1>5. CASE SendRdid
  BY <1>5, TransferType DEF SendRdid, TypeOK, SetupTypeOK, ScanRange, probeVars,
     setupVars, scan, cache, controller
<1>6. CASE GetId
  <2>1. id' \in Ids
    BY <1>6, BoardsAssumption DEF GetId, TypeOK, TransferTypeOK, EndTransfer, Select
  <2> QED BY <1>6, <2>1, TransferType DEF GetId, TypeOK, SetupTypeOK, ScanRange,
             setupVars, scan, cache, controller
<1>7. CASE MissId
  BY <1>7, TransferType DEF MissId, TypeOK, SetupTypeOK, ScanRange, setupVars,
     scan, cache, controller
<1>8. CASE NoFlash
  BY <1>8 DEF NoFlash, TypeOK, SetupTypeOK, TransferTypeOK, ScanRange, setupVars,
     transferVars, scan, cache, controller
<1>9. CASE NameFlash
  <2>1. entry' \in 0 .. Beyond
    BY <1>9, TableAssumption DEF NameFlash, Found, Beyond
  <2> QED BY <1>9, <2>1, IdsAssumption DEF NameFlash, TypeOK, SetupTypeOK,
             TransferTypeOK, ScanRange, setupVars, transferVars, scan, cache,
             controller
<1>10. CASE Operate
  <2>1. asked'.cmd \in [op : Ops, addressed : BOOLEAN]
        /\ asked'.data \in {"none", "in", "out"}
    BY <1>10 DEF Operate, Operations
  <2>2. xfers' \in Seq(Transfers)
    BY <1>10, <2>1, ReadWriteType DEF Operate
  <2> QED BY <1>10, <2>2, MaxCallsAssumption
          DEF Operate, TypeOK, SetupTypeOK, TransferTypeOK, ScanRange, scan,
              cache, controller
<1>11. CASE TransferOfOperation
  BY <1>11, TransferType DEF TransferOfOperation, TypeOK, SetupTypeOK, ScanRange,
     setupVars, scan, cache, controller
<1>12. CASE UNCHANGED vars
  BY <1>12 DEF vars, probeVars, setupVars, transferVars, TypeOK, SetupTypeOK,
     TransferTypeOK, ScanRange, scan, cache, controller
<1> QED BY <1>1, <1>2, <1>3, <1>4, <1>5, <1>6, <1>7, <1>8, <1>9, <1>10, <1>11,
           <1>12 DEF Next

\* Every reachable state is well typed: the scan and the middle of its range
\* stay inside the delays there are, and the entry inside the table or just
\* past it.
THEOREM TypeCorrect == Spec => []TypeOK
<1>1. TInv => TypeOK
  BY DEF TInv
<1> QED BY <1>1, InitTypes, NextTypes, PTL DEF Spec

-----------------------------------------------------------------------------
(* What an operation has the controller do.                                *)

Done == issued = <<[mode |-> Path(asked), chip |-> slave, op |-> asked.cmd.op]>>

\* The operation's transfers are all still to come, or the first of two is
\* behind it and its command in the buffer.
Underway ==
    /\ issued = <<>>
    /\ \/ xfers = ReadWrite(asked.cmd, asked.data)
       \/ /\ asked.data # "none"
          /\ xfers = <<End(asked.data)>> /\ cmd = asked.cmd

CInv ==
    /\ at = "id" => asked = ReadId
    /\ at \in {"id", "operation"} => Underway
    /\ at = "nor" => Done
    /\ at = "idle" /\ asked # ReadId => Done
    /\ at = "setup" /\ asked # ReadId /\ ret # "slave" => Done

LEMMA CommandIsNotEmpty ==
    ASSUME NEW c \in [op : Ops, addressed : BOOLEAN]
    PROVE  c # Empty
BY OpsAssumption DEF Empty, Command

LEMMA AskedType ==
    ASSUME TypeOK
    PROVE  /\ asked.cmd \in [op : Ops, addressed : BOOLEAN]
           /\ asked.data \in {"none", "in", "out"}
<1>1. asked \in Operations \/ asked = ReadId
  BY DEF TypeOK
<1>2. CASE asked \in Operations
  BY <1>2 DEF Operations
<1>3. CASE asked = ReadId
  <2>1. Command(Rdid, FALSE) \in [op : Ops, addressed : BOOLEAN]
    BY IdsAssumption DEF Command
  <2> QED BY <1>3, <2>1 DEF ReadId
<1> QED BY <1>1, <1>2, <1>3

\* The first of two transfers leaves the second.
LEMMA FirstTransfer ==
    ASSUME TypeOK, Underway, BeginTransfer
    PROVE  /\ asked.data # "none" /\ issued' = <<>>
           /\ xfers' = <<End(asked.data)>> /\ cmd' = asked.cmd
<1>1. ~Head(xfers).end /\ xfers' = Tail(xfers) /\ cmd' = Head(xfers).cmd
      /\ issued' = issued
  BY DEF BeginTransfer
<1>2. xfers # <<End(asked.data)>>
  BY <1>1 DEF End
<1>3. xfers = ReadWrite(asked.cmd, asked.data)
  BY <1>2 DEF Underway
<1>4. asked.data # "none"
  BY <1>1, <1>3 DEF ReadWrite, BeginEnd
<1>5. xfers = <<Begin(asked.cmd), End(asked.data)>>
  BY <1>3, <1>4 DEF ReadWrite
<1> QED BY <1>1, <1>4, <1>5 DEF Underway, Begin

\* The last one has the controller execute the command, and no other.
LEMMA LastTransfer ==
    ASSUME TypeOK, Underway, EndTransfer, asked' = asked
    PROVE  Done' /\ xfers' = <<>>
<1> DEFINE t == Head(xfers)
<1>1. t.end /\ xfers' = Tail(xfers) /\ selected' = slave /\ slave' = slave
  BY DEF EndTransfer, Select
<1>2. Loaded(t) = asked.cmd /\ Mode(t, asked.cmd) = Path(asked) /\ xfers' = <<>>
  <2>1. CASE asked.data # "none" /\ xfers = <<End(asked.data)>> /\ cmd = asked.cmd
    <3>1. t = End(asked.data) /\ xfers' = <<>>
      BY <1>1, <2>1
    <3>2. Loaded(t) = asked.cmd
      <4>1. ~End(asked.data).begin
        BY DEF End
      <4> QED BY <2>1, <3>1, <4>1 DEF Loaded
    <3>3. asked.data \in {"in", "out"} /\ asked.cmd.addressed \in BOOLEAN
      BY <2>1, AskedType
    <3>4. Mode(t, asked.cmd) = Path(asked)
      <4>1. Reads(t) <=> asked.data = "in"
        BY <3>1, <3>3 DEF Reads, End
      <4>2. Writes(t) <=> asked.data = "out"
        BY <3>1, <3>3 DEF Writes, End
      <4> QED BY <3>3, <4>1, <4>2 DEF Mode, Path
    <3> QED BY <3>1, <3>2, <3>4
  <2>2. CASE xfers = ReadWrite(asked.cmd, asked.data)
    <3>1. asked.data = "none"
      BY <1>1, <2>2 DEF ReadWrite, Begin
    <3>2. xfers = <<BeginEnd(asked.cmd)>>
      BY <2>2, <3>1 DEF ReadWrite
    <3>3. t = BeginEnd(asked.cmd) /\ xfers' = <<>>
      BY <1>1, <3>2
    <3>4. Loaded(t) = asked.cmd
      BY <3>3 DEF Loaded, BeginEnd
    <3>5. Mode(t, asked.cmd) = Path(asked)
      BY <3>1, <3>3 DEF Mode, Path, Reads, Writes, BeginEnd
    <3> QED BY <3>3, <3>4, <3>5
  <2> QED BY <2>1, <2>2 DEF Underway
<1>3. asked.cmd # Empty
  BY AskedType, CommandIsNotEmpty
<1>4. issued' = Append(issued, [mode |-> Mode(t, asked.cmd), chip |-> slave,
                                op |-> asked.cmd.op])
  BY <1>1, <1>2, <1>3 DEF EndTransfer
<1>5. issued' = <<[mode |-> Mode(t, asked.cmd), chip |-> slave,
                   op |-> asked.cmd.op]>>
  BY <1>4 DEF Underway
<1> QED BY <1>1, <1>2, <1>5 DEF Done

LEMMA InitCommands == Init => CInv
BY DEF Init, CInv

LEMMA NextCommands == TInv /\ CInv /\ [Next]_vars => CInv'
<1> SUFFICES ASSUME TInv, CInv, [Next]_vars PROVE CInv'
  OBVIOUS
<1>0. TypeOK /\ (at = "setup" <=> pc # "free")
  BY DEF TInv, Turns
<1>1. CASE Probe
  BY <1>1 DEF Probe, SetupSlave, CInv, Done, transferVars
<1>2. CASE SetUp
  <2>1. CASE SetupStep /\ slave' = slave /\ (ret' # "slave" => ret # "slave")
    BY <1>2, <2>1 DEF SetUp, CInv, Done, probeVars
  <2>2. CASE Finish
    BY <1>2, <2>2 DEF SetUp, Finish, CInv, probeVars
  <2>3. SetupStep /\ ~Finish => slave' = slave /\ (ret' # "slave" => ret # "slave")
    BY DEF SetupStep, ReadGolden, TryFails, FindLow, FindHigh, KeepLooking,
           ScanEnds, Settle, SettleForNone, Try, ReadFails, Next_i, TInv, Turns
  <2> QED BY <1>2, <2>1, <2>2, <2>3 DEF SetUp
<1>3. CASE NoSlave
  BY <1>3 DEF NoSlave, CInv, Done, transferVars
<1>4. CASE SlaveReady
  BY <1>4 DEF SlaveReady, CInv, Underway
<1>5. CASE SendRdid
  <2>1. at = "id" /\ at' = "id" /\ asked' = asked /\ BeginTransfer
    BY <1>5 DEF SendRdid, probeVars
  <2>2. Underway' /\ asked' = ReadId
    BY <1>0, <2>1, FirstTransfer DEF CInv, Underway
  <2> QED BY <2>1, <2>2 DEF CInv
<1>6. CASE GetId \/ MissId
  <2>1. at = "id" /\ at' = "nor" /\ asked' = asked /\ EndTransfer
    BY <1>6 DEF GetId, MissId
  <2>2. Done'
    BY <1>0, <2>1, LastTransfer DEF CInv
  <2> QED BY <2>1, <2>2 DEF CInv
<1>7. CASE NoFlash
  BY <1>7 DEF NoFlash, CInv, Done, transferVars
<1>8. CASE NameFlash
  BY <1>8 DEF NameFlash, CInv, Done, transferVars
<1>9. CASE Operate
  BY <1>9 DEF Operate, CInv, Underway
<1>10. CASE TransferOfOperation
  <2>1. at = "operation" /\ asked' = asked
        /\ at' = IF xfers' = <<>> THEN "idle" ELSE "operation"
    BY <1>10 DEF TransferOfOperation
  <2>2. CASE BeginTransfer
    <3>1. Underway' /\ xfers' # <<>>
      BY <1>0, <2>1, <2>2, FirstTransfer DEF CInv, Underway
    <3> QED BY <2>1, <3>1 DEF CInv
  <2>3. CASE EndTransfer
    <3>1. Done' /\ xfers' = <<>>
      BY <1>0, <2>1, <2>3, LastTransfer DEF CInv
    <3> QED BY <2>1, <3>1 DEF CInv
  <2> QED BY <1>10, <2>2, <2>3 DEF TransferOfOperation
<1>11. CASE UNCHANGED vars
  BY <1>11 DEF vars, probeVars, setupVars, transferVars, CInv, Done, Underway
<1> QED BY <1>1, <1>2, <1>3, <1>4, <1>5, <1>6, <1>7, <1>8, <1>9, <1>10, <1>11
        DEF Next

\* After any probes and operations, however they failed, what the last
\* operation had the controller do is its own command, once, to its slave's
\* chip.
THEOREM OneCommand == Spec => []OneCommandEach
<1>1. TInv /\ CInv => OneCommandEach
  BY DEF CInv, Done, OneCommandEach
<1> QED BY <1>1, InitTypes, NextTypes, InitCommands, NextCommands, PTL DEF Spec

-----------------------------------------------------------------------------
(* What the scan settles on.                                               *)

\* The delays that work for the chip that answers.
Working == window[selected][hz]

CalibratableAt(c, f) == \E t \in window[c][f] : t < Taps - 1

\* The controller is set for the chip at the clock, if it can be.
Tuned(c, f) ==
    /\ baud = f
    /\ CalibratableAt(c, f) => /\ delay = Middle(window[c][f])
                               /\ delay \in window[c][f]

\* What the scan knows of the delays that it has tried.
RunInv ==
    /\ pc \in {"scan", "settle"} => baud = hz
    /\ pc = "scan" /\ rangeLo = -1 => \A t \in Working : i <= t
    /\ pc \in {"scan", "settle"} /\ rangeLo # -1 =>
         rangeLo \in Working /\ \A t \in Working : rangeLo <= t
    /\ pc = "scan" /\ rangeLo # -1 => rangeLo .. i - 1 \subseteq Working
    /\ pc = "settle" /\ rangeLo = -1 => Working = {}
    /\ pc = "settle" /\ rangeLo # -1 =>
         \/ /\ rangeLo <= rangeHi
            /\ rangeLo .. rangeHi \subseteq Working
            /\ rangeHi + 1 \notin Working
         \/ rangeLo = Taps - 1

\* What a calibration, and the memory of it, say of the controller.
TuneInv ==
    /\ pc \in {"golden", "scan", "settle"} => fresh
    /\ pc \in {"finish", "return"} /\ ~fresh => previousHz = hz
    /\ pc = "finish" /\ fresh => tunedOn = selected
    /\ pc = "finish" \/ (pc = "return" /\ ret = "slave") =>
         (fresh => Tuned(selected, hz))
    /\ pc = "return" => failed \/ ret = "slave"
    /\ pc = "return" /\ ret = "slave" => previousHz = hz
    /\ ~failed /\ previousHz # 0 /\ (pc \in {"free", "return"} \/ ~fresh) =>
         Tuned(tunedOn, previousHz)

SInv == RunInv /\ TuneInv

LEMMA WorkingType ==
    ASSUME TInv
    PROVE  /\ \A c \in Chips, f \in 1 .. MaxHz : window[c][f] \subseteq 0 .. Taps - 1
           /\ pc # "free" => hz \in 1 .. MaxHz /\ Working \subseteq 0 .. Taps - 1
<1>1. window \in [Chips -> [1 .. MaxHz -> Windows]] /\ selected \in Chips
      /\ hz \in 0 .. MaxHz /\ (pc # "free" => hz # 0)
  BY DEF TInv, TypeOK, SetupTypeOK, TransferTypeOK, Turns
<1>2. \A c \in Chips, f \in 1 .. MaxHz : window[c][f] \subseteq 0 .. Taps - 1
  <2> TAKE c \in Chips, f \in 1 .. MaxHz
  <2>1. window[c] \in [1 .. MaxHz -> Windows]
    BY <1>1
  <2>2. window[c][f] \in Windows
    BY <2>1
  <2> QED BY <2>2, WindowsAssumption
<1>3. pc # "free" => hz \in 1 .. MaxHz
  BY <1>1, MaxHzAssumption
<1> QED BY <1>1, <1>2, <1>3 DEF Working

\* The smallest and the greatest of a set of integers are unique.
LEMMA MinIs ==
    ASSUME NEW S \in SUBSET Int, NEW m \in S, \A x \in S : m <= x
    PROVE  Min(S) = m
<1>1. Min(S) \in S /\ \A x \in S : Min(S) <= x
  <2>1. \E y \in S : \A x \in S : y <= x
    OBVIOUS
  <2> QED BY <2>1, Zenon DEF Min
<1>2. \A n \in S : (\A x \in S : n <= x) => n = m
  OBVIOUS
<1> QED BY <1>1, <1>2, Zenon

LEMMA MaxIs ==
    ASSUME NEW S \in SUBSET Int, NEW m \in S, \A x \in S : m >= x
    PROVE  Max(S) = m
<1>1. Max(S) \in S /\ \A x \in S : Max(S) >= x
  <2>1. \E y \in S : \A x \in S : y >= x
    OBVIOUS
  <2> QED BY <2>1, Zenon DEF Max
<1>2. \A n \in S : (\A x \in S : n >= x) => n = m
  OBVIOUS
<1> QED BY <1>1, <1>2, Zenon

LEMMA MiddleIs ==
    ASSUME NEW w \in SUBSET (0 .. Taps - 1), NEW lo \in w, NEW hi \in Int,
           lo <= hi, lo .. hi \subseteq w, hi + 1 \notin w, \A t \in w : lo <= t
    PROVE  (hi + lo) \div 2 = Middle(w) /\ (hi + lo) \div 2 \in w
<1> USE TapsAssumption
<1>1. w \in SUBSET Int /\ lo \in Int /\ hi \in lo .. hi
  OBVIOUS
<1>2. Min(w) = lo
  BY <1>1, MinIs
<1>3. hi \in FirstRun(w) /\ FirstRun(w) \in SUBSET Int
  BY <1>1, <1>2 DEF FirstRun
<1>4. ASSUME NEW t \in FirstRun(w), ~(hi >= t) PROVE FALSE
  <2>1. lo .. t \subseteq w /\ t \in Int
    BY <1>1, <1>2 DEF FirstRun
  <2>2. hi + 1 \in lo .. t
    BY <1>1, <1>4, <2>1
  <2> QED BY <2>1, <2>2
<1>5. Max(FirstRun(w)) = hi
  BY <1>3, <1>4, MaxIs
<1>6. (hi + lo) \div 2 \in lo .. hi
  BY <1>1
<1> QED BY <1>1, <1>2, <1>5, <1>6 DEF Middle

LEMMA InitSettled == Init => SInv
BY DEF Init, SetupInit, SInv, RunInv, TuneInv

\* A step of the set-up.
LEMMA SetupSettles ==
    ASSUME TInv, SInv, pc # "free", SetupStep, selected' = selected
    PROVE  SInv'
<1> USE TapsAssumption
<1>1. /\ Working \subseteq 0 .. Taps - 1 /\ hz \in 1 .. MaxHz
      /\ i \in 0 .. Taps /\ rangeLo \in -1 .. Taps - 1
      /\ rangeHi \in -1 .. Taps - 1 /\ ScanRange /\ TuneInv /\ RunInv
      /\ fresh \in BOOLEAN /\ failed \in BOOLEAN
  BY WorkingType DEF TInv, TypeOK, SetupTypeOK, SInv
<1>2. CASE ReadGolden
  <2>1. Working' = Working
    BY <1>2 DEF ReadGolden, Working
  <2>2. RunInv'
    BY <1>1, <1>2, <2>1 DEF ReadGolden, ReadFails, RunInv
  <2>3. TuneInv'
    BY <1>1, <1>2 DEF ReadGolden, ReadFails, TuneInv
  <2> QED BY <2>2, <2>3 DEF SInv
<1>3. CASE TryFails
  BY <1>1, <1>3 DEF TryFails, Try, ReadFails, SInv, RunInv, TuneInv
<1>4. CASE FindLow
  <2>1. Working' = Working
    BY <1>4 DEF FindLow, Try, Working
  <2>2. pc = "scan" /\ pc' = "scan" /\ rangeLo' = i /\ rangeLo = -1 /\ i' = i + 1
        /\ i \in Working /\ baud' = baud /\ hz' = hz
    BY <1>4 DEF FindLow, Try, Next_i, Working
  <2>3. RunInv'
    BY <1>1, <2>1, <2>2 DEF RunInv
  <2>4. TuneInv'
    BY <1>1, <1>4 DEF FindLow, Try, Next_i, TuneInv
  <2> QED BY <2>3, <2>4 DEF SInv
<1>5. CASE FindHigh
  <2>1. Working' = Working
    BY <1>5 DEF FindHigh, Try, Working
  <2>2. pc = "scan" /\ pc' = "settle" /\ rangeLo' = rangeLo /\ rangeLo # -1
        /\ rangeHi' = i - 1 /\ i \notin Working /\ baud' = baud /\ hz' = hz
    BY <1>5 DEF FindHigh, Try, Working
  <2>3. RunInv'
    BY <1>1, <2>1, <2>2 DEF RunInv, ScanRange
  <2>4. TuneInv'
    BY <1>1, <1>5 DEF FindHigh, Try, TuneInv
  <2> QED BY <2>3, <2>4 DEF SInv
<1>6. CASE KeepLooking
  <2>1. Working' = Working
    BY <1>6 DEF KeepLooking, Try, Working
  <2>2. pc = "scan" /\ pc' = "scan" /\ rangeLo' = rangeLo /\ i' = i + 1
        /\ (rangeLo # -1 <=> i \in Working) /\ baud' = baud /\ hz' = hz
    BY <1>6 DEF KeepLooking, Try, Next_i, Working
  <2>3. RunInv'
    BY <1>1, <2>1, <2>2 DEF RunInv, ScanRange
  <2>4. TuneInv'
    BY <1>1, <1>6 DEF KeepLooking, Try, Next_i, TuneInv
  <2> QED BY <2>3, <2>4 DEF SInv
<1>7. CASE ScanEnds
  <2>1. Working' = Working
    BY <1>7 DEF ScanEnds, Working
  <2>2. pc = "scan" /\ pc' = "settle" /\ rangeLo' = rangeLo /\ rangeHi' = rangeHi
        /\ i = Taps /\ baud' = baud /\ hz' = hz
    BY <1>7 DEF ScanEnds, scan, controller
  <2>3. RunInv'
    BY <1>1, <2>1, <2>2 DEF RunInv, ScanRange
  <2>4. TuneInv'
    BY <1>1, <1>7 DEF ScanEnds, scan, cache, controller, TuneInv
  <2> QED BY <2>3, <2>4 DEF SInv
<1>8. CASE Settle
  <2>1. pc = "settle" /\ rangeLo # -1 /\ pc' = "finish" /\ fresh /\ fresh' = fresh
        /\ tunedOn' = selected /\ hz' = hz /\ window' = window /\ baud' = hz
        /\ previousHz' = previousHz /\ delay' = (rangeHi + rangeLo) \div 2
    BY <1>1, <1>8 DEF Settle, RunInv, TuneInv
  <2>2. ASSUME CalibratableAt(selected, hz)
        PROVE  delay' = Middle(Working) /\ delay' \in Working
    <3>1. rangeLo \in Working /\ (\A t \in Working : rangeLo <= t)
      BY <1>1, <2>1 DEF RunInv
    <3>2. PICK t \in Working : t < Taps - 1
      BY <2>2 DEF CalibratableAt, Working
    <3>3. rangeLo # Taps - 1
      BY <1>1, <3>1, <3>2
    <3>4. rangeLo <= rangeHi /\ rangeLo .. rangeHi \subseteq Working
          /\ rangeHi + 1 \notin Working
      BY <1>1, <2>1, <3>3 DEF RunInv
    <3>5. Working \in SUBSET (0 .. Taps - 1) /\ rangeHi \in Int
      BY <1>1
    <3> QED BY <2>1, <3>1, <3>4, <3>5, MiddleIs
  <2>3. Tuned(selected, hz)'
    BY <2>1, <2>2 DEF Tuned, CalibratableAt, Working
  <2>4. TuneInv'
    BY <2>1, <2>3 DEF TuneInv
  <2>5. RunInv'
    BY <2>1 DEF RunInv
  <2> QED BY <2>4, <2>5 DEF SInv
<1>9. CASE SettleForNone
  <2>1. pc = "settle" /\ rangeLo = -1 /\ pc' = "finish" /\ fresh /\ fresh' = fresh
        /\ tunedOn' = selected /\ hz' = hz /\ window' = window /\ baud' = hz
    BY <1>1, <1>9 DEF SettleForNone, RunInv, TuneInv, controller
  <2>2. ~CalibratableAt(selected, hz)
    BY <1>1, <2>1 DEF RunInv, CalibratableAt, Working
  <2>3. Tuned(selected, hz)'
    BY <2>1, <2>2 DEF Tuned, CalibratableAt
  <2> QED BY <2>1, <2>3 DEF SInv, RunInv, TuneInv
<1>10. CASE Finish
  <2>1. pc = "finish" /\ pc' = "return" /\ ret' = "slave" /\ fresh' = fresh
        /\ failed' = failed /\ tunedOn' = tunedOn /\ hz' = hz /\ previousHz' = hz
        /\ window' = window /\ baud' = baud /\ delay' = delay
    BY <1>10 DEF Finish, controller
  <2>2. \A c : Tuned(c, hz)' = Tuned(c, hz)
    BY <2>1 DEF Tuned, CalibratableAt
  <2>3. fresh => Tuned(selected, hz) /\ tunedOn = selected
    BY <1>1, <2>1 DEF TuneInv
  <2>4. ~fresh /\ ~failed => Tuned(tunedOn, hz)
    BY <1>1, <2>1 DEF TuneInv
  <2> QED BY <2>1, <2>2, <2>3, <2>4 DEF SInv, RunInv, TuneInv
<1> QED BY <1>2, <1>3, <1>4, <1>5, <1>6, <1>7, <1>8, <1>9, <1>10 DEF SetupStep

\* While the driver is free, transfers may select another chip: what it
\* remembers is of the chip it was calibrated on.
LEMMA FreeSettled ==
    ASSUME SInv, pc = "free", pc' = "free",
           UNCHANGED <<failed, tunedOn, previousHz, baud, delay, window>>
    PROVE  SInv'
BY DEF SInv, RunInv, TuneInv, Tuned, CalibratableAt

LEMMA NextSettled == TInv /\ SInv /\ [Next]_vars => SInv'
<1> SUFFICES ASSUME TInv, SInv, [Next]_vars PROVE SInv'
  OBVIOUS
<1>0. (at = "setup" <=> pc # "free") /\ pc \in {"free", "golden", "scan", "settle", "finish", "return"}
  BY DEF TInv, Turns, TypeOK, SetupTypeOK
<1>1. CASE Probe
  <2>1. pc = "free" /\ fresh' = ~Calibrated(hz', cs')
        /\ pc' = (IF Calibrated(hz', cs') THEN "finish" ELSE "golden")
        /\ UNCHANGED <<failed, tunedOn, previousHz, baud, delay, window>>
    BY <1>1 DEF Probe, SetupSlave, cache, controller
  <2>2. ~failed /\ previousHz # 0 => Tuned(tunedOn, previousHz)'
    BY <2>1 DEF SInv, TuneInv, Tuned, CalibratableAt
  <2>3. CASE Calibrated(hz', cs')
    BY <2>1, <2>2, <2>3 DEF SInv, RunInv, TuneInv, Calibrated
  <2>4. CASE ~Calibrated(hz', cs')
    BY <2>1, <2>4 DEF SInv, RunInv, TuneInv
  <2> QED BY <2>3, <2>4
<1>2. CASE SetUp
  BY <1>0, <1>2, SetupSettles DEF SetUp
<1>3. CASE NoSlave \/ SlaveReady
  <2>1. pc = "return" /\ pc' = "free"
        /\ UNCHANGED <<failed, tunedOn, previousHz, baud, delay, window>>
    BY <1>3 DEF NoSlave, SlaveReady, SetupReturns, cache, controller
  <2> QED BY <2>1 DEF SInv, RunInv, TuneInv, Tuned, CalibratableAt
<1>4. CASE SendRdid \/ GetId \/ MissId \/ NoFlash \/ NameFlash \/ TransferOfOperation
  <2>1. pc = "free" /\ pc' = pc
        /\ UNCHANGED <<failed, tunedOn, previousHz, baud, delay, window>>
    BY <1>0, <1>4 DEF SendRdid, GetId, MissId, NoFlash, NameFlash,
       TransferOfOperation, setupVars, cache, controller
  <2> QED BY <2>1, FreeSettled
<1>5. CASE Operate
  <2>1. pc = "free" /\ pc' = pc
        /\ UNCHANGED <<failed, tunedOn, previousHz, baud, delay, window>>
    BY <1>0, <1>5 DEF Operate, cache, controller
  <2> QED BY <2>1, FreeSettled
<1>6. CASE UNCHANGED vars
  BY <1>6 DEF vars, setupVars, transferVars, scan, cache, controller, SInv,
     RunInv, TuneInv, Tuned, CalibratableAt, Working
<1> QED BY <1>1, <1>2, <1>3, <1>4, <1>5, <1>6 DEF Next

\* A slave that was just calibrated is set up at the clock asked for and at
\* the middle of the first run of delays that work, for any number of delays
\* and any sets of those that work.
THEOREM FreshReads == Spec => []FreshSlaveReads
<1>1. TInv /\ SInv => FreshSlaveReads
  BY DEF SInv, TuneInv, Tuned, CalibratableAt, FreshSlaveReads, Calibratable, Works
<1> QED BY <1>1, InitTypes, NextTypes, InitSettled, NextSettled, PTL DEF Spec

\* So is one whose calibration was skipped, if no calibration has failed since
\* the last that ran to its end, and that one was of its chip.
THEOREM CachedReads == Spec => []CachedSlaveReads
<1>1. TInv /\ SInv => CachedSlaveReads
  <2> SUFFICES ASSUME TInv, SInv, pc = "return", ret = "slave", ~fresh, ~failed,
                      tunedOn = cs, Calibratable(cs)
               PROVE  Works(cs)
    BY DEF CachedSlaveReads
  <2>1. previousHz = hz /\ hz # 0
    BY DEF SInv, TuneInv, TInv, Turns
  <2>2. Tuned(cs, hz)
    BY <2>1 DEF SInv, TuneInv
  <2> QED BY <2>2 DEF Tuned, CalibratableAt, Calibratable, Works
<1> QED BY <1>1, InitTypes, NextTypes, InitSettled, NextSettled, PTL DEF Spec

-----------------------------------------------------------------------------
(* The flash that a probe returns.                                         *)

Named ==
    /\ chip[slave] # NoId
    /\ Listed(chip[slave]) => entry \in DOMAIN Table /\ Table[entry] = chip[slave]

FInv ==
    /\ at = "id" => previousHz = hz /\ hz # 0
    /\ at = "nor" /\ IdIsGood => id = chip[slave]
    /\ at \in {"idle", "operation"} /\ probed = "flash" /\ IdIsGood => Named

LEMMA InitFlash == Init => FInv
BY DEF Init, FInv

LEMMA FoundNames ==
    ASSUME NEW e \in Found(chip[slave]), chip[slave] # NoId,
           entry' = e, chip' = chip, slave' = slave
    PROVE  Named'
<1>1. Table \in Seq(Ids \ {NoId}) /\ DOMAIN Table = 1 .. Len(Table) /\ Len(Table) \in Nat
  BY TableAssumption
<1>2. /\ e \in 1 .. Len(Table) + 1
      /\ e = Len(Table) + 1 \/ Table[e] = chip[slave]
      /\ \A j \in 1 .. e - 1 : Table[j] # chip[slave]
  BY DEF Found, Beyond
<1>3. CASE e = Len(Table) + 1
  <2>1. \A j \in DOMAIN Table : Table[j] # chip[slave]
    BY <1>1, <1>2, <1>3
  <2> QED BY <2>1 DEF Named, Listed
<1>4. CASE e # Len(Table) + 1
  <2>1. e \in DOMAIN Table /\ Table[e] = chip[slave]
    BY <1>1, <1>2, <1>4
  <2> QED BY <2>1 DEF Named, Listed
<1> QED BY <1>3, <1>4

LEMMA NextFlash == TInv /\ SInv /\ FInv /\ [Next]_vars => FInv'
<1> SUFFICES ASSUME TInv, SInv, FInv, [Next]_vars PROVE FInv'
  OBVIOUS
<1>0. (at = "setup" <=> pc # "free") /\ (pc # "free" => hz # 0)
  BY DEF TInv, Turns
<1>1. CASE Probe
  BY <1>1 DEF Probe, FInv
<1>2. CASE SetUp
  BY <1>2 DEF SetUp, probeVars, FInv
<1>3. CASE NoSlave
  BY <1>3 DEF NoSlave, FInv
<1>4. CASE SlaveReady
  <2>1. pc = "return" /\ ret = "slave" /\ at' = "id" /\ previousHz' = previousHz
        /\ hz' = hz
    BY <1>4 DEF SlaveReady, SetupReturns, cache
  <2> QED BY <1>0, <2>1 DEF FInv, SInv, TuneInv
<1>5. CASE SendRdid
  BY <1>5 DEF SendRdid, probeVars, setupVars, cache, FInv
<1>6. CASE GetId
  <2>1. at = "id" /\ at' = "nor" /\ pc = "free" /\ selected' = slave /\ slave' = slave
        /\ UNCHANGED <<chip, failed, tunedOn, window, hz>> /\ trouble' = FALSE
        /\ id' \in (IF ReadsWell(selected') THEN {chip[selected']} ELSE Ids)
    BY <1>0, <1>6 DEF GetId, EndTransfer, Select, setupVars
  <2>2. ASSUME IdIsGood' PROVE ReadsWell(slave)'
    <3>1. ~failed /\ tunedOn = slave /\ CalibratableAt(slave, hz)
      BY <2>1, <2>2 DEF IdIsGood, Calibratable, CalibratableAt
    <3>2. Tuned(slave, hz)
      BY <2>1, <3>1 DEF FInv, SInv, TuneInv
    <3>3. baud' = baud /\ delay' = delay /\ window' = window
      BY <1>6 DEF GetId, setupVars, controller
    <3> QED BY <2>1, <3>1, <3>2, <3>3 DEF Tuned, ReadsWell
  <2>3. ReadsWell(slave)' <=> ReadsWell(selected')
    BY <1>6, <2>1 DEF GetId, setupVars, controller, ReadsWell
  <2> QED BY <2>1, <2>2, <2>3 DEF FInv
<1>7. CASE MissId
  BY <1>7 DEF MissId, FInv, IdIsGood
<1>8. CASE NoFlash
  BY <1>8 DEF NoFlash, FInv
<1>9. CASE NameFlash
  <2>1. at = "nor" /\ at' = "idle" /\ entry' \in Found(id)
        /\ UNCHANGED <<chip, slave, trouble, failed, tunedOn, window, hz>>
    BY <1>9 DEF NameFlash, setupVars, transferVars
  <2>2. IdIsGood' = IdIsGood
    BY <2>1 DEF IdIsGood, Calibratable
  <2>3. IdIsGood => Named'
    BY <1>9, <2>1, FoundNames DEF FInv, NameFlash
  <2> QED BY <2>1, <2>2, <2>3 DEF FInv
<1>10. CASE Operate \/ TransferOfOperation
  <2>1. at \in {"idle", "operation"} /\ at' \in {"idle", "operation"}
        /\ UNCHANGED <<chip, slave, trouble, failed, tunedOn, window, hz, entry, probed>>
    BY <1>10 DEF Operate, TransferOfOperation, BeginTransfer, EndTransfer, setupVars
  <2>2. IdIsGood' = IdIsGood /\ Named' = Named
    BY <2>1 DEF IdIsGood, Calibratable, Named, Listed
  <2> QED BY <2>1, <2>2 DEF FInv
<1>11. CASE UNCHANGED vars
  BY <1>11 DEF vars, probeVars, setupVars, transferVars, cache, FInv, IdIsGood,
     Calibratable, Named, Listed
<1> QED BY <1>1, <1>2, <1>3, <1>4, <1>5, <1>6, <1>7, <1>8, <1>9, <1>10, <1>11
        DEF Next

\* A good ID gives a flash only if there is a chip, and the entry of a chip of
\* the table, for any table and any chips and whatever failed before.
THEOREM RightFlash == Spec => []FlashIsTheSlaves
<1>1. FInv => FlashIsTheSlaves
  BY DEF FInv, IdIsGood, Named, FlashIsTheSlaves
<1> QED BY <1>1, InitTypes, NextTypes, InitSettled, NextSettled, InitFlash,
           NextFlash, PTL DEF Spec
=============================================================================
