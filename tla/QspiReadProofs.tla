-------------------------- MODULE QspiReadProofs --------------------------
(***************************************************************************)
(* Proofs about QspiRead for every number of polls, FIFO size and length,  *)
(* whatever the pace of the controller and however late DONE is set.       *)
(***************************************************************************)
EXTENDS QspiRead, TLAPS

\* The bytes stored so far.
Stored == rxlen - remaining

\* The driver's count of bytes and the FIFO's count of words agree: they only
\* part at the end, when the last word is not used to the full.
AgreeInv ==
    /\ pc \in {"poll", "test", "pop"} =>
         /\ rxlen > 0 /\ remaining <= rxlen
         /\ popped <= pushed /\ pushed <= Words(rxlen)
         /\ remaining > 0 => Stored = 4 * popped
    /\ pc \in {"poll", "test"} => remaining > 0
    /\ pc = "poll" /\ retry < Retry => level = 0
    /\ pc = "test" => level <= pushed - popped
    /\ pc = "pop" =>
         /\ chunk <= remaining
         /\ chunk <= 4 * (pushed - popped)
         /\ chunk = remaining \/ chunk % 4 = 0
    /\ pc = "check" \/ ret = "ok" => remaining = 0

\* What is in the caller's buffer is a prefix of the read.
DestInv ==
    /\ pc = "start" => dest = [k \in {} |-> 0] /\ rxlen \in Lengths
    /\ pc # "start" => /\ remaining <= rxlen
                       /\ dest = [k \in 0 .. Stored - 1 |-> k]

RetInv == ret = "ok" => pc \in {"return", "free"}

IInv ==
    /\ TypeOK
    /\ popped <= pushed /\ pushed - popped <= FifoWords
    /\ AgreeInv /\ DestInv /\ RetInv

-----------------------------------------------------------------------------
LEMMA WordsNat ==
    \A n \in Nat :
        Words(n) \in Nat /\ n <= 4 * Words(n) /\ 4 * Words(n) < n + 4
BY DEF Words

\* An empty buffer, however it is written.
LEMMA EmptyDest == [k \in {} |-> 0] = [k \in 0 .. 0 - 1 |-> k]
<1>1. 0 .. 0 - 1 = {}
  OBVIOUS
<1> QED BY <1>1

LEMMA InitInv == Init => IInv
<1> SUFFICES ASSUME Init PROVE IInv
  OBVIOUS
<1>1. TypeOK
  <2>1. busy \in BOOLEAN /\ done \in BOOLEAN /\ failed \in BOOLEAN
    BY DEF Init
  <2>2. DOMAIN dest \subseteq Nat
    BY DEF Init
  <2>3. 0 \in 0 .. MaxReads /\ 0 \in 0 .. WordMod - 1 /\ 0 \in 0 .. FifoWords
    BY WordModAssumption, RetryAssumption, FifoWordsAssumption,
       MaxReadsAssumption
  <2> QED BY <2>1, <2>2, <2>3 DEF Init, TypeOK
<1>2. popped <= pushed /\ pushed - popped <= FifoWords /\ AgreeInv /\ RetInv
  BY FifoWordsAssumption DEF Init, AgreeInv, RetInv
<1>3. DestInv
  BY EmptyDest DEF Init, DestInv, Stored
<1> QED BY <1>1, <1>2, <1>3 DEF IInv

\* Storing the next n bytes extends the prefix.
LEMMA PrefixGrows ==
    ASSUME NEW a \in Nat, NEW n \in Nat, NEW p, p = a,
           NEW d, d = [k \in 0 .. a - 1 |-> k]
    PROVE  [k \in DOMAIN d \union a .. a + n - 1 |->
               IF k \in a .. a + n - 1 THEN p + (k - a) ELSE d[k]]
             = [k \in 0 .. a + n - 1 |-> k]
<1>1. DOMAIN d \union a .. a + n - 1 = 0 .. a + n - 1
  OBVIOUS
<1>2. \A k \in 0 .. a + n - 1 :
         (IF k \in a .. a + n - 1 THEN p + (k - a) ELSE d[k]) = k
  OBVIOUS
<1> QED BY <1>1, <1>2

LEMMA NextInv ==
    ASSUME IInv, [Next]_vars
    PROVE  IInv'
<1> USE RetryAssumption, WordModAssumption, FifoWordsAssumption,
        LengthsAssumption, MaxReadsAssumption
        DEF IInv, TypeOK, driver, controller
<1>1. CASE Call
  BY <1>1 DEF Call, AgreeInv, DestInv, RetInv, Stored
<1>2. CASE StartRead
  <2>1. /\ remaining' = rxlen' /\ rxlen' \in Nat /\ rxlen' > 0
        /\ dest' = [k \in {} |-> 0]
    BY <1>2 DEF StartRead, DestInv
  <2>2. Stored' = 0
    <3>1. \A k \in Nat : k - k = 0
      OBVIOUS
    <3> QED BY <2>1, <3>1 DEF Stored
  <2>3. DestInv'
    BY <1>2, <2>1, <2>2, EmptyDest DEF StartRead, DestInv
  <2>4. AgreeInv'
    BY <1>2, <2>1, <2>2, WordsNat DEF StartRead, AgreeInv, RetInv
  <2>5. TypeOK'
    <3>1. /\ pc' = "poll" /\ busy' = TRUE /\ pushed' = 0 /\ popped' = 0
          /\ retry' = Retry /\ level' = 0
          /\ UNCHANGED <<reads, rxlen, chunk, dest, ret, done, failed>>
      BY <1>2 DEF StartRead
    <3>2. Retry \in 0 .. WordMod - 1 /\ 0 \in 0 .. FifoWords
      OBVIOUS
    <3> QED BY <2>1, <3>1, <3>2
  <2> QED BY <1>2, <2>3, <2>4, <2>5 DEF StartRead, RetInv
<1>3. CASE PollLevel
  BY <1>3 DEF PollLevel, AgreeInv, DestInv, RetInv, Stored
<1>4. CASE PollExhausted
  <2>1. WordMod - 1 \in 0 .. WordMod - 1
    OBVIOUS
  <2> QED BY <1>4, <2>1 DEF PollExhausted, AgreeInv, DestInv, RetInv, Stored
<1>5. CASE TestFails
  BY <1>5 DEF TestFails, AgreeInv, DestInv, RetInv, Stored
<1>6. CASE TestPasses
  <2>1. /\ pc = "test" /\ pc' = "pop" /\ chunk' = Least(level * 4, remaining)
        /\ UNCHANGED <<reads, rxlen, retry, level, remaining, dest, ret,
                       controller, failed>>
    BY <1>6 DEF TestPasses
  <2>2. /\ level \in Nat /\ remaining \in Nat /\ level <= pushed - popped
        /\ remaining > 0 /\ remaining <= rxlen
    BY <2>1 DEF AgreeInv
  <2>3. chunk' \in Nat /\ chunk' <= remaining /\ chunk' <= 4 * level
        /\ (chunk' = remaining \/ chunk' % 4 = 0)
    BY <2>1, <2>2 DEF Least
  <2>4. AgreeInv'
    BY <2>1, <2>2, <2>3 DEF AgreeInv, RetInv, Stored
  <2> QED BY <2>1, <2>3, <2>4 DEF DestInv, RetInv, Stored
<1>7. CASE PopWord
  <2> DEFINE n == Least(4, chunk)
             at == Stored
  <2>1. /\ pc = "pop" /\ chunk > 0 /\ pc' = pc
        /\ dest' = [k \in DOMAIN dest \union at .. at + n - 1 |->
                       IF k \in at .. at + n - 1 THEN 4 * popped + (k - at)
                       ELSE dest[k]]
        /\ chunk' = chunk - n /\ remaining' = remaining - n
        /\ popped' = popped + 1
        /\ UNCHANGED <<reads, rxlen, retry, level, ret, busy, pushed, done,
                       failed>>
    BY <1>7 DEF PopWord, Stored
  <2>2. /\ n \in Nat /\ n <= 4 /\ n > 0 /\ n <= chunk
        /\ n = 4 \/ n = chunk
    BY <2>1 DEF Least
  <2>3. /\ chunk <= remaining /\ chunk <= 4 * (pushed - popped)
        /\ chunk = remaining \/ chunk % 4 = 0
        /\ remaining <= rxlen /\ rxlen \in Nat /\ at = 4 * popped /\ at \in Nat
        /\ pushed <= Words(rxlen) /\ rxlen > 0
    BY <2>1 DEF AgreeInv, Stored
  <2>4. n = 4 \/ n = remaining
    BY <2>2, <2>3
  <2>5. Stored' = at + n
    BY <2>1, <2>2, <2>3 DEF Stored
  <2>6. dest' = [k \in 0 .. at + n - 1 |-> k]
    <3>1. dest = [k \in 0 .. at - 1 |-> k]
      BY <2>1 DEF DestInv
    <3> HIDE DEF n, at
    <3> QED BY <2>1, <2>2, <2>3, <3>1, PrefixGrows
  <2> HIDE DEF n
  <2>7. DestInv'
    BY <2>1, <2>2, <2>3, <2>5, <2>6 DEF DestInv
  <2>8. popped' <= pushed'
    BY <2>1, <2>2, <2>3
  <2>9. AgreeInv'
    <3>1. remaining' > 0 => Stored' = 4 * popped'
      BY <2>1, <2>2, <2>3, <2>4, <2>5
    <3>2. chunk' <= remaining' /\ (chunk' = remaining' \/ chunk' % 4 = 0)
      BY <2>1, <2>2, <2>3, <2>4
    <3>3. chunk' <= 4 * (pushed' - popped')
      BY <2>1, <2>2, <2>3
    <3>4. ret' # "ok" /\ remaining' <= rxlen'
      BY <2>1, <2>2, <2>3 DEF RetInv
    <3> QED BY <2>1, <2>3, <2>8, <3>1, <3>2, <3>3, <3>4 DEF AgreeInv, Words
  <2>10. TypeOK'
    <3>1. DOMAIN dest' \subseteq Nat
      BY <2>2, <2>3, <2>6
    <3> QED BY <2>1, <2>2, <2>3, <3>1
  <2> QED BY <2>1, <2>7, <2>8, <2>9, <2>10 DEF RetInv
<1>8. CASE ChunkDone
  BY <1>8 DEF ChunkDone, AgreeInv, DestInv, RetInv, Stored
<1>9. CASE CheckDone
  BY <1>9 DEF CheckDone, AgreeInv, DestInv, RetInv, Stored
<1>10. CASE CheckNotDone
  BY <1>10 DEF CheckNotDone, AgreeInv, DestInv, RetInv, Stored
<1>11. CASE Cancel
  <2>1. TypeOK' /\ popped' <= pushed' /\ pushed' - popped' <= FifoWords
    <3>1. /\ busy' \in BOOLEAN /\ pushed' = popped /\ popped' = popped
          /\ ret' = "error" /\ pc' = "return" /\ failed' \in BOOLEAN
          /\ UNCHANGED <<reads, rxlen, retry, level, chunk, remaining, dest,
                         done>>
      BY <1>11 DEF Cancel
    <3>2. popped <= popped /\ popped - popped <= FifoWords
      OBVIOUS
    <3> QED BY <3>1, <3>2
  <2> QED BY <1>11, <2>1 DEF Cancel, AgreeInv, DestInv, RetInv, Stored
<1>12. CASE Return
  BY <1>12 DEF Return, AgreeInv, DestInv, RetInv, Stored
<1>13. CASE Push
  <2>1. /\ pushed' = pushed + 1 /\ pushed < Words(rxlen)
        /\ pushed - popped < FifoWords
        /\ UNCHANGED <<driver, busy, popped, done, failed>>
    BY <1>13 DEF Push
  <2>2. rxlen \in Nat /\ Words(rxlen) \in Nat
    BY WordsNat
  <2>3. TypeOK' /\ popped' <= pushed' /\ pushed' - popped' <= FifoWords
    BY <2>1
  <2>4. AgreeInv'
    BY <2>1, <2>2 DEF AgreeInv, Stored
  <2> QED BY <2>1, <2>3, <2>4 DEF DestInv, RetInv, Stored
<1>14. CASE SetDone
  <2>1. /\ busy' \in BOOLEAN /\ done' \in BOOLEAN
        /\ UNCHANGED <<driver, pushed, popped, failed>>
    BY <1>14 DEF SetDone
  <2> QED BY <2>1 DEF AgreeInv, DestInv, RetInv, Stored
<1>15. CASE UNCHANGED vars
  BY <1>15 DEF vars, AgreeInv, DestInv, RetInv, Stored
<1> QED
  BY <1>1, <1>2, <1>3, <1>4, <1>5, <1>6, <1>7, <1>8, <1>9, <1>10, <1>11,
     <1>12, <1>13, <1>14, <1>15 DEF Next, Driver, Controller

-----------------------------------------------------------------------------
(* The controller between two reads.                                       *)

Reading == {"poll", "test", "pop", "check"}

\* DONE is only set when the whole read is in the FIFO, and what has been
\* stored by then has been popped, so nothing is left when DONE is cleared.
RestInv ==
    /\ pc \in {"free", "start", "return"} => ~busy /\ ~done /\ pushed = popped
    /\ pc \in Reading =>
         /\ Stored <= 4 * popped
         /\ done => ~busy /\ pushed = Words(rxlen)

LEMMA NextRest ==
    ASSUME IInv, RestInv, [Next]_vars, ~failed'
    PROVE  RestInv'
<1> USE LengthsAssumption DEF RestInv, Reading, driver, controller, Stored
<1>1. CASE Call
  BY <1>1 DEF Call
<1>2. CASE StartRead
  <2>1. rxlen \in Nat /\ remaining' = rxlen' /\ rxlen' = rxlen
    BY <1>2 DEF StartRead, IInv, TypeOK
  <2>2. pc' = "poll" /\ popped' = 0 /\ done' = done /\ ~done
    BY <1>2 DEF StartRead
  <2> QED BY <2>1, <2>2
<1>3. CASE PollLevel
  BY <1>3 DEF PollLevel
<1>4. CASE PollExhausted
  BY <1>4 DEF PollExhausted
<1>5. CASE TestFails
  BY <1>5 DEF TestFails
<1>6. CASE TestPasses
  BY <1>6 DEF TestPasses
<1>7. CASE PopWord
  <2>1. /\ pc = "pop" /\ pc' = pc /\ popped' = popped + 1
        /\ UNCHANGED <<rxlen, busy, pushed, done>>
    BY <1>7 DEF PopWord
  <2>2. \E n \in Nat : n <= 4 /\ remaining' = remaining - n
    BY <1>7 DEF PopWord, Least, IInv, TypeOK
  <2>3. rxlen \in Nat /\ remaining \in Nat /\ popped \in Nat
    BY DEF IInv, TypeOK
  <2>4. Stored' <= 4 * popped'
    BY <2>1, <2>2, <2>3
  <2> QED BY <2>1, <2>4
<1>8. CASE ChunkDone
  BY <1>8 DEF ChunkDone
<1>9. CASE CheckDone
  <2>1. /\ pushed = Words(rxlen) /\ ~busy /\ Stored <= 4 * popped
        /\ remaining = 0 /\ popped <= pushed
    BY <1>9 DEF CheckDone, IInv, AgreeInv
  <2>2. rxlen \in Nat /\ pushed \in Nat /\ popped \in Nat
    BY DEF IInv, TypeOK
  <2>3. pushed = popped
    BY <2>1, <2>2 DEF Words
  <2> QED BY <1>9, <2>1, <2>3 DEF CheckDone
<1>10. CASE CheckNotDone
  BY <1>10 DEF CheckNotDone
<1>11. CASE Cancel
  BY <1>11 DEF Cancel
<1>12. CASE Return
  BY <1>12 DEF Return
<1>13. CASE Push
  BY <1>13 DEF Push
<1>14. CASE SetDone
  BY <1>14 DEF SetDone
<1>15. CASE UNCHANGED vars
  BY <1>15 DEF vars
<1> QED
  BY <1>1, <1>2, <1>3, <1>4, <1>5, <1>6, <1>7, <1>8, <1>9, <1>10, <1>11,
     <1>12, <1>13, <1>14, <1>15 DEF Next, Driver, Controller

\* A failure is remembered.
LEMMA FailedStays ==
    ASSUME [Next]_vars, ~failed'
    PROVE  ~failed
BY Zenon DEF Next, Driver, Controller, Call, StartRead, PollLevel,
    PollExhausted, TestFails, TestPasses, PopWord, ChunkDone, CheckDone,
    CheckNotDone, Cancel, Return, Push, SetDone, vars

-----------------------------------------------------------------------------
\* The agreement of bytes stored, words popped and words pushed.
THEOREM Inductive == Spec => []IInv
<1>1. Init => IInv
  BY InitInv
<1>2. IInv /\ [Next]_vars => IInv'
  BY NextInv
<1> QED BY <1>1, <1>2, PTL DEF Spec

\* Every variable keeps its type: remaining never goes below 0, although the
\* FIFO is read in whole words.
THEOREM TypeCorrect == Spec => []TypeOK
<1>1. IInv => TypeOK
  BY DEF IInv
<1> QED BY <1>1, Inductive, PTL

\* A read that returns 0 has delivered every byte in its place, for any
\* length, FIFO and number of polls, and any pace of the controller.
THEOREM DeliversAll == Spec => []Delivered
<1>1. ASSUME IInv PROVE Delivered
  <2> SUFFICES ASSUME ret = "ok" PROVE dest = [k \in 0 .. rxlen - 1 |-> k]
    BY DEF Delivered
  <2>1. remaining = 0 /\ dest = [k \in 0 .. Stored - 1 |-> k] /\ rxlen \in Nat
    BY <1>1, LengthsAssumption DEF IInv, TypeOK, AgreeInv, DestInv, RetInv
  <2>2. Stored = rxlen
    BY <2>1 DEF Stored
  <2> QED BY <2>1, <2>2
<1> QED BY <1>1, Inductive, PTL

\* Whatever a read returns, it has stored a prefix of the data and nothing
\* outside the caller's buffer.
THEOREM StaysInBuffer == Spec => []InOrder
<1>1. ASSUME IInv PROVE InOrder
  <2>1. CASE pc = "start"
    BY <1>1, <2>1 DEF IInv, DestInv, InOrder
  <2>2. CASE pc # "start"
    <3>1. /\ dest = [k \in 0 .. Stored - 1 |-> k]
          /\ rxlen \in Nat /\ remaining \in Nat
      BY <1>1, <2>2, LengthsAssumption DEF IInv, TypeOK, DestInv
    <3> QED BY <3>1 DEF InOrder, Stored
  <2> QED BY <2>1, <2>2
<1> QED BY <1>1, Inductive, PTL

\* read_fifo_data never takes a word the FIFO does not have.
THEOREM NeverUnderflows == Spec => []NoUnderflow
<1>1. IInv => NoUnderflow
  BY DEF IInv, TypeOK, AgreeInv, NoUnderflow
<1> QED BY <1>1, Inductive, PTL

\* Until a read fails the controller is at rest, and no DONE is left over,
\* whenever a read begins.
THEOREM RestsBetweenReads == Spec => []IdleAtStart
<1> DEFINE RInv == IInv /\ (~failed => RestInv)
<1>1. Init => RInv
  BY InitInv DEF Init, RestInv, Reading
<1>2. RInv /\ [Next]_vars => RInv'
  BY NextInv, NextRest, FailedStays
<1>3. RInv => IdleAtStart
  BY DEF RestInv, IdleAtStart
<1> QED BY <1>1, <1>2, <1>3, PTL DEF Spec
=============================================================================
