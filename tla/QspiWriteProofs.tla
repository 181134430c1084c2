-------------------------- MODULE QspiWriteProofs --------------------------
(***************************************************************************)
(* Proofs about QspiWrite, for every length, page, FIFO and retry count.   *)
(***************************************************************************)
EXTENDS QspiWrite, Integers, TLAPS

\* The polls that n words may take before the controller counts as late.
Polls(n) == n * Latency

\* Every byte is pushed, about to be, or not handed out yet, and only the last
\* word is a short one.
Handed ==
    /\ src + chunk + remaining = txlen
    /\ chunk > 0 => pc = "push"
    /\ chunk + remaining > 0 => src % 4 = 0
    /\ remaining > 0 => chunk % 4 = 0

\* No more words are in the FIFO than were pushed; if none was lost, they are
\* those of the buffer.
InFifo ==
    /\ fifo \in [0 .. pushed - 1 -> Nat]
    /\ Fill <= FifoWords
    /\ pc # "start" =>
         /\ pushed <= Words(src)
         /\ pushed = Words(src) => \A w \in 0 .. pushed - 1 : fifo[w] = 4 * w

\* Only a failed write leaves the controller at work or a DONE behind.
Settled ==
    ~failed =>
    /\ pc \in {"free", "start", "return"} => ~busy /\ ~done
    /\ done => ~busy /\ sent = Words(txlen)
    /\ pc = "return" => sent = Words(txlen)

\* While the controller is not late, the retries left outlast it.
InTime ==
    ~late =>
    /\ pc = "poll" => retry >= 2
    /\ pc = "poll" /\ Fill > Threshold =>
         retry >= 2 + left + Polls(Fill - Threshold - 1)
    /\ pc = "test" => Fill <= Threshold /\ retry # 0
    /\ pc = "push" => Fill + Words(chunk) <= FifoWords
    /\ pc = "empty" => retry >= 1
    /\ pc = "empty" /\ Fill > 0 => retry >= 1 + left + Polls(Fill - 1)
    /\ pc = "done" => Fill = 0 /\ retry >= 1 + left
    /\ pc # "cancel" /\ ret # "error"

IInv == TypeOK /\ Handed /\ InFifo /\ Settled /\ InTime

-----------------------------------------------------------------------------
(* Arithmetic.                                                             *)

LEMMA PollsAdd ==
    ASSUME NEW n \in Nat
    PROVE  Polls(n) \in Nat /\ Polls(n + 1) = Polls(n) + Latency
BY LatencyAssumption DEF Polls

LEMMA PollsGrow ==
    ASSUME NEW n \in Nat, NEW k \in Nat, n <= k
    PROVE  Polls(n) <= Polls(k)
<1>1. (k - n) * Latency \in Nat /\ k * Latency = n * Latency + (k - n) * Latency
  BY LatencyAssumption
<1> QED BY <1>1, LatencyAssumption DEF Polls

LEMMA RetryOutlasts ==
    ASSUME NEW n \in Nat, n < FifoWords
    PROVE  Retry >= 2 + Latency + Polls(n)
<1>1. FifoWords \in Nat /\ n + 1 <= FifoWords
  BY FifoAssumption
<1>2. Polls(n + 1) <= Polls(FifoWords) /\ Polls(n + 1) = Polls(n) + Latency
  BY <1>1, PollsAdd, PollsGrow
<1>3. Retry \in Nat /\ Retry > Polls(FifoWords) + 1 /\ Polls(FifoWords) \in Nat
  BY <1>1, PaceAssumption, RetryAssumption, PollsAdd DEF Polls
<1> QED BY <1>1, <1>2, <1>3, PollsAdd, LatencyAssumption

LEMMA PageFits ==
    /\ PageSize \in Nat /\ PageSize > 0 /\ PageSize % 4 = 0
    /\ Threshold \in Nat /\ FifoWords \in Nat /\ FifoWords > 0
    /\ \A n \in 0 .. PageSize : Threshold + Words(n) <= FifoWords
BY PageSizeAssumption, FifoAssumption DEF Words

\* A word takes four bytes, or those that are left.
LEMMA WordsOfChunk ==
    ASSUME NEW n \in Nat, n > 0
    PROVE  /\ Words(n) \in Nat /\ Words(n) = Words(n - Least(4, n)) + 1
           /\ Least(4, n) \in 1 .. n /\ n - Least(4, n) \in Nat
BY DEF Words, Least

LEMMA WordsGrow ==
    ASSUME NEW n \in Nat, NEW k \in Nat, n <= k
    PROVE  Words(n) \in Nat /\ Words(n) <= Words(k)
BY DEF Words

LEMMA WordsPushed ==
    ASSUME NEW n \in Nat, n % 4 = 0, NEW k \in 1 .. 4
    PROVE  Words(n + k) = Words(n) + 1 /\ 4 * Words(n) = n
BY DEF Words

-----------------------------------------------------------------------------
(* The invariant.                                                          *)

LEMMA InitInv == Init => IInv
<1> SUFFICES ASSUME Init PROVE IInv
  OBVIOUS
<1> USE DEF Init, Fill
<1>1. TypeOK
  <2>1. 0 .. pushed - 1 = {} /\ DOMAIN fifo = {}
    OBVIOUS
  <2>2. 0 \in 0 .. WordMod - 1 /\ 0 \in 0 .. Latency /\ 0 \in 0 .. MaxWrites
        /\ 0 \in 0 .. PageSize
    BY WordModAssumption, RetryAssumption, LatencyAssumption,
       MaxWritesAssumption, PageSizeAssumption
  <2>3. DOMAIN fifo = 0 .. pushed - 1 /\ sent \in 0 .. pushed
    BY <2>1
  <2>4. 0 \in Nat /\ remaining \in 0 .. txlen /\ src \in 0 .. txlen
    OBVIOUS
  <2> QED BY <2>2, <2>3, <2>4 DEF TypeOK
<1>2. Handed
  BY DEF Handed
<1>3. InFifo
  BY PageFits DEF InFifo, Words
<1>4. Settled /\ InTime
  BY DEF Settled, InTime
<1> QED BY <1>1, <1>2, <1>3, <1>4 DEF IInv

LEMMA NextInv == IInv /\ [Next]_vars => IInv'
<1> SUFFICES ASSUME IInv, [Next]_vars PROVE IInv'
  OBVIOUS
<1>0. /\ TypeOK /\ Handed /\ InFifo /\ Settled /\ InTime
      /\ Retry \in Nat /\ Retry > 0 /\ WordMod \in Nat /\ Retry < WordMod
      /\ Latency \in Nat /\ MaxWrites \in Nat /\ Lengths \subseteq Nat \ {0}
      /\ txlen \in Nat /\ src \in Nat /\ chunk \in Nat /\ remaining \in Nat
  BY RetryAssumption, WordModAssumption, LatencyAssumption, LengthsAssumption,
     MaxWritesAssumption, PageSizeAssumption DEF IInv, TypeOK
<1> USE DEF controller, history, driver
<1>1. CASE Call
  <2>1. TypeOK'
    BY <1>0, <1>1, PageFits DEF Call, TypeOK, Fill
  <2>2. Handed'
    <3>1. txlen' \in Nat /\ src' = 0 /\ chunk' = 0 /\ remaining' = txlen'
      BY <1>0, <1>1 DEF Call
    <3>2. src' + chunk' + remaining' = txlen'
      <4>1. \A n \in Nat : 0 + 0 + n = n
        OBVIOUS
      <4>2. src' + chunk' + remaining' = 0 + 0 + txlen'
        BY <3>1, Zenon
      <4> QED BY <3>1, <4>1, <4>2
    <3>3. \A n \in Nat : n = 0 => n % 4 = 0
      OBVIOUS
    <3>4. src' % 4 = 0 /\ chunk' % 4 = 0
      BY <3>1, <3>3
    <3>5. ~(chunk' > 0)
      BY <3>1
    <3> QED BY <3>2, <3>4, <3>5, Zenon DEF Handed
  <2>3. InFifo'
    BY <1>0, <1>1, PageFits DEF Call, InFifo, TypeOK, Fill
  <2>4. Settled'
    BY <1>0, <1>1, PageFits DEF Call, Settled, TypeOK
  <2>5. InTime'
    BY <1>0, <1>1, PageFits DEF Call, InTime, InFifo, TypeOK, Fill
  <2> QED BY <2>1, <2>2, <2>3, <2>4, <2>5 DEF IInv
<1>2. CASE StartWrite
  <2>1. TypeOK'
    BY <1>0, <1>2, PageFits DEF StartWrite, TypeOK, Fill
  <2>2. Handed'
    BY <1>0, <1>2, PageFits DEF StartWrite, Handed, TypeOK
  <2>3. InFifo'
    <3>1. pushed' = 0 /\ Fill' = 0 /\ Words(src') \in Nat
      BY <1>0, <1>2 DEF StartWrite, Fill, Words
    <3>2. 0 .. 0 - 1 = {} /\ fifo' \in [{} -> Nat]
      BY <1>2 DEF StartWrite
    <3> QED BY <3>1, <3>2, PageFits DEF InFifo
  <2>4. Settled'
    BY <1>0, <1>2, PageFits DEF StartWrite, Settled, TypeOK
  <2>5. InTime'
    BY <1>0, <1>2, PageFits DEF StartWrite, InTime, InFifo, TypeOK, Fill
  <2> QED BY <2>1, <2>2, <2>3, <2>4, <2>5 DEF IInv
<1>3. CASE More
  <2>1. TypeOK'
    BY <1>0, <1>3, PageFits DEF More, TypeOK, Fill
  <2>2. Handed'
    BY <1>0, <1>3, PageFits DEF More, Handed, TypeOK
  <2>3. InFifo'
    BY <1>0, <1>3, PageFits DEF More, InFifo, TypeOK, Fill
  <2>4. Settled'
    BY <1>0, <1>3, PageFits DEF More, Settled, TypeOK
  <2>5. InTime'
    <3>1. Fill \in Nat /\ Fill <= FifoWords /\ Fill' = Fill
          /\ left \in 0 .. Latency /\ left' = left /\ retry' = Retry /\ late' = late
      BY <1>0, <1>3 DEF More, InFifo, TypeOK, Fill
    <3>2. Retry >= 2
      BY <1>0, RetryOutlasts, PollsAdd, PageFits
    <3>3. Fill > Threshold => Retry >= 2 + left + Polls(Fill - Threshold - 1)
      <4> SUFFICES ASSUME Fill > Threshold
                   PROVE  Retry >= 2 + left + Polls(Fill - Threshold - 1)
        OBVIOUS
      <4>1. Fill - Threshold - 1 \in Nat /\ Fill - Threshold - 1 < FifoWords
        BY <3>1, PageFits
      <4> QED BY <1>0, <3>1, <4>1, RetryOutlasts, PollsAdd
    <3>4. Fill > 0 => Retry >= 1 + left + Polls(Fill - 1)
      <4> SUFFICES ASSUME Fill > 0 PROVE Retry >= 1 + left + Polls(Fill - 1)
        OBVIOUS
      <4>1. Fill - 1 \in Nat /\ Fill - 1 < FifoWords
        BY <3>1, PageFits
      <4> QED BY <1>0, <3>1, <4>1, RetryOutlasts, PollsAdd
    <3>5. ret' = ret /\ pc' \in {"poll", "empty"}
      BY <1>3 DEF More
    <3> QED BY <1>0, <3>1, <3>2, <3>3, <3>4, <3>5 DEF InTime
  <2> QED BY <2>1, <2>2, <2>3, <2>4, <2>5 DEF IInv
<1>4. CASE PollFull
  <2>1. TypeOK'
    BY <1>0, <1>4, PageFits DEF PollFull, Waits, TypeOK, Fill
  <2>2. Handed'
    BY <1>0, <1>4, PageFits DEF PollFull, Waits, Handed, TypeOK
  <2>3. InFifo'
    BY <1>0, <1>4, PageFits DEF PollFull, Waits, InFifo, TypeOK, Fill
  <2>4. Settled'
    BY <1>0, <1>4, PageFits DEF PollFull, Waits, Settled, TypeOK
  <2>5. InTime'
    <3>1. /\ pc = "poll" /\ pc' = "poll" /\ Fill > Threshold /\ Fill' = Fill
          /\ retry' = retry - 1 /\ left \in Nat /\ Fill \in Nat /\ retry \in Nat
          /\ ret' = ret
      BY <1>0, <1>4 DEF PollFull, Waits, TypeOK, Fill
    <3>3. ~late' => ~late /\ left > 0 /\ left' = left - 1
      <4>1. ~late' => ~late /\ left # 0
        BY <1>4, Zenon DEF PollFull, Waits
      <4>2. left # 0 => left > 0 /\ left' = left - 1
        BY <1>4, <3>1 DEF PollFull, Waits
      <4> QED BY <4>1, <4>2
    <3>2. Polls(Fill - Threshold - 1) \in Nat
      BY <3>1, PageFits, PollsAdd
    <3> QED BY <1>0, <3>1, <3>2, <3>3 DEF InTime
  <2> QED BY <2>1, <2>2, <2>3, <2>4, <2>5 DEF IInv
<1>5. CASE PollReady
  <2>1. TypeOK'
    BY <1>0, <1>5, PageFits DEF PollReady, TypeOK, Fill
  <2>2. Handed'
    BY <1>0, <1>5, PageFits DEF PollReady, Handed, TypeOK
  <2>3. InFifo'
    BY <1>0, <1>5, PageFits DEF PollReady, InFifo, TypeOK, Fill
  <2>4. Settled'
    BY <1>0, <1>5, PageFits DEF PollReady, Settled, TypeOK
  <2>5. InTime'
    BY <1>0, <1>5, PageFits DEF PollReady, InTime, InFifo, TypeOK, Fill
  <2> QED BY <2>1, <2>2, <2>3, <2>4, <2>5 DEF IInv
<1>6. CASE PollExhausted
  <2>1. TypeOK'
    BY <1>0, <1>6, PageFits DEF PollExhausted, TypeOK, Fill
  <2>2. Handed'
    BY <1>0, <1>6, PageFits DEF PollExhausted, Handed, TypeOK
  <2>3. InFifo'
    BY <1>0, <1>6, PageFits DEF PollExhausted, InFifo, TypeOK, Fill
  <2>4. Settled'
    BY <1>0, <1>6, PageFits DEF PollExhausted, Settled, TypeOK
  <2>5. InTime'
    BY <1>0, <1>6, PageFits DEF PollExhausted, InTime, InFifo, TypeOK, Fill
  <2> QED BY <2>1, <2>2, <2>3, <2>4, <2>5 DEF IInv
<1>7. CASE TestFails
  <2>1. TypeOK'
    BY <1>0, <1>7, PageFits DEF TestFails, TypeOK, Fill
  <2>2. Handed'
    BY <1>0, <1>7, PageFits DEF TestFails, Handed, TypeOK
  <2>3. InFifo'
    BY <1>0, <1>7, PageFits DEF TestFails, InFifo, TypeOK, Fill
  <2>4. Settled'
    BY <1>0, <1>7, PageFits DEF TestFails, Settled, TypeOK
  <2>5. InTime'
    BY <1>0, <1>7, PageFits DEF TestFails, InTime, InFifo, TypeOK, Fill
  <2> QED BY <2>1, <2>2, <2>3, <2>4, <2>5 DEF IInv
<1>8. CASE TestPasses
  <2>1. TypeOK'
    <3>1. Least(remaining, PageSize) \in 0 .. PageSize
          /\ remaining - Least(remaining, PageSize) \in 0 .. txlen
      BY <1>0, PageFits DEF Least, TypeOK
    <3> QED BY <1>0, <1>8, <3>1 DEF TestPasses, TypeOK
  <2>2. Handed'
    <3> DEFINE n == Least(remaining, PageSize)
    <3>1. n \in Nat /\ n <= remaining /\ (remaining - n > 0 => n % 4 = 0)
          /\ (n > 0 => remaining > 0)
      BY <1>0, PageFits DEF Least
    <3>2. chunk = 0 /\ chunk' = n /\ remaining' = remaining - n /\ pc' = "push"
          /\ src' = src /\ txlen' = txlen
      BY <1>0, <1>8 DEF TestPasses, Handed
    <3> HIDE DEF n
    <3> QED BY <1>0, <3>1, <3>2 DEF Handed
  <2>3. InFifo'
    BY <1>0, <1>8, PageFits DEF TestPasses, InFifo, TypeOK, Fill
  <2>4. Settled'
    BY <1>0, <1>8, PageFits DEF TestPasses, Settled, TypeOK
  <2>5. InTime'
    <3>1. chunk' \in 0 .. PageSize /\ pc = "test" /\ pc' = "push" /\ ret' = ret
          /\ late' = late /\ Fill' = Fill /\ Fill \in Nat
      BY <1>0, <1>8, <2>1 DEF TestPasses, TypeOK, Fill
    <3>2. Threshold + Words(chunk') <= FifoWords /\ Words(chunk') \in Nat
      BY <3>1, PageFits, WordsGrow
    <3> QED BY <1>0, <3>1, <3>2, PageFits DEF InTime
  <2> QED BY <2>1, <2>2, <2>3, <2>4, <2>5 DEF IInv
<1>9. CASE PushWord
  <2> DEFINE k == Least(4, chunk)
  <2>0. /\ k \in 1 .. chunk /\ k \in 1 .. 4 /\ chunk - k \in Nat
        /\ Words(chunk) \in Nat /\ Words(chunk) = Words(chunk - k) + 1
        /\ chunk' = chunk - k /\ src' = src + k /\ pc = "push" /\ pc' = pc
        /\ remaining' = remaining /\ txlen' = txlen /\ chunk > 0 /\ sent' = sent
        /\ src % 4 = 0 /\ pushed \in Nat /\ sent \in 0 .. pushed
        /\ (chunk - k > 0 => k = 4)
    BY <1>0, <1>9, WordsOfChunk DEF PushWord, TypeOK, Handed, Least
  <2>6. \/ /\ Fill < FifoWords /\ pushed' = pushed + 1
           /\ fifo' = [w \in 0 .. pushed |-> IF w = pushed THEN src ELSE fifo[w]]
        \/ Fill >= FifoWords /\ fifo' = fifo /\ pushed' = pushed
    BY <1>9 DEF PushWord, Store
  <2> HIDE DEF k
  <2>1. TypeOK'
    <3>1. chunk' \in 0 .. PageSize /\ src' \in 0 .. txlen
      <4>1. chunk \in 0 .. PageSize /\ src + chunk + remaining = txlen
        BY <1>0 DEF TypeOK, Handed
      <4> QED BY <1>0, <2>0, <4>1, PageFits
    <3>2. pushed' \in Nat /\ sent' \in 0 .. pushed' /\ DOMAIN fifo' = 0 .. pushed' - 1
      BY <1>0, <2>0, <2>6 DEF TypeOK
    <3> QED BY <1>0, <1>9, <3>1, <3>2 DEF PushWord, TypeOK
  <2>2. Handed'
    <3>1. src' + chunk' + remaining' = txlen'
      BY <1>0, <2>0 DEF Handed
    <3>2. ASSUME chunk' + remaining' > 0 PROVE src' % 4 = 0 /\ k = 4
      <4>1. k = 4
        <5>1. CASE chunk - k > 0
          BY <2>0, <5>1
        <5>2. CASE chunk - k = 0
          <6>1. remaining > 0 /\ chunk % 4 = 0 /\ chunk = k
            BY <1>0, <2>0, <3>2, <5>2 DEF Handed
          <6> QED BY <2>0, <6>1
        <5> QED BY <2>0, <5>1, <5>2
      <4> QED BY <1>0, <2>0, <4>1
    <3>3. remaining' > 0 => chunk' % 4 = 0
      <4> SUFFICES ASSUME remaining' > 0 PROVE chunk' % 4 = 0
        OBVIOUS
      <4>1. chunk % 4 = 0 /\ k = 4
        BY <1>0, <2>0, <3>2 DEF Handed
      <4> QED BY <1>0, <2>0, <4>1
    <3> QED BY <2>0, <3>1, <3>2, <3>3 DEF Handed
  <2>3. InFifo'
    <3>1. Words(src') = Words(src) + 1 /\ 4 * Words(src) = src /\ Words(src) \in Nat
      <4>1. src \in Nat /\ src % 4 = 0 /\ k \in 1 .. 4 /\ src' = src + k
        BY <1>0, <2>0
      <4>2. Words(src + k) = Words(src) + 1 /\ 4 * Words(src) = src
        BY <4>1, WordsPushed
      <4>3. Words(src) \in Nat
        BY <4>1, WordsGrow
      <4> QED BY <4>1, <4>2, <4>3
    <3>2. fifo \in [0 .. pushed - 1 -> Nat] /\ Fill <= FifoWords /\ pushed <= Words(src)
          /\ (pushed = Words(src) => \A w \in 0 .. pushed - 1 : fifo[w] = 4 * w)
      BY <1>0, <2>0 DEF InFifo
    <3>3. CASE pushed' = pushed + 1
      <4>1. fifo' = [w \in 0 .. pushed |-> IF w = pushed THEN src ELSE fifo[w]]
            /\ Fill < FifoWords
        BY <2>0, <2>6, <3>3
      <4>2. fifo' \in [0 .. pushed' - 1 -> Nat]
        BY <1>0, <2>0, <3>2, <3>3, <4>1
      <4>3. Fill' <= FifoWords
        BY <2>0, <3>3, <4>1, PageFits DEF Fill
      <4>4. ASSUME pushed' = Words(src'), NEW w \in 0 .. pushed' - 1
            PROVE  fifo'[w] = 4 * w
        <5>1. pushed = Words(src) /\ w \in 0 .. pushed
          BY <2>0, <3>1, <3>3, <4>4
        <5>2. CASE w = pushed
          BY <3>1, <4>1, <5>1, <5>2
        <5>3. CASE w # pushed
          <6>1. w \in 0 .. pushed - 1
            BY <2>0, <5>1, <5>3
          <6> QED BY <3>2, <4>1, <5>1, <5>3, <6>1
        <5> QED BY <5>2, <5>3
      <4>5. pushed' <= Words(src')
        BY <2>0, <3>1, <3>2, <3>3
      <4> QED BY <4>2, <4>3, <4>4, <4>5 DEF InFifo
    <3>4. CASE fifo' = fifo /\ pushed' = pushed
      BY <2>0, <3>1, <3>2, <3>4 DEF InFifo, Fill
    <3> QED BY <2>6, <3>3, <3>4
  <2>4. Settled'
    BY <1>0, <1>9, PageFits DEF PushWord, Settled, TypeOK
  <2>5. InTime'
    <3>1. late' = late /\ ret' = ret
      BY <1>9 DEF PushWord
    <3>2. Fill \in Int /\ Fill' \in Int /\ Fill' <= Fill + 1
      BY <2>0, <2>6 DEF Fill
    <3>3. Words(chunk') = Words(chunk) - 1 /\ Words(chunk') \in Int
      <4>1. Words(chunk') = Words(chunk - k) /\ Words(chunk - k) \in Nat
        BY <2>0, WordsGrow
      <4> QED BY <2>0, <4>1
    <3> QED BY <1>0, <2>0, <3>1, <3>2, <3>3, PageFits DEF InTime
  <2> QED BY <2>1, <2>2, <2>3, <2>4, <2>5 DEF IInv
<1>10. CASE ChunkDone
  <2>1. TypeOK'
    BY <1>0, <1>10, PageFits DEF ChunkDone, TypeOK, Fill
  <2>2. Handed'
    BY <1>0, <1>10, PageFits DEF ChunkDone, Handed, TypeOK
  <2>3. InFifo'
    BY <1>0, <1>10, PageFits DEF ChunkDone, InFifo, TypeOK, Fill
  <2>4. Settled'
    BY <1>0, <1>10, PageFits DEF ChunkDone, Settled, TypeOK
  <2>5. InTime'
    BY <1>0, <1>10, PageFits DEF ChunkDone, InTime, InFifo, TypeOK, Fill
  <2> QED BY <2>1, <2>2, <2>3, <2>4, <2>5 DEF IInv
<1>11. CASE EmptyWaits
  <2>1. TypeOK'
    BY <1>0, <1>11, PageFits DEF EmptyWaits, Waits, TypeOK, Fill
  <2>2. Handed'
    BY <1>0, <1>11, PageFits DEF EmptyWaits, Waits, Handed, TypeOK
  <2>3. InFifo'
    BY <1>0, <1>11, PageFits DEF EmptyWaits, Waits, InFifo, TypeOK, Fill
  <2>4. Settled'
    BY <1>0, <1>11, PageFits DEF EmptyWaits, Waits, Settled, TypeOK
  <2>5. InTime'
    <3>1. /\ pc = "empty" /\ pc' = "empty" /\ Fill > 0 /\ Fill' = Fill
          /\ retry' = retry - 1 /\ left \in Nat /\ Fill \in Nat /\ retry \in Nat
          /\ ret' = ret
      BY <1>0, <1>11 DEF EmptyWaits, Waits, TypeOK, Fill
    <3>3. ~late' => ~late /\ left > 0 /\ left' = left - 1
      <4>1. ~late' => ~late /\ left # 0
        BY <1>11, Zenon DEF EmptyWaits, Waits
      <4>2. left # 0 => left > 0 /\ left' = left - 1
        BY <1>11, <3>1 DEF EmptyWaits, Waits
      <4> QED BY <4>1, <4>2
    <3>2. Polls(Fill - 1) \in Nat
      BY <3>1, PollsAdd
    <3> QED BY <1>0, <3>1, <3>2, <3>3 DEF InTime
  <2> QED BY <2>1, <2>2, <2>3, <2>4, <2>5 DEF IInv
<1>12. CASE Emptied
  <2>1. TypeOK'
    BY <1>0, <1>12, PageFits DEF Emptied, TypeOK, Fill
  <2>2. Handed'
    BY <1>0, <1>12, PageFits DEF Emptied, Handed, TypeOK
  <2>3. InFifo'
    BY <1>0, <1>12, PageFits DEF Emptied, InFifo, TypeOK, Fill
  <2>4. Settled'
    BY <1>0, <1>12, PageFits DEF Emptied, Settled, TypeOK
  <2>5. InTime'
    <3>1. pc' = "done" /\ Fill' = 0 /\ retry' = Retry /\ left' = left
          /\ left \in 0 .. Latency /\ late' = late /\ ret' = ret
      BY <1>0, <1>12 DEF Emptied, TypeOK, Fill
    <3>2. Retry >= 2 + Latency
      BY <1>0, RetryOutlasts, PollsAdd, PageFits
    <3> QED BY <1>0, <3>1, <3>2 DEF InTime
  <2> QED BY <2>1, <2>2, <2>3, <2>4, <2>5 DEF IInv
<1>13. CASE EmptyFails
  <2>1. TypeOK'
    BY <1>0, <1>13, PageFits DEF EmptyFails, TypeOK, Fill
  <2>2. Handed'
    BY <1>0, <1>13, PageFits DEF EmptyFails, Handed, TypeOK
  <2>3. InFifo'
    BY <1>0, <1>13, PageFits DEF EmptyFails, InFifo, TypeOK, Fill
  <2>4. Settled'
    BY <1>0, <1>13, PageFits DEF EmptyFails, Settled, TypeOK
  <2>5. InTime'
    BY <1>0, <1>13, PageFits DEF EmptyFails, InTime, InFifo, TypeOK, Fill
  <2> QED BY <2>1, <2>2, <2>3, <2>4, <2>5 DEF IInv
<1>14. CASE DoneWaits
  <2>1. TypeOK'
    BY <1>0, <1>14, PageFits DEF DoneWaits, Waits, TypeOK, Fill
  <2>2. Handed'
    BY <1>0, <1>14, PageFits DEF DoneWaits, Waits, Handed, TypeOK
  <2>3. InFifo'
    BY <1>0, <1>14, PageFits DEF DoneWaits, Waits, InFifo, TypeOK, Fill
  <2>4. Settled'
    BY <1>0, <1>14, PageFits DEF DoneWaits, Waits, Settled, TypeOK
  <2>5. InTime'
    <3>1. /\ pc = "done" /\ pc' = "done" /\ Fill' = Fill
          /\ retry' = retry - 1 /\ left \in Nat /\ retry \in Nat
          /\ ret' = ret
      BY <1>0, <1>14 DEF DoneWaits, Waits, TypeOK, Fill
    <3>3. ~late' => ~late /\ left > 0 /\ left' = left - 1
      <4>1. ~late' => ~late /\ left # 0
        BY <1>14, Zenon DEF DoneWaits, Waits
      <4>2. left # 0 => left > 0 /\ left' = left - 1
        BY <1>14, <3>1 DEF DoneWaits, Waits
      <4> QED BY <4>1, <4>2
    <3> QED BY <1>0, <3>1, <3>3 DEF InTime
  <2> QED BY <2>1, <2>2, <2>3, <2>4, <2>5 DEF IInv
<1>15. CASE Finished
  <2>1. TypeOK'
    <3>1. retry - 1 \in 0 .. WordMod - 1
      BY <1>0, <1>15 DEF Finished, TypeOK
    <3> QED BY <1>0, <1>15, <3>1 DEF Finished, TypeOK
  <2>2. Handed'
    BY <1>0, <1>15, PageFits DEF Finished, Handed, TypeOK
  <2>3. InFifo'
    BY <1>0, <1>15, PageFits DEF Finished, InFifo, TypeOK, Fill
  <2>4. Settled'
    BY <1>0, <1>15, PageFits DEF Finished, Settled, TypeOK
  <2>5. InTime'
    BY <1>0, <1>15, PageFits DEF Finished, InTime, InFifo, TypeOK, Fill
  <2> QED BY <2>1, <2>2, <2>3, <2>4, <2>5 DEF IInv
<1>16. CASE DoneFails
  <2>1. TypeOK'
    BY <1>0, <1>16, PageFits DEF DoneFails, TypeOK, Fill
  <2>2. Handed'
    BY <1>0, <1>16, PageFits DEF DoneFails, Handed, TypeOK
  <2>3. InFifo'
    BY <1>0, <1>16, PageFits DEF DoneFails, InFifo, TypeOK, Fill
  <2>4. Settled'
    BY <1>0, <1>16, PageFits DEF DoneFails, Settled, TypeOK
  <2>5. InTime'
    BY <1>0, <1>16, PageFits DEF DoneFails, InTime, InFifo, TypeOK, Fill
  <2> QED BY <2>1, <2>2, <2>3, <2>4, <2>5 DEF IInv
<1>17. CASE Cancel
  <2>1. TypeOK'
    BY <1>0, <1>17, PageFits DEF Cancel, TypeOK, Fill
  <2>2. Handed'
    BY <1>0, <1>17, PageFits DEF Cancel, Handed, TypeOK
  <2>3. InFifo'
    BY <1>0, <1>17, PageFits DEF Cancel, InFifo, TypeOK, Fill
  <2>4. Settled'
    BY <1>0, <1>17, PageFits DEF Cancel, Settled, TypeOK
  <2>5. InTime'
    BY <1>0, <1>17, PageFits DEF Cancel, InTime, InFifo, TypeOK, Fill
  <2> QED BY <2>1, <2>2, <2>3, <2>4, <2>5 DEF IInv
<1>18. CASE Return
  <2>1. TypeOK'
    BY <1>0, <1>18, PageFits DEF Return, TypeOK, Fill
  <2>2. Handed'
    BY <1>0, <1>18, PageFits DEF Return, Handed, TypeOK
  <2>3. InFifo'
    BY <1>0, <1>18, PageFits DEF Return, InFifo, TypeOK, Fill
  <2>4. Settled'
    BY <1>0, <1>18, PageFits DEF Return, Settled, TypeOK
  <2>5. InTime'
    BY <1>0, <1>18, PageFits DEF Return, InTime, InFifo, TypeOK, Fill
  <2> QED BY <2>1, <2>2, <2>3, <2>4, <2>5 DEF IInv
<1>19. CASE SendWord
  <2>1. TypeOK'
    BY <1>0, <1>19, PageFits DEF SendWord, TypeOK, Fill
  <2>2. Handed'
    BY <1>0, <1>19, PageFits DEF SendWord, Handed, TypeOK
  <2>3. InFifo'
    BY <1>0, <1>19, PageFits DEF SendWord, InFifo, TypeOK, Fill
  <2>4. Settled'
    BY <1>0, <1>19, PageFits DEF SendWord, Settled, TypeOK
  <2>5. InTime'
    <3>1. /\ Fill > 0 /\ Fill' = Fill - 1 /\ Fill \in Nat /\ left' = Latency
          /\ pc' = pc /\ retry' = retry /\ chunk' = chunk /\ ret' = ret
          /\ late' = late /\ left \in Nat /\ retry \in Nat /\ Words(chunk) \in Nat
      BY <1>0, <1>19, WordsGrow DEF SendWord, TypeOK, Fill
    <3>2. ASSUME Fill - 1 > Threshold
          PROVE  Polls(Fill - Threshold - 1)
                   = Polls(Fill - 1 - Threshold - 1) + Latency
      <4>1. Fill - 1 - Threshold - 1 \in Nat
            /\ (Fill - 1 - Threshold - 1) + 1 = Fill - Threshold - 1
        BY <3>1, <3>2, PageFits
      <4> QED BY <4>1, PollsAdd
    <3>3. ASSUME Fill - 1 > 0 PROVE Polls(Fill - 1) = Polls(Fill - 1 - 1) + Latency
      <4>1. Fill - 1 - 1 \in Nat /\ (Fill - 1 - 1) + 1 = Fill - 1
        BY <3>1, <3>3
      <4> QED BY <4>1, PollsAdd
    <3>4. Fill - 1 > Threshold => Polls(Fill - 1 - Threshold - 1) \in Nat
      BY <3>1, PageFits, PollsAdd
    <3>5. Fill - 1 > 0 => Polls(Fill - 1 - 1) \in Nat
      BY <3>1, PollsAdd
    <3> SUFFICES ASSUME ~late PROVE InTime'
      BY <3>1 DEF InTime
    <3>6. pc = "poll" => retry >= 2
          /\ (Fill - 1 > Threshold =>
                retry >= 2 + Latency + Polls(Fill - 1 - Threshold - 1))
      BY <1>0, <3>1, <3>2, <3>4, PageFits DEF InTime
    <3>7. pc = "empty" => retry >= 1
          /\ (Fill - 1 > 0 => retry >= 1 + Latency + Polls(Fill - 1 - 1))
      BY <1>0, <3>1, <3>3, <3>5 DEF InTime
    <3>8. pc # "done" /\ pc # "cancel" /\ ret # "error"
          /\ (pc = "test" => Fill - 1 <= Threshold /\ retry # 0)
          /\ (pc = "push" => Fill - 1 + Words(chunk) <= FifoWords)
      BY <1>0, <3>1, PageFits DEF InTime
    <3> QED BY <3>1, <3>6, <3>7, <3>8 DEF InTime
  <2> QED BY <2>1, <2>2, <2>3, <2>4, <2>5 DEF IInv
<1>20. CASE SetDone
  <2>1. TypeOK'
    BY <1>0, <1>20, PageFits DEF SetDone, TypeOK, Fill
  <2>2. Handed'
    BY <1>0, <1>20, PageFits DEF SetDone, Handed, TypeOK
  <2>3. InFifo'
    BY <1>0, <1>20, PageFits DEF SetDone, InFifo, TypeOK, Fill
  <2>4. Settled'
    BY <1>0, <1>20, PageFits DEF SetDone, Settled, TypeOK
  <2>5. InTime'
    BY <1>0, <1>20, PageFits DEF SetDone, InTime, InFifo, TypeOK, Fill
  <2> QED BY <2>1, <2>2, <2>3, <2>4, <2>5 DEF IInv
<1>21. CASE UNCHANGED vars
  BY <1>0, <1>21 DEF vars, IInv, TypeOK, Handed, InFifo, Settled, InTime, Fill
<1> QED BY <1>1, <1>2, <1>3, <1>4, <1>5, <1>6, <1>7, <1>8, <1>9, <1>10, <1>11, <1>12, <1>13, <1>14, <1>15, <1>16, <1>17, <1>18, <1>19, <1>20, <1>21
        DEF Next, Driver, Controller

-----------------------------------------------------------------------------
(* The properties.                                                         *)

\* Every reachable state is well typed: no position runs past the buffer.
THEOREM TypeCorrect == Spec => []TypeOK
<1>1. IInv => TypeOK
  BY DEF IInv
<1> QED BY <1>1, InitInv, NextInv, PTL DEF Spec

\* As long as none has failed, a write that returns 0 has sent its buffer
\* whole and in order, however slow the controller: for any length and FIFO.
THEOREM WholeBuffer == Spec => []SentAll
<1>1. IInv => SentAll
  <2> SUFFICES ASSUME IInv, pc = "return", ~failed
               PROVE  sent = Words(txlen) /\ fifo = [w \in 0 .. sent - 1 |-> 4 * w]
    BY DEF SentAll
  <2>1. sent = Words(txlen) /\ sent \in 0 .. pushed /\ pushed \in Nat
        /\ pushed <= Words(src) /\ fifo \in [0 .. pushed - 1 -> Nat]
        /\ (pushed = Words(src) => \A w \in 0 .. pushed - 1 : fifo[w] = 4 * w)
    BY DEF IInv, TypeOK, Settled, InFifo
  <2>2. Words(src) <= Words(txlen) /\ Words(src) \in Nat
    <3>1. txlen \in Nat /\ src \in 0 .. txlen
      BY LengthsAssumption DEF IInv, TypeOK
    <3> QED BY <3>1, WordsGrow
  <2>3. pushed = sent /\ \A w \in 0 .. sent - 1 : fifo[w] = 4 * w
    BY <2>1, <2>2
  <2> QED BY <2>1, <2>3
<1> QED BY <1>1, InitInv, NextInv, PTL DEF Spec

\* Unless a write has failed the controller is at rest when the next begins:
\* neither of the two polling loops takes an earlier end for its own.
THEOREM RestsBetweenWrites == Spec => []RestAtStart
<1>1. IInv => RestAtStart
  BY DEF IInv, Settled, RestAtStart
<1> QED BY <1>1, InitInv, NextInv, PTL DEF Spec

\* Unless the controller is late, no word is pushed into a full FIFO.
THEOREM FifoHolds == Spec => []NoOverflow
<1>1. IInv => NoOverflow
  <2> SUFFICES ASSUME IInv, pc = "push", chunk > 0, ~late PROVE Fill < FifoWords
    BY DEF NoOverflow
  <2>1. Fill + Words(chunk) <= FifoWords /\ chunk \in Nat /\ Fill \in Nat
    BY PageFits DEF IInv, TypeOK, InTime, Fill
  <2>2. Words(chunk) \in Nat /\ Words(chunk) >= 1
    BY <2>1 DEF Words
  <2> QED BY <2>1, <2>2, PageFits
<1> QED BY <1>1, InitInv, NextInv, PTL DEF Spec

\* Unless the controller is late, no write fails.
THEOREM NoFalseFailure == Spec => []WritesSucceed
<1>1. IInv => WritesSucceed
  BY DEF IInv, InTime, WritesSucceed
<1> QED BY <1>1, InitInv, NextInv, PTL DEF Spec
=============================================================================
