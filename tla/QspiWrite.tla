----------------------------- MODULE QspiWrite -----------------------------
(***************************************************************************)
(* An indirect write to the flash (spi/cadence_qspi_apb.c): the driver     *)
(* starts the controller, pushes the data into its FIFO a page at a time   *)
(* whenever the fill level is at most a threshold, waits for the FIFO to   *)
(* empty and then for the DONE bit.  The controller takes words out of the *)
(* FIFO and sends them to the flash on its own.                            *)
(*                                                                         *)
(* A word is abstracted to the position in the caller's buffer of its      *)
(* first byte.  As in QspiCommand the pace of the controller is measured   *)
(* in polls: it is late once more than Latency of them have gone by before *)
(* it moved.  It may be late at any time, and for ever.                    *)
(***************************************************************************)
EXTENDS Naturals

CONSTANTS
    Retry,      \* CQSPI_REG_RETRY
    WordMod,    \* unsigned int arithmetic is modulo this
    PageSize,   \* plat->page_size
    Threshold,  \* CQSPI_REG_SRAM_THRESHOLD_WORDS
    FifoWords,  \* words the write half of the controller's SRAM holds
    Lengths,    \* the lengths of writes
    Latency,    \* polls that go by before the controller counts as late
    MaxWrites   \* bound on the number of writes

ASSUME RetryAssumption == Retry \in Nat \ {0}
ASSUME WordModAssumption == WordMod \in Nat /\ WordMod > Retry
ASSUME PageSizeAssumption == PageSize \in Nat \ {0} /\ PageSize % 4 = 0
ASSUME FifoAssumption ==
    /\ Threshold \in Nat /\ FifoWords \in Nat
    /\ Threshold + PageSize \div 4 <= FifoWords
ASSUME LengthsAssumption == Lengths \subseteq Nat \ {0}
ASSUME LatencyAssumption == Latency \in Nat
\* A full FIFO that is not late empties within the polls of a loop.
ASSUME PaceAssumption == Retry > FifoWords * Latency + 1
ASSUME MaxWritesAssumption == MaxWrites \in Nat

VARIABLES
    pc,         \* where the driver is
    writes,     \* writes called so far
    txlen,      \* bytes to write
    retry,      \* the retry of the loop it is in
    level,      \* the fill level it read last, in words
    chunk,      \* bytes write_fifo_data has still to push
    remaining,  \* bytes not handed to write_fifo_data yet
    src,        \* the position of the next byte to push
    ret,        \* "ok" (0), "error" (-1), or "none" yet
    busy,       \* the controller is at an indirect write
    fifo,       \* the words pushed, by their number
    pushed,     \* how many they are
    sent,       \* how many of them it has sent to the flash
    done,       \* the DONE bit of INDIRECTWR
    left,       \* how many more polls may go by before it moves
    late,       \* history: one more has
    failed      \* history: a write has failed

driver == <<pc, writes, txlen, retry, level, chunk, remaining, src, ret>>
controller == <<busy, fifo, pushed, sent, done, left>>
history == <<late, failed>>
vars == <<pc, writes, txlen, retry, level, chunk, remaining, src, ret,
          busy, fifo, pushed, sent, done, left, late, failed>>

Words(n) == (n + 3) \div 4
Least(m, n) == IF m <= n THEN m ELSE n
Fill == pushed - sent

TypeOK ==
    /\ pc \in {"free", "start", "more", "poll", "test", "push", "empty", "done",
               "cancel", "return"}
    /\ writes \in 0 .. MaxWrites
    /\ txlen \in Lengths \union {0}
    /\ retry \in 0 .. WordMod - 1
    /\ level \in Nat
    /\ chunk \in 0 .. PageSize
    /\ remaining \in 0 .. txlen
    /\ src \in 0 .. txlen
    /\ ret \in {"none", "ok", "error"}
    /\ busy \in BOOLEAN /\ done \in BOOLEAN
    /\ pushed \in Nat /\ sent \in 0 .. pushed
    /\ DOMAIN fifo = 0 .. pushed - 1
    /\ left \in 0 .. Latency
    /\ late \in BOOLEAN /\ failed \in BOOLEAN

Init ==
    /\ pc = "free" /\ writes = 0 /\ txlen = 0 /\ retry = 0 /\ level = 0
    /\ chunk = 0 /\ remaining = 0 /\ src = 0 /\ ret = "none"
    /\ busy = FALSE /\ fifo = [w \in {} |-> 0] /\ pushed = 0 /\ sent = 0
    /\ done = FALSE /\ left = 0
    /\ late = FALSE /\ failed = FALSE

-----------------------------------------------------------------------------
(* The driver.  A definition with an underscore in its name is a mutated   *)
(* form of the one that follows it.                                        *)

\* The command is set up and INDIRECTWRBYTES written.
Call ==
    /\ pc = "free" /\ writes < MaxWrites
    /\ writes' = writes + 1
    /\ txlen' \in Lengths
    /\ remaining' = txlen' /\ src' = 0 /\ chunk' = 0
    /\ ret' = "none"
    /\ pc' = "start"
    /\ UNCHANGED <<retry, level, controller, history>>

StartWrite ==
    /\ pc = "start"
    /\ busy' = TRUE /\ left' = Latency
    /\ fifo' = [w \in {} |-> 0] /\ pushed' = 0 /\ sent' = 0
    /\ pc' = "more"
    /\ UNCHANGED <<writes, txlen, retry, level, chunk, remaining, src, ret,
                   done,
                   history>>

More_NoReset ==
    /\ pc = "more"
    /\ retry' = IF src = 0 THEN Retry ELSE retry
    /\ pc' = IF remaining > 0 THEN "poll" ELSE "empty"
    /\ UNCHANGED <<writes, txlen, level, chunk, remaining, src, ret,
                   controller, history>>

\* while (remaining > 0), and after it the wait for the FIFO to empty
More ==
    /\ pc = "more"
    /\ retry' = Retry
    /\ pc' = IF remaining > 0 THEN "poll" ELSE "empty"
    /\ UNCHANGED <<writes, txlen, level, chunk, remaining, src, ret,
                   controller, history>>

\* A poll that waits for the controller: time passes.
Waits ==
    /\ left' = IF left > 0 THEN left - 1 ELSE 0
    /\ late' = (late \/ left = 0)
    /\ UNCHANGED <<busy, fifo, pushed, sent, done, failed>>

PollFull ==
    /\ pc = "poll" /\ retry > 0 /\ Fill > Threshold
    /\ Waits
    /\ retry' = retry - 1
    /\ level' = Fill
    /\ UNCHANGED <<pc, writes, txlen, chunk, remaining, src, ret>>

PollReady_AnyLevel ==
    /\ pc = "poll" /\ retry > 0
    /\ retry' = retry - 1
    /\ level' = Fill
    /\ pc' = "test"
    /\ UNCHANGED <<writes, txlen, chunk, remaining, src, ret, controller,
                   history>>

\* The level is at most the threshold: break, after retry-- all the same.
PollReady ==
    /\ pc = "poll" /\ retry > 0 /\ Fill <= Threshold
    /\ retry' = retry - 1
    /\ level' = Fill
    /\ pc' = "test"
    /\ UNCHANGED <<writes, txlen, chunk, remaining, src, ret, controller,
                   history>>

\* The loop ends by its condition: retry-- goes from 0 to UINT_MAX.
PollExhausted ==
    /\ pc = "poll" /\ retry = 0
    /\ retry' = WordMod - 1
    /\ pc' = "test"
    /\ UNCHANGED <<writes, txlen, level, chunk, remaining, src, ret,
                   controller, history>>

TestFails ==
    /\ pc = "test" /\ retry = 0
    /\ pc' = "cancel"
    /\ UNCHANGED <<writes, txlen, retry, level, chunk, remaining, src, ret,
                   controller, history>>

\* Write a page or remaining bytes.
TestPasses ==
    /\ pc = "test" /\ retry # 0
    /\ chunk' = Least(remaining, PageSize)
    /\ remaining' = remaining - chunk'
    /\ pc' = "push"
    /\ UNCHANGED <<writes, txlen, retry, level, src, ret, controller, history>>

\* A word pushed into a full FIFO is lost.
Store(word) ==
    \/ /\ Fill < FifoWords
       /\ fifo' = [w \in 0 .. pushed |-> IF w = pushed THEN word ELSE fifo[w]]
       /\ pushed' = pushed + 1
    \/ /\ Fill >= FifoWords
       /\ UNCHANGED <<fifo, pushed>>

PushWord_SrcBehind ==
    /\ pc = "push" /\ chunk > 0
    /\ Store(src)
    /\ chunk' = chunk - Least(4, chunk)
    /\ src' = IF chunk' = 0 THEN src + Least(4, chunk) ELSE src
    /\ UNCHANGED <<pc, writes, txlen, retry, level, remaining, ret, busy, sent,
                   done, left, history>>

\* write_fifo_data: a word, or the dangling bytes of one.
PushWord ==
    /\ pc = "push" /\ chunk > 0
    /\ Store(src)
    /\ chunk' = chunk - Least(4, chunk)
    /\ src' = src + Least(4, chunk)
    /\ UNCHANGED <<pc, writes, txlen, retry, level, remaining, ret, busy, sent,
                   done, left, history>>

ChunkDone ==
    /\ pc = "push" /\ chunk = 0
    /\ pc' = "more"
    /\ UNCHANGED <<writes, txlen, retry, level, chunk, remaining, src, ret,
                   controller, history>>

\* Wait until last write is completed (FIFO empty)
EmptyWaits ==
    /\ pc = "empty" /\ retry > 0 /\ Fill > 0
    /\ Waits
    /\ retry' = retry - 1
    /\ level' = Fill
    /\ UNCHANGED <<pc, writes, txlen, chunk, remaining, src, ret>>

Emptied ==
    /\ pc = "empty" /\ retry > 0 /\ Fill = 0
    /\ level' = 0
    /\ retry' = Retry
    /\ pc' = "done"
    /\ UNCHANGED <<writes, txlen, chunk, remaining, src, ret, controller,
                   history>>

\* This loop is followed by a test of what it read last, not of retry.
EmptyFails ==
    /\ pc = "empty" /\ retry = 0
    /\ retry' = WordMod - 1
    /\ pc' = "cancel"
    /\ UNCHANGED <<writes, txlen, level, chunk, remaining, src, ret,
                   controller, history>>

DoneWaits_Forever ==
    /\ pc = "done" /\ retry > 0 /\ ~done
    /\ Waits
    /\ UNCHANGED driver

DoneWaits ==
    /\ pc = "done" /\ retry > 0 /\ ~done
    /\ Waits
    /\ retry' = retry - 1
    /\ UNCHANGED <<pc, writes, txlen, level, chunk, remaining, src, ret>>

Finished_EarlyOk ==
    /\ pc = "done" /\ retry > 0
    /\ retry' = retry - 1
    /\ done' = FALSE
    /\ ret' = "ok"
    /\ pc' = "return"
    /\ UNCHANGED <<writes, txlen, level, chunk, remaining, src, busy, fifo,
                   pushed,
                   sent, left, history>>

\* DONE is cleared by writing 1 to it.
Finished ==
    /\ pc = "done" /\ retry > 0 /\ done
    /\ retry' = retry - 1
    /\ done' = FALSE
    /\ ret' = "ok"
    /\ pc' = "return"
    /\ UNCHANGED <<writes, txlen, level, chunk, remaining, src, busy, fifo,
                   pushed,
                   sent, left, history>>

DoneFails ==
    /\ pc = "done" /\ retry = 0
    /\ retry' = WordMod - 1
    /\ pc' = "cancel"
    /\ UNCHANGED <<writes, txlen, level, chunk, remaining, src, ret,
                   controller, history>>

\* CANCEL stops the controller; DONE is not cleared.
Cancel ==
    /\ pc = "cancel"
    /\ busy' = FALSE
    /\ ret' = "error" /\ failed' = TRUE
    /\ pc' = "return"
    /\ UNCHANGED <<writes, txlen, retry, level, chunk, remaining, src, fifo,
                   pushed,
                   sent, done, left, late>>

Return ==
    /\ pc = "return"
    /\ pc' = "free"
    /\ UNCHANGED <<writes, txlen, retry, level, chunk, remaining, src, ret,
                   controller, history>>

Driver ==
    \/ StartWrite \/ More \/ PollFull \/ PollReady \/ PollExhausted
    \/ TestFails \/ TestPasses \/ PushWord \/ ChunkDone
    \/ EmptyWaits \/ Emptied \/ EmptyFails
    \/ DoneWaits \/ Finished \/ DoneFails \/ Cancel \/ Return

-----------------------------------------------------------------------------
(* The controller.                                                         *)

SendWord ==
    /\ busy /\ Fill > 0
    /\ sent' = sent + 1
    /\ left' = Latency
    /\ UNCHANGED <<driver, busy, fifo, pushed, done, history>>

\* DONE is set some time after the last word has gone to the flash.
SetDone ==
    /\ busy /\ sent = Words(txlen)
    /\ busy' = FALSE /\ done' = TRUE
    /\ UNCHANGED <<driver, fifo, pushed, sent, left, history>>

Controller == SendWord \/ SetDone

-----------------------------------------------------------------------------
Next == Call \/ Driver \/ Controller

\* The hart runs on.  Nothing obliges the controller to.
Fairness == WF_vars(Driver)

Spec == Init /\ [][Next]_vars /\ Fairness

-----------------------------------------------------------------------------
(* Properties.                                                             *)

\* As long as no write has failed, one that returns 0 has sent the whole
\* buffer to the flash, each word once and in order, however slow the
\* controller was (apb.c:302-337, 893-945).
SentAll ==
    pc = "return" /\ ret = "ok" /\ ~failed =>
        sent = Words(txlen) /\ fifo = [w \in 0 .. sent - 1 |-> 4 * w]

\* Unless the controller is late the driver never pushes into a full FIFO: a
\* page follows only a level of at most the threshold, above which it fits
\* (apb.c:315-333).
NoOverflow == pc = "push" /\ chunk > 0 /\ ~late => Fill < FifoWords

\* As long as no write has failed the controller is at rest, with no DONE
\* left over, when a write begins: a stale DONE would let a write return
\* before its data is in the flash (apb.c:925-947).
RestAtStart == pc = "start" /\ ~failed => ~busy /\ ~done

\* Unless the controller is late no write fails, not even one whose FIFO
\* empties slowly (apb.c:315, 910, 925).
WritesSucceed == ret = "error" => late

\* Every write returns, even if the controller never moves again.
WriteReturns == (pc # "free") ~> (pc = "free")
=============================================================================
