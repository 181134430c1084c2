------------------------------ MODULE QspiRead ------------------------------
(***************************************************************************)
(* An indirect read of the flash (spi/cadence_qspi_apb.c): the controller  *)
(* fetches rxlen bytes from the flash on its own and pushes them into a    *)
(* FIFO of 4-byte words; indirect_read_execute starts it, polls the fill   *)
(* level, pops what the level says is there, and in the end looks once at  *)
(* the DONE bit.                                                           *)
(*                                                                         *)
(* Bytes are abstracted to their position in the read: dest[k] is the      *)
(* position of the byte stored at rxbuf + k.  The FIFO is two counters of  *)
(* words, pushed and popped, since it never reorders.  DONE is set some    *)
(* time after the last word is in the FIFO, as soon or late as it may be.  *)
(***************************************************************************)
EXTENDS Naturals

CONSTANTS
    Retry,      \* CQSPI_REG_RETRY
    WordMod,    \* unsigned int arithmetic is modulo this
    FifoWords,  \* words the read half of the controller's SRAM holds
    Lengths,    \* the lengths of reads
    MaxReads,   \* bound on the number of reads
    MayStall    \* TRUE: the controller may stop fetching for ever

ASSUME RetryAssumption == Retry \in Nat \ {0}
ASSUME WordModAssumption == WordMod \in Nat /\ WordMod > Retry
ASSUME FifoWordsAssumption == FifoWords \in Nat \ {0}
ASSUME LengthsAssumption == Lengths \subseteq Nat \ {0}
ASSUME MaxReadsAssumption == MaxReads \in Nat
ASSUME MayStallAssumption == MayStall \in BOOLEAN

VARIABLES
    pc,         \* where the driver is
    reads,      \* reads called so far
    rxlen,      \* bytes the current read is to deliver
    retry,      \* sram_fifo_poll's retry
    level,      \* the fill level it read last, in words
    chunk,      \* bytes read_fifo_data has still to store
    remaining,  \* bytes the read has still to store
    dest,       \* what has been stored in rxbuf
    ret,        \* "ok" (0), "error" (-1), or "none" yet
    busy,       \* the controller is at an indirect read
    pushed,     \* words it has put in the FIFO
    popped,     \* words the driver has taken out
    done,       \* the DONE bit of INDIRECTRD
    failed      \* history: a read has failed

driver == <<pc, reads, rxlen, retry, level, chunk, remaining, dest, ret>>
controller == <<busy, pushed, popped, done>>
vars == <<pc, reads, rxlen, retry, level, chunk, remaining, dest, ret,
          busy, pushed, popped, done, failed>>

Words(n) == (n + 3) \div 4
Least(m, n) == IF m <= n THEN m ELSE n

TypeOK ==
    /\ pc \in {"free", "start", "poll", "test", "pop", "check", "cancel", "return"}
    /\ reads \in 0 .. MaxReads
    /\ rxlen \in Lengths \union {0}
    /\ retry \in 0 .. WordMod - 1
    /\ level \in 0 .. FifoWords
    /\ chunk \in Nat
    /\ remaining \in Nat
    /\ DOMAIN dest \subseteq Nat
    /\ ret \in {"none", "ok", "error"}
    /\ busy \in BOOLEAN /\ done \in BOOLEAN
    /\ pushed \in Nat /\ popped \in Nat
    /\ failed \in BOOLEAN

Init ==
    /\ pc = "free" /\ reads = 0 /\ rxlen = 0
    /\ retry = 0 /\ level = 0 /\ chunk = 0 /\ remaining = 0
    /\ dest = [k \in {} |-> 0] /\ ret = "none"
    /\ busy = FALSE /\ pushed = 0 /\ popped = 0 /\ done = FALSE
    /\ failed = FALSE

-----------------------------------------------------------------------------
(* The driver.  A definition with an underscore in its name is a mutated   *)
(* form of the one that follows it.                                        *)

\* The command is set up and INDIRECTRDBYTES written.
Call ==
    /\ pc = "free"
    /\ reads < MaxReads
    /\ reads' = reads + 1
    /\ rxlen' \in Lengths
    /\ dest' = [k \in {} |-> 0]
    /\ ret' = "none"
    /\ pc' = "start"
    /\ UNCHANGED <<retry, level, chunk, remaining, controller, failed>>

\* START; then sram_fifo_poll is entered.
StartRead ==
    /\ pc = "start"
    /\ busy' = TRUE /\ pushed' = 0 /\ popped' = 0
    /\ remaining' = rxlen
    /\ retry' = Retry
    /\ level' = 0
    /\ pc' = "poll"
    /\ UNCHANGED <<reads, rxlen, chunk, dest, ret, done, failed>>

PollLevel_WrongField ==
    /\ pc = "poll" /\ retry > 0
    /\ retry' = retry - 1
    /\ level' = 0
    /\ UNCHANGED <<pc, reads, rxlen, chunk, remaining, dest, ret, controller,
                   failed>>

\* while (retry--): read the level; leave when there is something.
PollLevel ==
    /\ pc = "poll" /\ retry > 0
    /\ retry' = retry - 1
    /\ level' = pushed - popped
    /\ pc' = IF level' > 0 THEN "test" ELSE "poll"
    /\ UNCHANGED <<reads, rxlen, chunk, remaining, dest, ret, controller,
                   failed>>

\* The loop ends by its condition: retry-- goes from 0 to UINT_MAX.
PollExhausted ==
    /\ pc = "poll" /\ retry = 0
    /\ retry' = WordMod - 1
    /\ pc' = "test"
    /\ UNCHANGED <<reads, rxlen, level, chunk, remaining, dest, ret,
                   controller, failed>>

TestFails ==
    /\ pc = "test" /\ retry = 0
    /\ pc' = "cancel"
    /\ UNCHANGED <<reads, rxlen, retry, level, chunk, remaining, dest, ret,
                   controller, failed>>

TestPasses_RoundUp ==
    /\ pc = "test" /\ retry # 0
    /\ chunk' = Least((level + 1) * 4, remaining)
    /\ pc' = "pop"
    /\ UNCHANGED <<reads, rxlen, retry, level, remaining, dest, ret,
                   controller, failed>>

\* Bytes to take: what is in the FIFO, but no more than is wanted.
TestPasses ==
    /\ pc = "test" /\ retry # 0
    /\ chunk' = Least(level * 4, remaining)
    /\ pc' = "pop"
    /\ UNCHANGED <<reads, rxlen, retry, level, remaining, dest, ret,
                   controller, failed>>

PopWord_Restarts ==
    /\ pc = "pop" /\ chunk > 0
    /\ LET n  == Least(4, chunk)
           at == level * 4 - chunk
       IN  /\ dest' = [k \in DOMAIN dest \union at .. at + n - 1 |->
                          IF k \in at .. at + n - 1 THEN 4 * popped + (k - at)
                          ELSE dest[k]]
           /\ chunk' = chunk - n
           /\ remaining' = remaining - n
    /\ popped' = popped + 1
    /\ UNCHANGED <<pc, reads, rxlen, retry, level, ret, busy, pushed, done,
                   failed>>

\* read_fifo_data: a word, or the dangling bytes of one.
PopWord ==
    /\ pc = "pop" /\ chunk > 0
    /\ LET n  == Least(4, chunk)
           at == rxlen - remaining
       IN  /\ dest' = [k \in DOMAIN dest \union at .. at + n - 1 |->
                          IF k \in at .. at + n - 1 THEN 4 * popped + (k - at)
                          ELSE dest[k]]
           /\ chunk' = chunk - n
           /\ remaining' = remaining - n
    /\ popped' = popped + 1
    /\ UNCHANGED <<pc, reads, rxlen, retry, level, ret, busy, pushed, done,
                   failed>>

ChunkDone_NoDangling ==
    /\ pc = "pop" /\ chunk = 0
    /\ IF remaining >= 4
       THEN pc' = "poll" /\ retry' = Retry
       ELSE pc' = "check" /\ retry' = retry
    /\ UNCHANGED <<reads, rxlen, level, chunk, remaining, dest, ret,
                   controller, failed>>

\* Nothing left of what the level promised: poll again, or end.
ChunkDone ==
    /\ pc = "pop" /\ chunk = 0
    /\ IF remaining > 0
       THEN pc' = "poll" /\ retry' = Retry
       ELSE pc' = "check" /\ retry' = retry
    /\ UNCHANGED <<reads, rxlen, level, chunk, remaining, dest, ret,
                   controller, failed>>

CheckDone_NotCleared ==
    /\ pc = "check" /\ done
    /\ ret' = "ok"
    /\ pc' = "return"
    /\ UNCHANGED <<reads, rxlen, retry, level, chunk, remaining, dest,
                   controller,
                   failed>>

\* DONE is looked at once, and cleared by writing 1 to it.
CheckDone ==
    /\ pc = "check" /\ done
    /\ done' = FALSE
    /\ ret' = "ok"
    /\ pc' = "return"
    /\ UNCHANGED <<reads, rxlen, retry, level, chunk, remaining, dest, busy,
                   pushed, popped, failed>>

CheckNotDone ==
    /\ pc = "check" /\ ~done
    /\ pc' = "cancel"
    /\ UNCHANGED <<reads, rxlen, retry, level, chunk, remaining, dest, ret,
                   controller, failed>>

\* CANCEL stops the controller and empties its FIFO; DONE is not cleared.
Cancel ==
    /\ pc = "cancel"
    /\ busy' = FALSE /\ pushed' = popped
    /\ ret' = "error" /\ failed' = TRUE
    /\ pc' = "return"
    /\ UNCHANGED <<reads, rxlen, retry, level, chunk, remaining, dest, popped,
                   done>>

Return ==
    /\ pc = "return"
    /\ pc' = "free"
    /\ UNCHANGED <<reads, rxlen, retry, level, chunk, remaining, dest, ret,
                   controller, failed>>

Driver ==
    \/ StartRead \/ PollLevel \/ PollExhausted \/ TestFails \/ TestPasses
    \/ PopWord \/ ChunkDone \/ CheckDone \/ CheckNotDone \/ Cancel \/ Return

-----------------------------------------------------------------------------
(* The controller.                                                         *)

Push ==
    /\ busy
    /\ pushed < Words(rxlen)
    /\ pushed - popped < FifoWords
    /\ pushed' = pushed + 1
    /\ UNCHANGED <<driver, busy, popped, done, failed>>

SetDone ==
    /\ busy
    /\ pushed = Words(rxlen)
    /\ busy' = FALSE /\ done' = TRUE
    /\ UNCHANGED <<driver, pushed, popped, failed>>

Controller == Push \/ SetDone

-----------------------------------------------------------------------------
Next == Call \/ Driver \/ Controller

\* The hart runs on; a controller that does not stall fetches on.
Fairness == WF_vars(Driver) /\ (~MayStall => WF_vars(Controller))

Spec == Init /\ [][Next]_vars /\ Fairness

-----------------------------------------------------------------------------
(* Properties.                                                             *)

\* A read that returns 0 has stored each byte of the flash in its place, and
\* nothing else, whatever the pace of the controller (apb.c:268-298).
Delivered ==
    ret = "ok" => dest = [k \in 0 .. rxlen - 1 |-> k]

\* What has been stored so far is in order and inside the caller's buffer,
\* for a read that fails as well.
InOrder == \A k \in DOMAIN dest : dest[k] = k /\ k < rxlen

\* The FIFO is never read when it is empty.
NoUnderflow == pc = "pop" /\ chunk > 0 => popped < pushed

\* As long as no read has failed the controller is at rest, with no DONE left
\* over, when a read begins: a stale DONE would let a read return before the
\* controller has ended it (apb.c:832-849).
IdleAtStart == pc = "start" /\ ~failed => ~busy /\ ~done /\ pushed = popped

\* A read returns if the controller fetches on, and "fifo_poll timeout"
\* (apb.c:285) is there for when it does not.
ReadReturns == (pc # "free") ~> (pc = "free")
=============================================================================
