------------------------------- MODULE TxPath -------------------------------
(***************************************************************************)
(* The transmit side of boot/baseband/baseband.c: write(), TX_ENABLE,      *)
(* DMA_SET_CYCLE, SCRATCH_WRITE and DMA_SCRATCH_TX, none of which takes a  *)
(* lock, over the memory-to-stream half of the DMA and the two multiplexers*)
(* in front of the DACs (Baseband.scala).  Reads appear as what they do to *)
(* the bit both directions share: DMA_EN off, then on again once they have *)
(* got baseband_rx_lock, which a read that times out never gives back.     *)
(*                                                                         *)
(* As in BasebandDriver a step is one register access, one turn of a       *)
(* polling loop or one kernel call.  The time gate between the DMA and the *)
(* DACs is open: nothing in the repository ever sets its EN register.      *)
(***************************************************************************)
EXTENDS Naturals, Sequences, SequencesExt

CONSTANTS
  Writers,      \* threads that call write() and the transmit ioctls
  Readers,      \* threads that call read()
  NoThread,     \* the owner of a free buffer or mutex
  Buffers,      \* bus addresses dma_alloc_coherent can return
  Scratch,      \* 0x79044000: the scratch memory of the peripheral
  NoBuf,        \* no address
  MemWords,     \* words of memory behind each address
  Messages,     \* what user programs write
  NoData,       \* memory nobody has written
  Sizes,        \* byte counts given to write()
  Masks,        \* arguments of TX_ENABLE
  CycleCounts,  \* arguments of DMA_SET_CYCLE
  LenMod,       \* 2^32: width of the DMA's length register
  WaitMod,      \* 2^32: width of wait_cnt
  TimeoutTurns, \* 1000000
  MaxCalls      \* bound: calls that send something

Threads == Writers \cup Readers
Dacs == {0, 1}
Bit == {0, 1}
Offsets == 0..(MemWords - 1)
Memory == Buffers \cup {Scratch}

ASSUME TxAssumption ==
  /\ NoThread \notin Threads
  /\ Scratch \notin Buffers
  /\ NoBuf \notin Memory
  /\ MemWords \in Nat \ {0}
  /\ NoData \notin Messages
  /\ Sizes \subseteq 1..(4 * MemWords)
  /\ Masks \subseteq 0..3
  /\ CycleCounts \subseteq Nat
  /\ LenMod \in Nat \ {0}
  /\ WaitMod \in Nat \ {0}
  /\ TimeoutTurns \in Nat
  /\ MaxCalls \in Nat

VARIABLES
  pc,       \* per thread: the statement it is about to execute
  kbuf,     \* write: kbuf, the buffer it allocated
  size,     \* write: the byte count
  data,     \* write, SCRATCH_WRITE: the user's message
  waitCnt,  \* write: wait_cnt
  ret,      \* write: the result, once known
  arg,      \* TX_ENABLE: arg
  idx,      \* TX_ENABLE, SCRATCH_WRITE: i
  dbuf,     \* write: dbuf, static: one for all calls
  owner,    \* the thread each buffer is allocated to
  rxLock,   \* baseband_rx_lock: the read that has it
  dmaEn,    \* DMA_EN
  m2sReg,   \* DMA_M2S_BASE, _LENGTH and _CYCLES
  m2s,      \* the transfer: base, next word, length, repetitions to come
  mem,      \* memory behind the addresses
  txEn,     \* ENABLE_TX: per DAC, 1 = baseband, 0 = built-in transmitter
  air,      \* per DAC: the words of write()s it has put on the air
  calls,    \* number of calls made that send something
  status,   \* what the last TX_ENABLE returned
  promised  \* per DAC: words of the write()s that were under way so far

locals == <<kbuf, size, data, waitCnt, ret, arg, idx>>
driver == <<dbuf, owner, rxLock>>
hardware == <<dmaEn, m2sReg, m2s, mem, txEn, air>>
history == <<calls, status, promised>>
vars == <<pc, locals, driver, hardware, history>>

WriteLabels == {"copy", "dmaOn", "base", "length", "go", "wait", "free"}
ScratchLabels == {"sDmaOn", "sBase", "sLength", "sGo"}
ReadLabels == {"lockRead", "drain", "capture"}
Labels == WriteLabels \cup ScratchLabels \cup ReadLabels \cup
          {"idle", "enWrite", "enRead", "scratch"}
Words == [msg : Messages \cup {NoData}, base : Memory \cup {NoBuf}, off : Nat]

TypeOK ==
  /\ pc \in [Threads -> Labels]
  /\ kbuf \in [Threads -> Buffers \cup {NoBuf}]
  /\ size \in [Threads -> Nat]
  /\ data \in [Threads -> Messages \cup {NoData}]
  /\ waitCnt \in [Threads -> Nat]
  /\ ret \in [Threads -> {"none", "sent", "failed"}]
  /\ arg \in [Threads -> 0..3]
  /\ idx \in [Threads -> Nat]
  /\ dbuf \in Buffers \cup {NoBuf}
  /\ owner \in [Buffers -> Threads \cup {NoThread}]
  /\ rxLock \in Threads \cup {NoThread}
  /\ dmaEn \in Bit
  /\ m2sReg \in [base : Memory \cup {NoBuf}, len : Nat, cycles : Nat]
  /\ m2s \in [base : Memory \cup {NoBuf}, off : Nat, len : Nat, again : Nat]
  /\ mem \in [Memory -> [Offsets -> Messages \cup {NoData}]]
  /\ txEn \in [Dacs -> Bit]
  /\ air \in [Dacs -> Seq(Words)]
  /\ calls \in Nat
  /\ status \in 0..3
  /\ promised \in [Dacs -> Seq(Words)]

Init ==
  /\ pc = [t \in Threads |-> "idle"]
  /\ kbuf = [t \in Threads |-> NoBuf]
  /\ size = [t \in Threads |-> 0]
  /\ data = [t \in Threads |-> NoData]
  /\ waitCnt = [t \in Threads |-> 0]
  /\ ret = [t \in Threads |-> "none"]
  /\ arg = [t \in Threads |-> 0]
  /\ idx = [t \in Threads |-> 0]
  /\ dbuf = NoBuf
  /\ owner = [b \in Buffers |-> NoThread]
  /\ rxLock = NoThread
  /\ dmaEn = 0
  /\ m2sReg = [base |-> NoBuf, len |-> 0, cycles |-> 0]
  /\ m2s = [base |-> NoBuf, off |-> 0, len |-> 0, again |-> 0]
  /\ mem = [a \in Memory |-> [o \in Offsets |-> NoData]]
  /\ txEn = [d \in Dacs |-> 0]
  /\ air = [d \in Dacs |-> <<>>]
  /\ calls = 0
  /\ status = 0
  /\ promised = [d \in Dacs |-> <<>>]

----------------------------------------------------------------------------
(* The hardware.                                                           *)

Remaining == m2s.off < m2s.len

Fetch == [msg |-> IF m2s.base \in Memory /\ m2s.off \in Offsets
                  THEN mem[m2s.base][m2s.off] ELSE NoData,
          base |-> m2s.base, off |-> m2s.off]

\* A word leaves the DMA; the DACs that take baseband samples put it on the
\* air.  A DAC that takes the built-in transmitter's samples lets it pass.
\* Words of the scratch memory are not recorded: nobody waits for them.
DmaSend ==
  /\ dmaEn = 1
  /\ Remaining
  /\ m2s' = IF m2s.off + 1 = m2s.len /\ m2s.again > 0
            THEN [base |-> m2s.base, off |-> 0, len |-> m2s.len, again |-> m2s.again - 1]
            ELSE [base |-> m2s.base, off |-> m2s.off + 1, len |-> m2s.len, again |-> m2s.again]
  /\ air' = [d \in Dacs |->
       IF txEn[d] = 1 /\ m2s.base # Scratch THEN Append(air[d], Fetch) ELSE air[d]]
  /\ UNCHANGED <<pc, locals, driver, dmaEn, m2sReg, mem, txEn, history>>

----------------------------------------------------------------------------
(* Steps shared by the calls.                                              *)

Goto(t, from, to) == pc[t] = from /\ pc' = [pc EXCEPT ![t] = to]

SetDmaEn(t, from, to, v) ==
  /\ Goto(t, from, to)
  /\ dmaEn' = v
  /\ UNCHANGED <<locals, driver, m2sReg, m2s, mem, txEn, air, history>>

WriteM2s(t, from, to, field, v) ==
  /\ Goto(t, from, to)
  /\ m2sReg' = [m2sReg EXCEPT ![field] = v]
  /\ UNCHANGED <<locals, driver, dmaEn, m2s, mem, txEn, air, history>>

\* A write to DMA_M2S_WGO_RREMAINING starts the programmed transfer.
StartM2s(t, from, to) ==
  /\ Goto(t, from, to)
  /\ m2s' = [base |-> m2sReg.base, off |-> 0, len |-> m2sReg.len + 1,
             again |-> m2sReg.cycles]
  /\ UNCHANGED <<locals, driver, dmaEn, m2sReg, mem, txEn, air, history>>

WordsOf(n) == (n + 3) \div 4
LengthRegUnadjusted(n) == WordsOf(n) % LenMod  \* a slip: the "- 1" forgotten
LengthReg(n) == (WordsOf(n) + LenMod - 1) % LenMod
BitOf(n, i) == IF i = 0 THEN n % 2 ELSE (n \div 2) % 2

----------------------------------------------------------------------------
(* write()                                                                 *)

\* The words of a message of n bytes at address b, as often as they are sent.
Repeated(m, b, n, times) ==
  [i \in 1..(times * WordsOf(n)) |->
     [msg |-> m, base |-> b, off |-> (i - 1) % WordsOf(n)]]

\* dma_alloc_coherent: zeroed memory; its bus address goes to a variable
\* that all calls share.
Allocate(t, b, n) ==
  /\ owner[b] = NoThread
  /\ owner' = [owner EXCEPT ![b] = t]
  /\ kbuf' = [kbuf EXCEPT ![t] = b]
  /\ dbuf' = b
  /\ size' = [size EXCEPT ![t] = n]
  /\ mem' = [mem EXCEPT ![b] = [o \in Offsets |-> NoData]]

WriteAlloc(t, b, m, n) ==
  /\ Goto(t, "idle", "copy")
  /\ calls < MaxCalls
  /\ calls' = calls + 1
  /\ Allocate(t, b, n)
  /\ data' = [data EXCEPT ![t] = m]
  /\ UNCHANGED <<waitCnt, ret, arg, idx, rxLock, dmaEn, m2sReg, m2s, txEn, air, status,
                 promised>>

Filled(b, m, n) ==
  [o \in Offsets |-> IF o < WordsOf(n) THEN m ELSE mem[b][o]]

\* copy_from_user
CopyIn(t) ==
  /\ Goto(t, "copy", "dmaOn")
  /\ mem' = [mem EXCEPT ![kbuf[t]] = Filled(kbuf[t], data[t], size[t])]
  /\ promised' = [d \in Dacs |->
       IF BitOf(status, d) = 1
       THEN promised[d] \o Repeated(data[t], kbuf[t], size[t], m2sReg.cycles + 1)
       ELSE promised[d]]
  /\ UNCHANGED <<locals, driver, dmaEn, m2sReg, m2s, txEn, air, calls, status>>

\* copy_from_user stops short; nothing is sent.
CopyFails(t) ==
  /\ Goto(t, "copy", "free")
  /\ ret' = [ret EXCEPT ![t] = "failed"]
  /\ UNCHANGED <<kbuf, size, data, waitCnt, arg, idx, driver, hardware, history>>

WriteDmaOn(t) == SetDmaEn(t, "dmaOn", "base", 1)
WriteBase(t) == WriteM2s(t, "base", "length", "base", dbuf)
WriteLength(t) == WriteM2s(t, "length", "go", "len", LengthReg(size[t]))
WriteGo(t) == StartM2s(t, "go", "wait")

\* One turn of the polling loop, which has no bound.
WaitTurn(t) ==
  /\ pc[t] = "wait"
  /\ Remaining
  /\ waitCnt' = [waitCnt EXCEPT ![t] = (@ + 1) % WaitMod]
  /\ UNCHANGED <<pc, kbuf, size, data, ret, arg, idx, driver, hardware, history>>

\* Nothing remains.  Exactly TimeoutTurns turns are taken for a timeout.
LeaveWait(t) ==
  /\ Goto(t, "wait", "free")
  /\ ret' = [ret EXCEPT ![t] = IF waitCnt[t] = TimeoutTurns THEN "failed" ELSE "sent"]
  /\ UNCHANGED <<kbuf, size, data, waitCnt, arg, idx, driver, hardware, history>>
WaitOverUnchecked(t) == LeaveWait(t)  \* a slip: the loop forgotten
WaitOver(t) == ~Remaining /\ LeaveWait(t)

\* dma_free_coherent, and the locals die.
WriteFree(t) ==
  /\ Goto(t, "free", "idle")
  /\ owner' = [owner EXCEPT ![kbuf[t]] = NoThread]
  /\ kbuf' = [kbuf EXCEPT ![t] = NoBuf]
  /\ size' = [size EXCEPT ![t] = 0]
  /\ data' = [data EXCEPT ![t] = NoData]
  /\ waitCnt' = [waitCnt EXCEPT ![t] = 0]
  /\ ret' = [ret EXCEPT ![t] = "none"]
  /\ UNCHANGED <<arg, idx, dbuf, rxLock, hardware, history>>

WriteStep(t) ==
  \/ CopyIn(t) \/ CopyFails(t) \/ WriteDmaOn(t) \/ WriteBase(t)
  \/ WriteLength(t) \/ WriteGo(t) \/ WaitTurn(t) \/ WaitOver(t) \/ WriteFree(t)

----------------------------------------------------------------------------
(* The transmit ioctls.                                                    *)

TxEnable(t, mask) ==
  /\ Goto(t, "idle", "enWrite")
  /\ arg' = [arg EXCEPT ![t] = mask]
  /\ UNCHANGED <<kbuf, size, data, waitCnt, ret, idx, driver, hardware, history>>

\* Both registers are written, one after the other ...
EnableWrite(t) ==
  /\ pc[t] = "enWrite"
  /\ txEn' = [txEn EXCEPT ![idx[t]] = BitOf(arg[t], idx[t])]
  /\ idx' = [idx EXCEPT ![t] = 1 - @]
  /\ IF idx[t] = 1
     THEN pc' = [pc EXCEPT ![t] = "enRead"] /\ arg' = [arg EXCEPT ![t] = 0]
     ELSE UNCHANGED <<pc, arg>>
  /\ UNCHANGED <<kbuf, size, data, waitCnt, ret, driver, dmaEn, m2sReg, m2s, mem, air, history>>

\* ... and read back, one after the other.
ReadBack(t, weight) ==
  /\ pc[t] = "enRead"
  /\ LET seen == arg[t] + txEn[idx[t]] * weight
     IN IF idx[t] = 1
        THEN /\ status' = seen
             /\ arg' = [arg EXCEPT ![t] = 0]
             /\ pc' = [pc EXCEPT ![t] = "idle"]
        ELSE /\ arg' = [arg EXCEPT ![t] = seen]
             /\ UNCHANGED <<status, pc>>
  /\ idx' = [idx EXCEPT ![t] = 1 - @]
  /\ UNCHANGED <<kbuf, size, data, waitCnt, ret, driver, hardware, calls, promised>>
EnableReadDoubled(t) == ReadBack(t, 2 * (idx[t] + 1))  \* a slip: shifted once more
EnableRead(t) == ReadBack(t, idx[t] + 1)

SetCycle(t, n) == WriteM2s(t, "idle", "idle", "cycles", n)

\* SCRATCH_WRITE: word by word.
ScratchWrite(t, m) ==
  /\ Goto(t, "idle", "scratch")
  /\ calls < MaxCalls
  /\ calls' = calls + 1
  /\ data' = [data EXCEPT ![t] = m]
  /\ UNCHANGED <<kbuf, size, waitCnt, ret, arg, idx, driver, hardware, status, promised>>

ScratchStep(t) ==
  /\ pc[t] = "scratch"
  /\ mem' = [mem EXCEPT ![Scratch] = [@ EXCEPT ![idx[t]] = data[t]]]
  /\ IF idx[t] = MemWords - 1
     THEN /\ pc' = [pc EXCEPT ![t] = "idle"]
          /\ idx' = [idx EXCEPT ![t] = 0]
          /\ data' = [data EXCEPT ![t] = NoData]
     ELSE /\ idx' = [idx EXCEPT ![t] = @ + 1]
          /\ UNCHANGED <<pc, data>>
  /\ UNCHANGED <<kbuf, size, waitCnt, ret, arg, driver, dmaEn, m2sReg, m2s, txEn, air, history>>

\* DMA_SCRATCH_TX starts a transfer and does not wait for it; its argument
\* goes to the length register as it is.
ScratchTx(t, n) ==
  /\ Goto(t, "idle", "sDmaOn")
  /\ calls < MaxCalls
  /\ calls' = calls + 1
  /\ size' = [size EXCEPT ![t] = n]
  /\ UNCHANGED <<kbuf, data, waitCnt, ret, arg, idx, driver, hardware, status, promised>>

ScratchTxStep(t) ==
  \/ SetDmaEn(t, "sDmaOn", "sBase", 1)
  \/ WriteM2s(t, "sBase", "sLength", "base", Scratch)
  \/ WriteM2s(t, "sLength", "sGo", "len", size[t] % LenMod)
  \/ StartM2s(t, "sGo", "idle")

----------------------------------------------------------------------------
(* read(), as far as it matters here.                                      *)

\* The DMA is turned off before the lock is taken ...
ReadPause(t) == SetDmaEn(t, "idle", "lockRead", 0)

ReadLock(t) ==
  /\ Goto(t, "lockRead", "drain")
  /\ rxLock = NoThread
  /\ rxLock' = t
  /\ UNCHANGED <<locals, dbuf, owner, hardware, history>>

\* ... and on again after the skid buffer was drained.
ReadStaysOff(t) == SetDmaEn(t, "drain", "capture", 0)  \* a slip: 0 written again
ReadResume(t) == SetDmaEn(t, "drain", "capture", 1)

\* The capture is complete: the lock is released.
ReadEnd(t) ==
  /\ Goto(t, "capture", "idle")
  /\ rxLock' = NoThread
  /\ UNCHANGED <<locals, dbuf, owner, hardware, history>>

\* The capture takes too long: the way out leads past mutex_unlock.
ReadTimesOut(t) ==
  /\ Goto(t, "capture", "idle")
  /\ UNCHANGED <<locals, driver, hardware, history>>

ReadStep(t) == ReadPause(t) \/ ReadLock(t) \/ ReadResume(t) \/ ReadEnd(t) \/ ReadTimesOut(t)

----------------------------------------------------------------------------
Begin(t) ==
  \/ \E b \in Buffers, m \in Messages, n \in Sizes : WriteAlloc(t, b, m, n)
  \/ \E mask \in Masks : TxEnable(t, mask)
  \/ \E n \in CycleCounts : SetCycle(t, n)
  \/ \E m \in Messages : ScratchWrite(t, m)
  \/ \E n \in Offsets : ScratchTx(t, n)

InCall(t) ==
  WriteStep(t) \/ EnableWrite(t) \/ EnableRead(t) \/ ScratchStep(t) \/ ScratchTxStep(t)

Next ==
  \/ DmaSend
  \/ \E t \in Writers : Begin(t) \/ InCall(t)
  \/ \E t \in Readers : ReadStep(t)

Spec == Init /\ [][Next]_vars

\* The DACs take samples; the kernel schedules runnable threads and gives a
\* free mutex to a thread that waits for it; the skid buffer runs empty; and a
\* capture is over at the latest when estimate_max_time has passed.  Reads may
\* turn the DMA off over and over, so it needs more than weak fairness.
Fairness ==
  /\ SF_vars(DmaSend)
  /\ \A t \in Writers : WF_vars(InCall(t))
  /\ \A t \in Readers :
       /\ SF_vars(ReadLock(t))
       /\ WF_vars(ReadResume(t))
       /\ WF_vars(ReadEnd(t) \/ ReadTimesOut(t))

FairSpec == Spec /\ Fairness

----------------------------------------------------------------------------
(* Properties.                                                             *)

InWrite(t) == pc[t] \in WriteLabels

\* With one writer, the bus address a write() hands to the DMA and to
\* dma_free_coherent is that of the buffer it allocated itself.
OwnAddress == \A t \in Writers : InWrite(t) => dbuf = kbuf[t] /\ owner[dbuf] = t

\* The DMA never reads a buffer that was freed, nor past the end of one.
ReadsLiveMemory ==
  Remaining /\ m2s.base \in Buffers =>
    /\ owner[m2s.base] # NoThread
    /\ m2s.len <= WordsOf(size[owner[m2s.base]])

\* Each DAC that TX_ENABLE said takes baseband samples puts every write() on
\* the air, whole, in order, and as often as DMA_SET_CYCLE asked for: nothing
\* else comes from the buffers of write(), and nothing is missing once it
\* returns.
OnAirAsWritten ==
  \A d \in Dacs :
    /\ IsPrefix(air[d], promised[d])
    /\ (\A t \in Writers : pc[t] \in {"free", "idle"}) => air[d] = promised[d]

\* A write() that returns the number of bytes it was given has put its words
\* on the air, at every DAC that took baseband samples when it began.
ReportedSent ==
  \A t \in Writers, d \in Dacs :
    LET own == Range(Repeated(data[t], kbuf[t], size[t], 1))
    IN pc[t] = "free" /\ ret[t] = "sent" /\ own \subseteq Range(promised[d]) =>
         own \subseteq Range(air[d])

\* A read waits for the lock, which a read that timed out has left taken.
ReadBlocked ==
  /\ \E t \in Readers : pc[t] = "lockRead"
  /\ \E t \in Readers : rxLock = t /\ pc[t] \notin {"drain", "capture"}

\* Every call returns, although write() waits without a bound and reads turn
\* the DMA off before they wait for the lock: unless a read waits for a lock
\* that a read which timed out has left taken.  That wait never ends, and nor
\* does a write()'s for a DMA which the waiting read has turned off.
CallsReturn == \A t \in Threads : pc[t] # "idle" ~> pc[t] = "idle" \/ ReadBlocked
=============================================================================
