-------------------------- MODULE BasebandDriver --------------------------
(***************************************************************************)
(* The receive side of the kernel driver boot/baseband/baseband.c: read(), *)
(* mmap() and the receive ioctls, called concurrently by processes that    *)
(* have /dev/baseband open, over the registers of RxHardware.              *)
(*                                                                         *)
(* A step of a thread is one register access (iowrite32), one turn of a    *)
(* polling loop, or one kernel call (mutex, allocation, user copy).  pc    *)
(* names the statement a thread is about to execute; "idle" is user space. *)
(* A call that fails before it touches anything (no memory, -ENOTTY) and   *)
(* the ioctls that only read a status register change nothing and have no  *)
(* action.                                                                 *)
(***************************************************************************)
EXTENDS RxHardware

CONSTANTS
  Readers,     \* threads that call read()
  Tuners,      \* threads that call RX_CONF and RX_USE_BASEBAND
  Pokers,      \* threads that call the ioctls that take no lock
  Mappers,     \* threads that call mmap()
  NoThread,    \* nobody: the owner of a free mutex or buffer
  NoBuf,       \* no buffer
  Sizes,       \* byte counts given to read()
  MapSizes,    \* lengths given to mmap(): whole pages
  Confs,       \* configurations given to RX_CONF
  Torn,        \* what RX_CONF holds when copy_from_user stopped short
  Modes,       \* arguments of RX_USE_BASEBAND (0 bypass, 1 baseband)
  CanTimeout   \* whether a read may wait longer than estimate_max_time

Threads == Readers \cup Tuners \cup Pokers \cup Mappers

ASSUME DriverAssumption ==
  /\ NoThread \notin Threads
  /\ NoBuf \notin Buffers
  /\ Sizes \subseteq 1..(4 * BufWords)
  /\ MapSizes \subseteq Nat
  /\ Confs \cup {Torn} \subseteq ConfWords
  /\ Modes \subseteq Bit
  /\ CanTimeout \in BOOLEAN

VARIABLES
  pc,         \* per thread: the statement it is about to execute
  buf,        \* read: dbuf, the buffer it allocated
  size,       \* read, mmap: the byte count asked for
  arg,        \* RX_USE_BASEBAND: arg
  kbuf,       \* RX_CONF: the configuration being written
  idx,        \* RX_CONF: i, the next register to write
  rxLock,     \* baseband_rx_lock: its owner
  rxEnabled,  \* baseband_rx_enabled
  owner       \* the reader each DMA buffer is allocated to

locals == <<buf, size, arg, kbuf, idx>>
shared == <<rxLock, rxEnabled, owner>>
vars == <<hwVars, pc, locals, shared>>

ReadLocked == {"alignOff", "drainOn", "skidOff", "ovfClear", "drain", "dmaOn",
               "go", "skidOn", "alignOn", "wait", "quietSkid", "quietAlign",
               "unlockRead"}
MuxLocked == {"mux1", "mux2", "mux3", "unlockMux"}
ConfLocked == {"confCopy", "confWrite", "unlockConf"}
Locked == ReadLocked \cup MuxLocked \cup ConfLocked
Labels == Locked \cup
          {"idle", "dmaOff", "base", "length", "lockRead", "copy", "timedOut",
           "lockMux", "lockConf", "mDmaOn", "mBase", "mLen", "mGo", "mWait"}

TypeOK ==
  /\ HwTypeOK
  /\ pc \in [Threads -> Labels]
  /\ buf \in [Threads -> Buffers \cup {NoBuf}]
  /\ size \in [Threads -> Nat]
  /\ arg \in [Threads -> Bit]
  /\ kbuf \in [Threads -> ConfWords]
  /\ idx \in [Threads -> ConfRegs]
  /\ rxLock \in Threads \cup {NoThread}
  /\ rxEnabled \in BOOLEAN
  /\ owner \in [Buffers -> Threads \cup {NoThread}]

Init ==
  /\ HwInit
  /\ pc = [t \in Threads |-> "idle"]
  /\ buf = [t \in Threads |-> NoBuf]
  /\ size = [t \in Threads |-> 0]
  /\ arg = [t \in Threads |-> 0]
  /\ kbuf = [t \in Threads |-> ResetConf]
  /\ idx = [t \in Threads |-> 0]
  /\ rxLock = NoThread
  /\ rxEnabled = FALSE
  /\ owner = [b \in Buffers |-> NoThread]

----------------------------------------------------------------------------
(* Steps shared by the calls.                                              *)

Goto(t, from, to) == pc[t] = from /\ pc' = [pc EXCEPT ![t] = to]

\* mutex_lock, mutex_unlock
Acquire(t, from, to) ==
  /\ rxLock = NoThread
  /\ Goto(t, from, to)
  /\ rxLock' = t
  /\ UNCHANGED <<hwVars, locals, rxEnabled, owner>>

\* The ioctls return when they unlock: their locals die.
Release(t, from, to) ==
  /\ Goto(t, from, to)
  /\ rxLock' = NoThread
  /\ arg' = [arg EXCEPT ![t] = 0]
  /\ kbuf' = [kbuf EXCEPT ![t] = ResetConf]
  /\ idx' = [idx EXCEPT ![t] = 0]
  /\ UNCHANGED <<hwVars, buf, size, rxEnabled, owner>>

\* One iowrite32 to a control bit.
Write(t, from, to, r, v) ==
  /\ Goto(t, from, to)
  /\ Enable(r, v)
  /\ UNCHANGED <<sel, rxConf, streamHw, dmaHw, locals, shared>>

WriteAligner(t, from, to, v) ==
  /\ Goto(t, from, to)
  /\ AlignerEnable(v)
  /\ UNCHANGED <<sel, rxConf, maxcnt, cnt, skid, skidOvf, chain, dmaHw, locals, shared>>

\* The DMA's stream-to-memory registers.
WriteS2m(t, from, to, field, v) ==
  /\ Goto(t, from, to)
  /\ s2mReg' = [s2mReg EXCEPT ![field] = v]
  /\ UNCHANGED <<ctrlHw, streamHw, s2m, mem, locals, shared>>

StartS2m(t, from, to) ==
  /\ Goto(t, from, to)
  /\ S2mGo
  /\ UNCHANGED <<ctrlHw, streamHw, s2mReg, mem, locals, shared>>

\* A step that only looks.
Skip(t, from, to) == Goto(t, from, to) /\ UNCHANGED <<hwVars, locals, shared>>

\* The mux registers.
WriteSel(t, from, to, r, v) ==
  /\ Goto(t, from, to)
  /\ sel' = [sel EXCEPT ![r] = v]
  /\ UNCHANGED <<reg, rxConf, streamHw, dmaHw, locals, rxLock, owner>>

\* The splitter output a mode leaves, and the one it uses.
LeftOutput(m) == IF m = 1 THEN "BYPASS_SEL" ELSE "BB_SEL"
UsedOutput(m) == IF m = 1 THEN "BB_SEL" ELSE "BYPASS_SEL"

\* One turn of the loop that writes the configuration, up to a last index.
WriteConfUpTo(t, last) ==
  /\ rxConf' = [rxConf EXCEPT ![idx[t]] = kbuf[t]]
  /\ \/ /\ idx[t] < last
        /\ Goto(t, "confWrite", "confWrite")
        /\ idx' = [idx EXCEPT ![t] = @ + 1]
     \/ /\ idx[t] >= last
        /\ Goto(t, "confWrite", "unlockConf")
        /\ UNCHANGED idx
  /\ UNCHANGED <<reg, sel, streamHw, dmaHw, buf, size, arg, kbuf, shared>>

S2mRemaining == s2m.left
SkidCount == Len(skid)

----------------------------------------------------------------------------
(* Slips one could make in the steps below.  Spec uses none of them; the   *)
(* mutation checks put each in the place of the step it resembles, to see  *)
(* that the properties notice.                                             *)

LockReadForgotten(t) == Skip(t, "lockRead", "alignOff")
LockConfForgotten(t) == Skip(t, "lockConf", "confCopy")
LockMuxForgotten(t) == Skip(t, "lockMux", "mux1")
UnlockReadForgotten(t) == Skip(t, "unlockRead", "copy")
UnlockMuxForgotten(t) == Skip(t, "unlockMux", "idle")
DrainedUnchecked(t) == Skip(t, "drain", "dmaOn")
TransferOverUnchecked(t) == Skip(t, "wait", "quietSkid")
AlignerOffInverted(t) == WriteAligner(t, "alignOff", "drainOn", 1)
WriteConfTooFew(t) == WriteConfUpTo(t, NumConfRegs - 2)
WriteConfTooMany(t) == WriteConfUpTo(t, NumConfRegs)

\* The encoding of arg taken for the encoding of the register.
SelectInputAsArg(t) ==
  /\ WriteSel(t, "mux2", "mux3", "STREAM_OUT_SEL", arg[t])
  /\ UNCHANGED rxEnabled

\* The new splitter output enabled first, the old one never disabled.
DisableLeftForgotten(t) ==
  /\ WriteSel(t, "mux1", "mux2", UsedOutput(arg[t]), 0)
  /\ rxEnabled' = (arg[t] = 1)

----------------------------------------------------------------------------
(* baseband_read.                                                          *)

\* dma_alloc_coherent: a free buffer, cleared.
ReadAlloc(t) ==
  /\ t \in Readers
  /\ Goto(t, "idle", "dmaOff")
  /\ \E b \in Buffers, n \in Sizes :
       /\ owner[b] = NoThread
       /\ owner' = [owner EXCEPT ![b] = t]
       /\ buf' = [buf EXCEPT ![t] = b]
       /\ size' = [size EXCEPT ![t] = n]
       /\ mem' = [mem EXCEPT ![b] = [o \in Offsets |-> NoWord]]
  /\ UNCHANGED <<ctrlHw, streamHw, s2mReg, s2m, arg, kbuf, idx, rxLock, rxEnabled>>

\* The DMA is programmed before the lock is taken.
DmaOff(t) == Write(t, "dmaOff", "base", "DMA_EN", 0)
SetBase(t) == WriteS2m(t, "base", "length", "base", buf[t])
SetLength(t) == WriteS2m(t, "length", "lockRead", "len", LengthReg(size[t]))

LockRead(t) == Acquire(t, "lockRead", "alignOff")

AlignerOff(t) == WriteAligner(t, "alignOff", "drainOn", 0)
DrainOn(t) == Write(t, "drainOn", "skidOff", "SKID_DRAIN", 1)
SkidOff(t) == Write(t, "skidOff", "ovfClear", "SKID_EN", 0)

ClearOverflow(t) ==
  /\ Goto(t, "ovfClear", "drain")
  /\ skidOvf' = 0
  /\ UNCHANGED <<ctrlHw, maxcnt, cnt, aligned, skid, chain, dmaHw, locals, shared>>

Drained(t) == SkidCount = 0 /\ Skip(t, "drain", "dmaOn")

DmaOn(t) == Write(t, "dmaOn", "go", "DMA_EN", 1)
Go(t) == StartS2m(t, "go", "skidOn")
SkidOn(t) == Write(t, "skidOn", "alignOn", "SKID_EN", 1)
AlignerOn(t) == WriteAligner(t, "alignOn", "wait", 1)

\* The polling loop: two reads of the remaining count in a row must return
\* 0, which says that it is 0 at the second of them.
TransferOver(t) == S2mRemaining = 0 /\ Skip(t, "wait", "quietSkid")

TransferTimeout(t) ==
  /\ CanTimeout
  /\ S2mRemaining # 0
  /\ Skip(t, "wait", "timedOut")

QuietSkid(t) == Write(t, "quietSkid", "quietAlign", "SKID_EN", 0)
QuietAligner(t) == WriteAligner(t, "quietAlign", "unlockRead", 0)
UnlockRead(t) == Release(t, "unlockRead", "copy")

\* copy_to_user, whose failure only changes the value returned, and
\* dma_free_coherent; a timed-out read jumps straight to the latter.
FreeBuffer(t, from) ==
  /\ Goto(t, from, "idle")
  /\ owner' = [owner EXCEPT ![buf[t]] = NoThread]
  /\ buf' = [buf EXCEPT ![t] = NoBuf]
  /\ size' = [size EXCEPT ![t] = 0]
  /\ UNCHANGED <<hwVars, arg, kbuf, idx, rxLock, rxEnabled>>

CopyAndFree(t) == FreeBuffer(t, "copy")
FreeTimedOut(t) == FreeBuffer(t, "timedOut")

ReadSetup(t) ==
  \/ DmaOff(t) \/ SetBase(t) \/ SetLength(t) \/ LockRead(t)
  \/ AlignerOff(t) \/ DrainOn(t) \/ SkidOff(t) \/ ClearOverflow(t)
  \/ Drained(t) \/ DmaOn(t) \/ Go(t) \/ SkidOn(t) \/ AlignerOn(t)
ReadFinish(t) ==
  \/ TransferOver(t) \/ TransferTimeout(t) \/ QuietSkid(t) \/ QuietAligner(t)
  \/ UnlockRead(t) \/ CopyAndFree(t) \/ FreeTimedOut(t)

----------------------------------------------------------------------------
(* IOCTL_RX_USE_BASEBAND: choose between the bypass and the baseband path. *)

BypassSel == [BYPASS_SEL |-> 0, STREAM_OUT_SEL |-> 1, BB_SEL |-> 1]
BasebandSel == [BYPASS_SEL |-> 1, STREAM_OUT_SEL |-> 0, BB_SEL |-> 0]

UseBaseband(t) ==
  /\ t \in Tuners
  /\ Goto(t, "idle", "lockMux")
  /\ \E m \in Modes : arg' = [arg EXCEPT ![t] = m]
  /\ UNCHANGED <<hwVars, buf, size, kbuf, idx, shared>>

LockMux(t) == Acquire(t, "lockMux", "mux1")

DisableLeft(t) ==
  /\ WriteSel(t, "mux1", "mux2", LeftOutput(arg[t]), 1)
  /\ rxEnabled' = (arg[t] = 1)
SelectInput(t) ==
  /\ WriteSel(t, "mux2", "mux3", "STREAM_OUT_SEL", 1 - arg[t])
  /\ UNCHANGED rxEnabled
EnableUsed(t) ==
  /\ WriteSel(t, "mux3", "unlockMux", UsedOutput(arg[t]), 0)
  /\ UNCHANGED rxEnabled

UnlockMux(t) == Release(t, "unlockMux", "idle")

MuxStep(t) ==
  LockMux(t) \/ DisableLeft(t) \/ SelectInput(t) \/ EnableUsed(t) \/ UnlockMux(t)

----------------------------------------------------------------------------
(* IOCTL_RX_CONF: copy a configuration in and write its registers.         *)

RxConf(t) ==
  /\ t \in Tuners
  /\ Skip(t, "idle", "lockConf")

LockConf(t) == Acquire(t, "lockConf", "confCopy")

\* The result of copy_from_user is not looked at: after a fault the buffer
\* holds what was copied before it, followed by zeros.
CopyConf(t) ==
  /\ Goto(t, "confCopy", "confWrite")
  /\ \E c \in Confs \cup {Torn} : kbuf' = [kbuf EXCEPT ![t] = c]
  /\ UNCHANGED <<hwVars, buf, size, arg, idx, shared>>

WriteConf(t) == WriteConfUpTo(t, NumConfRegs - 1)

UnlockConf(t) == Release(t, "unlockConf", "idle")

ConfStep(t) == LockConf(t) \/ CopyConf(t) \/ WriteConf(t) \/ UnlockConf(t)

----------------------------------------------------------------------------
(* The receive ioctls that take no lock: one register write each.          *)

AlignerEn(t, v) == WriteAligner(t, "idle", "idle", v)
CntPassthrough(t, v) == Write(t, "idle", "idle", "CNTPASSTHROUGH", v)

SetMaxCnt(t) ==
  /\ Goto(t, "idle", "idle")
  /\ maxcnt' \in MaxCnts
  /\ UNCHANGED <<ctrlHw, cnt, aligned, skid, skidOvf, chain, dmaHw, locals, shared>>

SetOverflow(t, v) ==
  /\ Goto(t, "idle", "idle")
  /\ skidOvf' = v
  /\ UNCHANGED <<ctrlHw, maxcnt, cnt, aligned, skid, chain, dmaHw, locals, shared>>

Poke(t) ==
  /\ t \in Pokers
  /\ \/ \E v \in Bit : AlignerEn(t, v) \/ CntPassthrough(t, v) \/ SetOverflow(t, v)
     \/ SetMaxCnt(t)

----------------------------------------------------------------------------
(* baseband_mmap: a transfer to kmalloc'ed memory, without the lock and    *)
(* with the buffer's virtual address in the base register.                 *)

MmapAlloc(t) ==
  /\ t \in Mappers
  /\ Goto(t, "idle", "mDmaOn")
  /\ \E n \in MapSizes : size' = [size EXCEPT ![t] = n]
  /\ UNCHANGED <<hwVars, buf, arg, kbuf, idx, shared>>

MapDmaOn(t) == Write(t, "mDmaOn", "mBase", "DMA_EN", 1)
MapBase(t) == WriteS2m(t, "mBase", "mLen", "base", KernelVirt)
MapLength(t) == WriteS2m(t, "mLen", "mGo", "len", (size[t] \div 4 + LenMod - 1) % LenMod)
MapGo(t) == StartS2m(t, "mGo", "mWait")

\* The loop polls a bounded number of times, then goes on as if the
\* transfer were over.
MapReturn(t) ==
  /\ Goto(t, "mWait", "idle")
  /\ size' = [size EXCEPT ![t] = 0]
  /\ UNCHANGED <<hwVars, buf, arg, kbuf, idx, shared>>

MapStep(t) == MapDmaOn(t) \/ MapBase(t) \/ MapLength(t) \/ MapGo(t) \/ MapReturn(t)

----------------------------------------------------------------------------
Begin(t) == ReadAlloc(t) \/ UseBaseband(t) \/ RxConf(t) \/ MmapAlloc(t)
InCall(t) == ReadSetup(t) \/ ReadFinish(t) \/ MuxStep(t) \/ ConfStep(t) \/ MapStep(t)
Thread(t) == Begin(t) \/ InCall(t) \/ Poke(t)

Hardware == HwNext /\ UNCHANGED <<pc, locals, shared>>

Next == Hardware \/ \E t \in Threads : Thread(t)

Spec == Init /\ [][Next]_vars

\* The hardware keeps working, the scheduler runs every thread that is in a
\* call, and a mutex handed around for ever reaches every waiter (the waiters
\* of a kernel mutex are queued, and the lock is handed to the first).
Fairness ==
  /\ WF_vars(Hardware /\ SampleIn)
  /\ WF_vars(Hardware /\ SkidDrain)
  /\ WF_vars(Hardware /\ (DmaFromSkid \/ DmaFromChain))
  /\ \A t \in Threads :
       /\ WF_vars(InCall(t))
       /\ SF_vars(LockRead(t) \/ LockMux(t) \/ LockConf(t))

FairSpec == Spec /\ Fairness
----------------------------------------------------------------------------
(* Safety.                                                                 *)

\* A thread between mutex_lock and mutex_unlock owns baseband_rx_lock, so
\* no two threads are there together.
HoldsLock == \A t \in Threads : pc[t] \in Locked => rxLock = t

\* No call returns to user space still owning baseband_rx_lock.
LockReleased == \A t \in Threads : pc[t] = "idle" => rxLock # t

\* Outside an RX_CONF call the eleven TIME_RX registers all come from one
\* call (or from reset): two concurrent calls never mix.
ConfWhole ==
  (\A t \in Threads : pc[t] # "confWrite") =>
    \E w \in ConfWords : rxConf = [i \in ConfRegs |-> w]

\* When the lock is free the two muxes and baseband_rx_enabled describe the
\* same path.
MuxAgree ==
  rxLock = NoThread =>
    IF rxEnabled THEN sel = BasebandSel ELSE sel \in {BypassSel, ResetSel}

\* Switching paths breaks before it makes: the input mux never flips while
\* the splitter still feeds the path it leaves, and the splitter starts to
\* feed a path only when the input mux takes it and the other one is off.
BreakBeforeMakeStep ==
  /\ sel'.STREAM_OUT_SEL # sel.STREAM_OUT_SEL =>
       sel'[LeftOutput(1 - sel'.STREAM_OUT_SEL)] = 1
  /\ \A m \in Bit :
       sel[UsedOutput(m)] = 1 /\ sel'[UsedOutput(m)] = 0 =>
         sel'.STREAM_OUT_SEL = 1 - m /\ sel'[LeftOutput(m)] = 1
BreakBeforeMake == [][BreakBeforeMakeStep]_vars

\* While a read captures samples under the lock, neither the path nor the
\* receiver's configuration changes under it.
QuietCaptureStep ==
  \A t \in Threads :
    pc[t] \in ReadLocked /\ pc'[t] \in ReadLocked =>
      UNCHANGED <<sel, rxConf, rxEnabled>>
QuietCapture == [][QuietCaptureStep]_vars

----------------------------------------------------------------------------
(* What a capture returns.                                                 *)

\* A read about to copy its buffer out finds every word of it written by
\* the DMA.
CaptureComplete ==
  \A t \in Threads :
    pc[t] = "copy" => \A i \in 0..(WordsOf(size[t]) - 1) : mem[buf[t]][i] # NoWord

\* When the transfer of a read on the bypass path is over, and unless the
\* skid buffer reports an overflow, the words in memory are the samples that
\* follow an aligner count of 0, in order, without a gap, whatever was
\* captured before and on whichever path (sw/baseband_test.c: s2m[i] ==
\* i % maxcnt).
CaptureAligned ==
  \A t \in Threads :
    pc[t] \in {"quietSkid", "quietAlign", "unlockRead"}
      /\ sel.STREAM_OUT_SEL = 1 /\ skidOvf = 0 =>
        \A i \in 0..(WordsOf(size[t]) - 1) : mem[buf[t]][i] = i % maxcnt

\* A transfer in progress never points at memory that was freed, and never
\* past the end of the buffer it points at.
NoDanglingDma ==
  s2m.left > 0 /\ s2m.base \in Buffers =>
    /\ owner[s2m.base] # NoThread
    /\ 4 * (s2m.off + s2m.left) < size[owner[s2m.base]] + 4

\* Every call that takes the lock or waits for the DMA returns.
CallsReturn == \A t \in Threads : pc[t] # "idle" ~> pc[t] = "idle"

----------------------------------------------------------------------------
(* The driver implements RxService.  A change of path takes effect where   *)
(* the first mux register is written, a configuration where its first      *)
(* register is; the lock's owner completes either before anybody can tell. *)

PathOf(m) == IF m = 1 THEN "baseband" ELSE "bypass"

MidMux == \E t \in Threads : rxLock = t /\ pc[t] = "mux2"
MidConf == \E t \in Threads : rxLock = t /\ pc[t] = "confWrite" /\ idx[t] > 0

absPath == PathOf(IF MidMux THEN arg[rxLock] ELSE 1 - sel.STREAM_OUT_SEL)
absConf == IF MidConf THEN [i \in ConfRegs |-> kbuf[rxLock]] ELSE rxConf
absCapturing ==
  IF rxLock # NoThread /\ pc[rxLock] \notin MuxLocked \cup ConfLocked
  THEN rxLock ELSE NoThread

Service == INSTANCE RxService WITH
  Users <- Threads, Nobody <- NoThread, Paths <- {"bypass", "baseband"},
  Regs <- ConfRegs, Words <- ConfWords,
  path <- absPath, conf <- absConf, capturing <- absCapturing

ServiceSpec == Service!Spec
============================================================================
