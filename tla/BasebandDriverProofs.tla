----------------------- MODULE BasebandDriverProofs -----------------------
(***************************************************************************)
(* Proofs about BasebandDriver, for every set of threads, every buffer and *)
(* configuration space, and any capacity of the queues.                    *)
(***************************************************************************)
EXTENDS BasebandDriver, TLAPS

USE HardwareAssumption, DriverAssumption DEF HardwareAssumption, DriverAssumption

----------------------------------------------------------------------------
(* Types.                                                                  *)

InRead == ReadLocked \cup {"dmaOff", "base", "length", "lockRead", "copy", "timedOut"}

\* A read in progress owns the buffer it works on: no other read has it.
BufferOwned ==
  \A t \in Threads : pc[t] \in InRead => buf[t] \in Buffers /\ owner[buf[t]] = t

TypeInv == TypeOK /\ BufferOwned

\* The length register always holds a natural number.
LEMMA LengthRegNat == ASSUME NEW n \in Nat PROVE LengthReg(n) \in Nat
BY DEF LengthReg, WordsOf

LEMMA GotoType ==
  ASSUME pc \in [Threads -> Labels], NEW t \in Threads,
         NEW from, NEW to \in Labels, Goto(t, from, to)
  PROVE  pc' \in [Threads -> Labels]
BY DEF Goto

LEMMA InitTypeInv == Init => TypeInv
<1> SUFFICES ASSUME Init PROVE TypeInv OBVIOUS
<1>1. HwTypeOK
  <2> USE DEF Init, HwInit
  <2>1. reg \in [EnableRegs -> Bit] /\ sel \in [SelRegs -> Bit]
    BY DEF Bit
  <2>2. /\ rxConf \in [ConfRegs -> ConfWords]
        /\ maxcnt \in MaxCnts
        /\ cnt \in Nat
        /\ skidOvf \in Bit
    BY DEF Bit
  <2>3. skid \in Seq(Nat) /\ chain \in Seq(Nat)
    OBVIOUS
  <2>4. aligned \in BOOLEAN
    OBVIOUS
  <2>5. /\ s2mReg \in [base : Buffers \cup {KernelVirt}, len : Nat]
        /\ s2m \in [base : Buffers \cup {KernelVirt}, off : Nat, left : Nat]
    OBVIOUS
  <2>6. mem \in [Buffers -> [Offsets -> Nat \cup {NoWord}]]
    OBVIOUS
  <2> QED BY <2>1, <2>2, <2>3, <2>4, <2>5, <2>6 DEF HwTypeOK
<1>2. TypeOK
  <2>1. 0 \in ConfRegs
    BY DEF ConfRegs
  <2>2. "idle" \in Labels
    BY DEF Labels
  <2>3. rxEnabled \in BOOLEAN
    BY DEF Init
  <2> QED BY <1>1, <2>1, <2>2, <2>3 DEF Init, TypeOK, Bit
<1>3. BufferOwned
  BY DEF Init, BufferOwned, InRead, ReadLocked
<1> QED BY <1>2, <1>3 DEF TypeInv

\* What a step of the hardware, and each kind of register write, does to the
\* types of the registers.
LEMMA HwNextType == HwTypeOK /\ HwNext => HwTypeOK'
<1> SUFFICES ASSUME HwTypeOK, HwNext PROVE HwTypeOK' OBVIOUS
<1> USE DEF HwTypeOK, ctrlHw, streamHw, dmaHw
<1>1. CASE SampleIn
  <2>1. cnt' \in Nat
    BY <1>1 DEF SampleIn
  <2>3. aligned' \in BOOLEAN
    BY <1>1, Zenon DEF SampleIn, Passes
  <2>2. skid' \in Seq(Nat) /\ chain' \in Seq(Nat) /\ skidOvf' \in Bit
    BY <1>1 DEF SampleIn, Bit
  <2> QED BY <1>1, <2>1, <2>2, <2>3 DEF SampleIn
<1>2. CASE SkidDrain
  <2>1. skid' \in Seq(Nat)
    BY <1>2 DEF SkidDrain
  <2> QED BY <1>2, <2>1 DEF SkidDrain
<1>3. ASSUME NEW w \in Nat, Store(w)
      PROVE  /\ s2m' \in [base : Buffers \cup {KernelVirt}, off : Nat, left : Nat]
             /\ mem' \in [Buffers -> [Offsets -> Nat \cup {NoWord}]]
  BY <1>3 DEF Store
<1>4. CASE DmaFromSkid
  <2>1. skid' \in Seq(Nat) /\ Head(skid) \in Nat
    BY <1>4 DEF DmaFromSkid
  <2> QED BY <1>3, <1>4, <2>1 DEF DmaFromSkid
<1>5. CASE DmaFromChain
  <2>1. chain' \in Seq(Nat) /\ Head(chain) \in Nat
    BY <1>5 DEF DmaFromChain
  <2> QED BY <1>3, <1>5, <2>1 DEF DmaFromChain
<1> QED BY <1>1, <1>2, <1>4, <1>5 DEF HwNext

----------------------------------------------------------------------------
(* One lemma per kind of thread step.                                      *)

LEMMA WriteType ==
  ASSUME TypeOK, NEW t \in Threads, NEW from, NEW to \in Labels,
         NEW r \in EnableRegs, NEW v \in Bit, Write(t, from, to, r, v)
  PROVE  TypeOK'
<1>1. pc' \in [Threads -> Labels]
  BY GotoType DEF Write, TypeOK
<1>2. reg' \in [EnableRegs -> Bit]
  BY DEF Write, Enable, TypeOK, HwTypeOK
<1> QED
  BY <1>1, <1>2 DEF Write, TypeOK, HwTypeOK, streamHw, dmaHw, locals, shared

LEMMA WriteAlignerType ==
  ASSUME TypeOK, NEW t \in Threads, NEW from, NEW to \in Labels,
         NEW v \in Bit, WriteAligner(t, from, to, v)
  PROVE  TypeOK'
<1>1. pc' \in [Threads -> Labels]
  BY GotoType DEF WriteAligner, TypeOK
<1>2. reg' \in [EnableRegs -> Bit]
  BY DEF WriteAligner, AlignerEnable, Enable, EnableRegs, TypeOK, HwTypeOK
<1>3. aligned' \in BOOLEAN
  BY Zenon DEF WriteAligner, AlignerEnable
<1> QED
  BY <1>1, <1>2, <1>3 DEF WriteAligner, TypeOK, HwTypeOK, dmaHw, locals, shared

LEMMA WriteS2mType ==
  ASSUME TypeOK, NEW t \in Threads, NEW from, NEW to \in Labels,
         NEW field \in {"base", "len"}, NEW v,
         field = "base" => v \in Buffers \cup {KernelVirt},
         field = "len" => v \in Nat,
         WriteS2m(t, from, to, field, v)
  PROVE  TypeOK'
<1>1. pc' \in [Threads -> Labels]
  BY GotoType DEF WriteS2m, TypeOK
<1>2. s2mReg' \in [base : Buffers \cup {KernelVirt}, len : Nat]
  BY DEF WriteS2m, TypeOK, HwTypeOK
<1> QED
  BY <1>1, <1>2 DEF WriteS2m, TypeOK, HwTypeOK, ctrlHw, streamHw, locals, shared

LEMMA StartS2mType ==
  ASSUME TypeOK, NEW t \in Threads, NEW from, NEW to \in Labels,
         StartS2m(t, from, to)
  PROVE  TypeOK'
<1>1. pc' \in [Threads -> Labels]
  BY GotoType DEF StartS2m, TypeOK
<1>2. s2m' \in [base : Buffers \cup {KernelVirt}, off : Nat, left : Nat]
  BY DEF StartS2m, S2mGo, TypeOK, HwTypeOK
<1> QED
  BY <1>1, <1>2 DEF StartS2m, TypeOK, HwTypeOK, ctrlHw, streamHw, locals, shared

LEMMA WriteSelType ==
  ASSUME TypeOK, NEW t \in Threads, NEW from, NEW to \in Labels,
         NEW r \in SelRegs, NEW v \in Bit, WriteSel(t, from, to, r, v),
         rxEnabled' \in BOOLEAN
  PROVE  TypeOK'
<1>1. pc' \in [Threads -> Labels]
  BY GotoType DEF WriteSel, TypeOK
<1>2. sel' \in [SelRegs -> Bit]
  BY DEF WriteSel, TypeOK, HwTypeOK
<1> QED
  BY <1>1, <1>2 DEF WriteSel, TypeOK, HwTypeOK, streamHw, dmaHw, locals

LEMMA SkipType ==
  ASSUME TypeOK, NEW t \in Threads, NEW from, NEW to \in Labels, Skip(t, from, to)
  PROVE  TypeOK'
<1>1. pc' \in [Threads -> Labels]
  BY GotoType DEF Skip, TypeOK
<1> QED
  BY <1>1 DEF Skip, TypeOK, HwTypeOK, hwVars, ctrlHw, streamHw, dmaHw, locals, shared

LEMMA AcquireType ==
  ASSUME TypeOK, NEW t \in Threads, NEW from, NEW to \in Labels, Acquire(t, from, to)
  PROVE  TypeOK'
<1>1. pc' \in [Threads -> Labels]
  BY GotoType DEF Acquire, TypeOK
<1> QED
  BY <1>1 DEF Acquire, TypeOK, HwTypeOK, hwVars, ctrlHw, streamHw, dmaHw, locals

LEMMA ReleaseType ==
  ASSUME TypeOK, NEW t \in Threads, NEW from, NEW to \in Labels, Release(t, from, to)
  PROVE  TypeOK'
<1>1. pc' \in [Threads -> Labels]
  BY GotoType DEF Release, TypeOK
<1>2. /\ arg' \in [Threads -> Bit]
      /\ kbuf' \in [Threads -> ConfWords]
      /\ idx' \in [Threads -> ConfRegs]
      /\ rxLock' \in Threads \cup {NoThread}
  BY DEF Release, TypeOK, Bit, ConfRegs
<1> QED
  BY <1>1, <1>2 DEF Release, TypeOK, HwTypeOK, hwVars, ctrlHw, streamHw, dmaHw

LEMMA FreeBufferType ==
  ASSUME TypeOK, NEW t \in Threads, NEW from, buf[t] \in Buffers, FreeBuffer(t, from)
  PROVE  TypeOK'
<1>1. pc' \in [Threads -> Labels]
  BY GotoType DEF FreeBuffer, TypeOK, Labels
<1>2. /\ buf' \in [Threads -> Buffers \cup {NoBuf}]
      /\ size' \in [Threads -> Nat]
      /\ owner' \in [Buffers -> Threads \cup {NoThread}]
  BY DEF FreeBuffer, TypeOK
<1> QED
  BY <1>1, <1>2 DEF FreeBuffer, TypeOK, HwTypeOK, hwVars, ctrlHw, streamHw, dmaHw

LEMMA WriteConfType ==
  ASSUME TypeOK, NEW t \in Threads, WriteConf(t)
  PROVE  TypeOK'
<1> USE DEF WriteConf, WriteConfUpTo
<1>1. pc' \in [Threads -> Labels]
  BY GotoType DEF TypeOK, Labels, Locked, ConfLocked
<1>2. rxConf' \in [ConfRegs -> ConfWords]
  BY DEF TypeOK, HwTypeOK
<1>3. idx' \in [Threads -> ConfRegs]
  BY DEF TypeOK, ConfRegs
<1> QED
  BY <1>1, <1>2, <1>3 DEF TypeOK, HwTypeOK, streamHw, dmaHw, shared

----------------------------------------------------------------------------
(* Every step of every call keeps the types.                               *)

LEMMA ReadType ==
  ASSUME TypeInv, NEW t \in Threads,
         ReadAlloc(t) \/ ReadSetup(t) \/ ReadFinish(t)
  PROVE  TypeOK'
<1> USE DEF TypeInv, Labels, Locked, ReadLocked
<1>0. /\ 0 \in Bit /\ 1 \in Bit
      /\ {"SKID_EN", "SKID_DRAIN", "DMA_EN"} \subseteq EnableRegs
  BY DEF Bit, EnableRegs
<1>1. pc[t] \in {"base", "copy", "timedOut"} => buf[t] \in Buffers
  BY DEF BufferOwned, InRead
<1>2. CASE ReadAlloc(t)
  <2>1. pc' \in [Threads -> Labels]
    BY <1>2, GotoType DEF ReadAlloc, TypeOK
  <2>2. /\ buf' \in [Threads -> Buffers \cup {NoBuf}]
        /\ size' \in [Threads -> Nat]
        /\ owner' \in [Buffers -> Threads \cup {NoThread}]
        /\ mem' \in [Buffers -> [Offsets -> Nat \cup {NoWord}]]
    BY <1>2 DEF ReadAlloc, TypeOK, HwTypeOK
  <2> QED
    BY <1>2, <2>1, <2>2 DEF ReadAlloc, TypeOK, HwTypeOK, ctrlHw, streamHw
<1>3. CASE DmaOff(t)
  BY <1>0, <1>3, WriteType DEF DmaOff
<1>4. CASE SetBase(t)
  <2>1. buf[t] \in Buffers
    BY <1>1, <1>4 DEF SetBase, WriteS2m, Goto
  <2> QED BY <1>4, <2>1, WriteS2mType DEF SetBase
<1>5. CASE SetLength(t)
  <2>1. LengthReg(size[t]) \in Nat
    BY LengthRegNat DEF TypeOK
  <2> QED BY <1>5, <2>1, WriteS2mType DEF SetLength
<1>6. CASE LockRead(t)
  BY <1>6, AcquireType DEF LockRead
<1>7. CASE AlignerOff(t) \/ AlignerOn(t) \/ QuietAligner(t)
  BY <1>0, <1>7, WriteAlignerType DEF AlignerOff, AlignerOn, QuietAligner
<1>8. CASE DrainOn(t) \/ SkidOff(t) \/ DmaOn(t) \/ SkidOn(t) \/ QuietSkid(t)
  BY <1>0, <1>8, WriteType DEF DrainOn, SkidOff, DmaOn, SkidOn, QuietSkid
<1>9. CASE ClearOverflow(t)
  <2>1. pc' \in [Threads -> Labels]
    BY <1>9, GotoType DEF ClearOverflow, TypeOK
  <2> QED
    BY <1>0, <1>9, <2>1
    DEF ClearOverflow, TypeOK, HwTypeOK, ctrlHw, dmaHw, locals, shared
<1>10. CASE Drained(t) \/ TransferOver(t) \/ TransferTimeout(t)
  BY <1>10, SkipType DEF Drained, TransferOver, TransferTimeout
<1>11. CASE Go(t)
  BY <1>11, StartS2mType DEF Go
<1>12. CASE UnlockRead(t)
  BY <1>12, ReleaseType DEF UnlockRead
<1>13. CASE CopyAndFree(t) \/ FreeTimedOut(t)
  <2>1. buf[t] \in Buffers
    BY <1>1, <1>13 DEF CopyAndFree, FreeTimedOut, FreeBuffer, Goto
  <2> QED BY <1>13, <2>1, FreeBufferType DEF CopyAndFree, FreeTimedOut
<1> QED
  BY <1>2, <1>3, <1>4, <1>5, <1>6, <1>7, <1>8, <1>9, <1>10, <1>11, <1>12, <1>13
  DEF ReadSetup, ReadFinish

LEMMA MuxType ==
  ASSUME TypeOK, NEW t \in Threads, UseBaseband(t) \/ MuxStep(t)
  PROVE  TypeOK'
<1> USE DEF Labels, Locked, MuxLocked
<1>1. CASE UseBaseband(t)
  <2>1. pc' \in [Threads -> Labels]
    BY <1>1, GotoType DEF UseBaseband, TypeOK
  <2>2. arg' \in [Threads -> Bit]
    BY <1>1 DEF UseBaseband, TypeOK
  <2> QED
    BY <1>1, <2>1, <2>2
    DEF UseBaseband, TypeOK, HwTypeOK, hwVars, ctrlHw, streamHw, dmaHw, shared
<1>2. CASE LockMux(t)
  BY <1>2, AcquireType DEF LockMux
<1>3. arg[t] \in Bit /\ rxEnabled \in BOOLEAN
  BY DEF TypeOK
<1>4. LeftOutput(arg[t]) \in SelRegs /\ UsedOutput(arg[t]) \in SelRegs
  BY DEF LeftOutput, UsedOutput, SelRegs
<1>5. 0 \in Bit /\ 1 \in Bit /\ 1 - arg[t] \in Bit /\ "STREAM_OUT_SEL" \in SelRegs
  BY <1>3 DEF Bit, SelRegs
<1>6. CASE DisableLeft(t)
  <2>1. rxEnabled' \in BOOLEAN
    BY <1>6, Zenon DEF DisableLeft
  <2> QED BY <1>4, <1>5, <1>6, <2>1, WriteSelType DEF DisableLeft
<1>7. CASE SelectInput(t)
  <2>1. rxEnabled' \in BOOLEAN
    BY <1>3, <1>7 DEF SelectInput
  <2> QED BY <1>5, <1>7, <2>1, WriteSelType DEF SelectInput
<1>8. CASE EnableUsed(t)
  <2>1. rxEnabled' \in BOOLEAN
    BY <1>3, <1>8 DEF EnableUsed
  <2> QED BY <1>4, <1>5, <1>8, <2>1, WriteSelType DEF EnableUsed
<1>9. CASE UnlockMux(t)
  BY <1>9, ReleaseType DEF UnlockMux
<1> QED BY <1>1, <1>2, <1>6, <1>7, <1>8, <1>9 DEF MuxStep

LEMMA ConfType ==
  ASSUME TypeOK, NEW t \in Threads, RxConf(t) \/ ConfStep(t)
  PROVE  TypeOK'
<1> USE DEF Labels, Locked, ConfLocked
<1>1. CASE RxConf(t)
  BY <1>1, SkipType DEF RxConf
<1>2. CASE LockConf(t)
  BY <1>2, AcquireType DEF LockConf
<1>3. CASE CopyConf(t)
  <2>1. pc' \in [Threads -> Labels]
    BY <1>3, GotoType DEF CopyConf, TypeOK
  <2>2. kbuf' \in [Threads -> ConfWords]
    BY <1>3 DEF CopyConf, TypeOK
  <2> QED
    BY <1>3, <2>1, <2>2
    DEF CopyConf, TypeOK, HwTypeOK, hwVars, ctrlHw, streamHw, dmaHw, shared
<1>4. CASE WriteConf(t)
  BY <1>4, WriteConfType
<1>5. CASE UnlockConf(t)
  BY <1>5, ReleaseType DEF UnlockConf
<1> QED BY <1>1, <1>2, <1>3, <1>4, <1>5 DEF ConfStep

LEMMA PokeType ==
  ASSUME TypeOK, NEW t \in Threads, Poke(t)
  PROVE  TypeOK'
<1>1. "idle" \in Labels /\ "CNTPASSTHROUGH" \in EnableRegs
  BY DEF Labels, EnableRegs
<1>2. CASE \E v \in Bit : AlignerEn(t, v)
  BY <1>1, <1>2, WriteAlignerType DEF AlignerEn
<1>3. CASE \E v \in Bit : CntPassthrough(t, v)
  BY <1>1, <1>3, WriteType DEF CntPassthrough
<1>4. CASE \E v \in Bit : SetOverflow(t, v)
  <2>1. pc' \in [Threads -> Labels]
    BY <1>1, <1>4, GotoType DEF SetOverflow, TypeOK
  <2> QED
    BY <1>4, <2>1 DEF SetOverflow, TypeOK, HwTypeOK, ctrlHw, dmaHw, locals, shared
<1>5. CASE SetMaxCnt(t)
  <2>1. pc' \in [Threads -> Labels]
    BY <1>1, <1>5, GotoType DEF SetMaxCnt, TypeOK
  <2> QED
    BY <1>5, <2>1 DEF SetMaxCnt, TypeOK, HwTypeOK, ctrlHw, dmaHw, locals, shared
<1> QED BY <1>2, <1>3, <1>4, <1>5 DEF Poke

LEMMA MapType ==
  ASSUME TypeOK, NEW t \in Threads, MmapAlloc(t) \/ MapStep(t)
  PROVE  TypeOK'
<1> USE DEF Labels
<1>1. CASE MmapAlloc(t)
  <2>1. pc' \in [Threads -> Labels]
    BY <1>1, GotoType DEF MmapAlloc, TypeOK
  <2>2. size' \in [Threads -> Nat]
    BY <1>1 DEF MmapAlloc, TypeOK
  <2> QED
    BY <1>1, <2>1, <2>2
    DEF MmapAlloc, TypeOK, HwTypeOK, hwVars, ctrlHw, streamHw, dmaHw, shared
<1>2. CASE MapDmaOn(t)
  BY <1>2, WriteType DEF MapDmaOn, EnableRegs, Bit
<1>3. CASE MapBase(t)
  BY <1>3, WriteS2mType DEF MapBase
<1>4. CASE MapLength(t)
  <2>1. (size[t] \div 4 + LenMod - 1) % LenMod \in Nat
    BY DEF TypeOK
  <2> QED BY <1>4, <2>1, WriteS2mType DEF MapLength
<1>5. CASE MapGo(t)
  BY <1>5, StartS2mType DEF MapGo
<1>6. CASE MapReturn(t)
  <2>1. pc' \in [Threads -> Labels]
    BY <1>6, GotoType DEF MapReturn, TypeOK
  <2>2. size' \in [Threads -> Nat]
    BY <1>6 DEF MapReturn, TypeOK
  <2> QED
    BY <1>6, <2>1, <2>2
    DEF MapReturn, TypeOK, HwTypeOK, hwVars, ctrlHw, streamHw, dmaHw, shared
<1> QED BY <1>1, <1>2, <1>3, <1>4, <1>5, <1>6 DEF MapStep

LEMMA NextType == TypeInv /\ [Next]_vars => TypeOK'
<1> SUFFICES ASSUME TypeInv, [Next]_vars PROVE TypeOK' OBVIOUS
<1>1. CASE UNCHANGED vars
  BY <1>1
  DEF TypeInv, TypeOK, HwTypeOK, vars, hwVars, ctrlHw, streamHw, dmaHw, locals, shared
<1>2. CASE Hardware
  BY <1>2, HwNextType DEF Hardware, TypeInv, TypeOK, locals, shared
<1>3. ASSUME NEW t \in Threads, Thread(t) PROVE TypeOK'
  BY <1>3, ReadType, MuxType, ConfType, PokeType, MapType
  DEF TypeInv, Thread, Begin, InCall
<1> QED BY <1>1, <1>2, <1>3 DEF Next

----------------------------------------------------------------------------
(* What a thread's step leaves alone, and what it does to the lock.        *)

\* A step of one thread leaves the others where they are.
LEMMA OthersKeep ==
  ASSUME TypeOK, NEW t \in Threads, Thread(t), NEW u \in Threads, u # t
  PROVE  pc'[u] = pc[u] /\ buf'[u] = buf[u] /\ arg'[u] = arg[u]
           /\ kbuf'[u] = kbuf[u] /\ idx'[u] = idx[u]
<1> USE DEF TypeOK, Goto, locals, Write, WriteAligner, WriteS2m, StartS2m, Skip,
            Acquire, Release
<1>1. CASE ReadAlloc(t)
  BY <1>1 DEF ReadAlloc
<1>2. CASE ReadSetup(t)
  BY <1>2 DEF ReadSetup, DmaOff, SetBase, SetLength, LockRead, AlignerOff, DrainOn,
              SkidOff, ClearOverflow, Drained, DmaOn, Go, SkidOn, AlignerOn
<1>3. CASE ReadFinish(t)
  BY <1>3 DEF ReadFinish, TransferOver, TransferTimeout, QuietSkid, QuietAligner,
              UnlockRead, CopyAndFree, FreeTimedOut, FreeBuffer
<1>4. CASE UseBaseband(t) \/ MuxStep(t)
  BY <1>4 DEF UseBaseband, MuxStep, LockMux, DisableLeft, SelectInput, EnableUsed,
              UnlockMux, WriteSel
<1>5. CASE RxConf(t) \/ ConfStep(t)
  BY <1>5 DEF RxConf, ConfStep, LockConf, CopyConf, WriteConf, WriteConfUpTo, UnlockConf
<1>6. CASE MmapAlloc(t) \/ MapStep(t)
  BY <1>6 DEF MmapAlloc, MapStep, MapDmaOn, MapBase, MapLength, MapGo, MapReturn
<1>7. CASE Poke(t)
  BY <1>7 DEF Poke, AlignerEn, CntPassthrough, SetOverflow, SetMaxCnt
<1> QED BY <1>1, <1>2, <1>3, <1>4, <1>5, <1>6, <1>7 DEF Thread, Begin, InCall

\* A thread enters the statements under the lock only by taking the free
\* lock, and gives it up only by leaving them.
TakesLock(t) == rxLock = NoThread /\ rxLock' = t
DropsLock(t) == pc[t] \in Locked /\ pc'[t] \notin Locked /\ rxLock' = NoThread
KeepsLock(t) == rxLock' = rxLock /\ (pc'[t] \in Locked => pc[t] \in Locked)

LEMMA LockEffect ==
  ASSUME TypeOK, NEW t \in Threads, Thread(t)
  PROVE  TakesLock(t) \/ DropsLock(t) \/ KeepsLock(t)
<1> USE DEF TypeOK, Goto, shared, Write, WriteAligner, WriteS2m, StartS2m, Skip,
            Acquire, Release, TakesLock, DropsLock, KeepsLock,
            Locked, ReadLocked, MuxLocked, ConfLocked
<1>1. CASE ReadAlloc(t)
  BY <1>1 DEF ReadAlloc
<1>2. CASE ReadSetup(t)
  BY <1>2 DEF ReadSetup, DmaOff, SetBase, SetLength, LockRead, AlignerOff, DrainOn,
              SkidOff, ClearOverflow, Drained, DmaOn, Go, SkidOn, AlignerOn
<1>3. CASE ReadFinish(t)
  BY <1>3 DEF ReadFinish, TransferOver, TransferTimeout, QuietSkid, QuietAligner,
              UnlockRead, CopyAndFree, FreeTimedOut, FreeBuffer
<1>4. CASE UseBaseband(t) \/ MuxStep(t)
  BY <1>4 DEF UseBaseband, MuxStep, LockMux, DisableLeft, SelectInput, EnableUsed,
              UnlockMux, WriteSel
<1>5. CASE RxConf(t) \/ ConfStep(t)
  BY <1>5 DEF RxConf, ConfStep, LockConf, CopyConf, WriteConf, WriteConfUpTo, UnlockConf
<1>6. CASE MmapAlloc(t) \/ MapStep(t)
  BY <1>6 DEF MmapAlloc, MapStep, MapDmaOn, MapBase, MapLength, MapGo, MapReturn
<1>7. CASE Poke(t)
  BY <1>7 DEF Poke, AlignerEn, CntPassthrough, SetOverflow, SetMaxCnt
<1> QED BY <1>1, <1>2, <1>3, <1>4, <1>5, <1>6, <1>7 DEF Thread, Begin, InCall

LEMMA NextHoldsLock == TypeOK /\ HoldsLock /\ [Next]_vars => HoldsLock'
<1> SUFFICES ASSUME TypeOK, HoldsLock, [Next]_vars PROVE HoldsLock' OBVIOUS
<1>1. CASE UNCHANGED vars
  BY <1>1 DEF HoldsLock, vars, shared
<1>2. CASE Hardware
  BY <1>2 DEF HoldsLock, Hardware, shared
<1>3. ASSUME NEW t \in Threads, Thread(t), NEW u \in Threads, pc'[u] \in Locked
      PROVE  rxLock' = u
  <2>1. CASE u = t
    BY <1>3, <2>1, LockEffect DEF HoldsLock, TakesLock, DropsLock, KeepsLock
  <2>2. CASE u # t
    <3>1. pc[u] \in Locked /\ rxLock = u
      BY <1>3, <2>2, OthersKeep DEF HoldsLock
    <3>2. pc[t] \notin Locked
      BY <2>2, <3>1 DEF HoldsLock
    <3>3. KeepsLock(t)
      BY <1>3, <3>1, <3>2, LockEffect DEF TakesLock, DropsLock
    <3> QED BY <3>1, <3>3 DEF KeepsLock
  <2> QED BY <2>1, <2>2
<1> QED BY <1>1, <1>2, <1>3 DEF Next, HoldsLock

----------------------------------------------------------------------------
(* Buffers.                                                                *)

\* Outside allocation and freeing a step neither hands a buffer out nor
\* starts a read.
LEMMA BuffersKept ==
  ASSUME TypeOK, NEW t \in Threads,
         ReadSetup(t) \/ ReadFinish(t) \/ UseBaseband(t) \/ MuxStep(t)
           \/ RxConf(t) \/ ConfStep(t) \/ MmapAlloc(t) \/ MapStep(t) \/ Poke(t),
         ~CopyAndFree(t), ~FreeTimedOut(t)
  PROVE  UNCHANGED <<buf, owner>> /\ (pc'[t] \in InRead => pc[t] \in InRead)
<1> USE DEF TypeOK, Goto, locals, shared, Write, WriteAligner, WriteS2m, StartS2m,
            Skip, Acquire, Release, InRead, ReadLocked
<1>2. CASE ReadSetup(t)
  BY <1>2 DEF ReadSetup, DmaOff, SetBase, SetLength, LockRead, AlignerOff, DrainOn,
              SkidOff, ClearOverflow, Drained, DmaOn, Go, SkidOn, AlignerOn
<1>3. CASE ReadFinish(t)
  BY <1>3 DEF ReadFinish, TransferOver, TransferTimeout, QuietSkid, QuietAligner,
              UnlockRead
<1>4. CASE UseBaseband(t) \/ MuxStep(t)
  BY <1>4 DEF UseBaseband, MuxStep, LockMux, DisableLeft, SelectInput, EnableUsed,
              UnlockMux, WriteSel
<1>5. CASE RxConf(t) \/ ConfStep(t)
  BY <1>5 DEF RxConf, ConfStep, LockConf, CopyConf, WriteConf, WriteConfUpTo, UnlockConf
<1>6. CASE MmapAlloc(t) \/ MapStep(t)
  BY <1>6 DEF MmapAlloc, MapStep, MapDmaOn, MapBase, MapLength, MapGo, MapReturn
<1>7. CASE Poke(t)
  BY <1>7 DEF Poke, AlignerEn, CntPassthrough, SetOverflow, SetMaxCnt
<1> QED BY <1>2, <1>3, <1>4, <1>5, <1>6, <1>7

LEMMA NextBufferOwned == TypeInv /\ [Next]_vars => BufferOwned'
<1> SUFFICES ASSUME TypeInv, [Next]_vars PROVE BufferOwned' OBVIOUS
<1> USE DEF TypeInv, BufferOwned
<1>1. CASE UNCHANGED vars
  BY <1>1 DEF vars, locals, shared
<1>2. CASE Hardware
  BY <1>2 DEF Hardware, locals, shared
<1>3. ASSUME NEW t \in Threads, Thread(t), NEW u \in Threads, pc'[u] \in InRead
      PROVE  buf'[u] \in Buffers /\ owner'[buf'[u]] = u
  <2> DEFINE Frees == CopyAndFree(t) \/ FreeTimedOut(t)
  <2>1. u # t => buf'[u] \in Buffers /\ owner[buf'[u]] = u /\ u # NoThread
    BY <1>3, OthersKeep
  <2>2. CASE ReadAlloc(t)
    BY <2>1, <2>2 DEF ReadAlloc, Goto, TypeOK
  <2>3. CASE Frees
    <3>1. pc[t] \in InRead /\ pc'[t] \notin InRead
      BY <2>3 DEF CopyAndFree, FreeTimedOut, FreeBuffer, Goto, TypeOK, InRead, ReadLocked
    <3>2. owner' = [owner EXCEPT ![buf[t]] = NoThread]
      BY <2>3 DEF CopyAndFree, FreeTimedOut, FreeBuffer
    <3> QED BY <1>3, <2>1, <3>1, <3>2 DEF TypeOK
  <2>4. CASE ~ReadAlloc(t) /\ ~Frees
    <3>1. UNCHANGED <<buf, owner>> /\ (pc'[t] \in InRead => pc[t] \in InRead)
      BY <1>3, <2>4, BuffersKept DEF Thread, Begin, InCall
    <3> QED BY <1>3, <2>1, <3>1
  <2> QED BY <2>2, <2>3, <2>4
<1> QED BY <1>1, <1>2, <1>3 DEF Next

----------------------------------------------------------------------------
(* The muxes.  While RX_USE_BASEBAND is under way the muxes lag behind     *)
(* baseband_rx_enabled, each statement bringing one more register in line. *)

MuxPhase == {"mux2", "mux3", "unlockMux"}

MuxInv ==
  /\ (\A t \in Threads : pc[t] \notin MuxPhase) =>
       IF rxEnabled THEN sel = BasebandSel ELSE sel \in {BypassSel, ResetSel}
  /\ \A t \in Threads :
       /\ pc[t] \in MuxPhase => rxEnabled = (arg[t] = 1) /\ sel[LeftOutput(arg[t])] = 1
       /\ pc[t] \in {"mux3", "unlockMux"} => sel.STREAM_OUT_SEL = 1 - arg[t]
       /\ pc[t] = "unlockMux" => sel[UsedOutput(arg[t])] = 0

\* Only RX_USE_BASEBAND touches the muxes, and it does so under the lock.
MuxKept(t) ==
  /\ UNCHANGED <<sel, rxEnabled>>
  /\ pc[t] \notin MuxPhase
  /\ pc'[t] \notin MuxPhase

LEMMA MuxEffect ==
  ASSUME TypeOK, NEW t \in Threads, Thread(t)
  PROVE  DisableLeft(t) \/ SelectInput(t) \/ EnableUsed(t) \/ UnlockMux(t) \/ MuxKept(t)
<1> USE DEF TypeOK, Goto, hwVars, ctrlHw, shared, Write, WriteAligner, WriteS2m, StartS2m, Skip,
            Acquire, Release, MuxKept, MuxPhase
<1>1. CASE ReadAlloc(t)
  BY <1>1 DEF ReadAlloc
<1>2. CASE ReadSetup(t)
  BY <1>2 DEF ReadSetup, DmaOff, SetBase, SetLength, LockRead, AlignerOff, DrainOn,
              SkidOff, ClearOverflow, Drained, DmaOn, Go, SkidOn, AlignerOn
<1>3. CASE ReadFinish(t)
  BY <1>3 DEF ReadFinish, TransferOver, TransferTimeout, QuietSkid, QuietAligner,
              UnlockRead, CopyAndFree, FreeTimedOut, FreeBuffer
<1>4. CASE UseBaseband(t) \/ MuxStep(t)
  BY <1>4 DEF UseBaseband, MuxStep, LockMux
<1>5. CASE RxConf(t) \/ ConfStep(t)
  BY <1>5 DEF RxConf, ConfStep, LockConf, CopyConf, WriteConf, WriteConfUpTo, UnlockConf
<1>6. CASE MmapAlloc(t) \/ MapStep(t)
  BY <1>6 DEF MmapAlloc, MapStep, MapDmaOn, MapBase, MapLength, MapGo, MapReturn
<1>7. CASE Poke(t)
  BY <1>7 DEF Poke, AlignerEn, CntPassthrough, SetOverflow, SetMaxCnt
<1> QED BY <1>1, <1>2, <1>3, <1>4, <1>5, <1>6, <1>7 DEF Thread, Begin, InCall

\* The statements a thread executes under the lock exclude each other.
LEMMA OneUnderLock ==
  ASSUME HoldsLock, NEW t \in Threads, NEW u \in Threads,
         pc[t] \in Locked, pc[u] \in Locked
  PROVE  t = u
BY DEF HoldsLock

LEMMA MuxPhaseLocked == MuxPhase \cup {"mux1"} \subseteq Locked
BY DEF MuxPhase, Locked, MuxLocked

LEMMA InitMuxInv == Init => MuxInv
BY DEF Init, HwInit, MuxInv, MuxPhase

LEMMA NextMuxInv == TypeOK /\ HoldsLock /\ MuxInv /\ [Next]_vars => MuxInv'
<1> SUFFICES ASSUME TypeOK, HoldsLock, MuxInv, [Next]_vars PROVE MuxInv' OBVIOUS
<1>1. CASE UNCHANGED vars
  BY <1>1 DEF MuxInv, vars, hwVars, ctrlHw, locals, shared
<1>2. CASE Hardware
  BY <1>2 DEF MuxInv, Hardware, HwNext, SampleIn, SkidDrain, DmaFromSkid, DmaFromChain,
              ctrlHw, locals, shared
<1>3. ASSUME NEW t \in Threads, Thread(t) PROVE MuxInv'
  <2>1. \A u \in Threads : u # t => pc'[u] = pc[u] /\ arg'[u] = arg[u]
    BY <1>3, OthersKeep
  <2>2. pc[t] \in MuxPhase \cup {"mux1"} => \A u \in Threads : u # t => pc[u] \notin MuxPhase
    BY OneUnderLock, MuxPhaseLocked
  <2>3. arg[t] \in Bit
    BY DEF TypeOK
  <2>4. sel \in [SelRegs -> Bit]
    BY DEF TypeOK, HwTypeOK
  <2> USE DEF Goto, TypeOK, WriteSel, locals, LeftOutput, UsedOutput, SelRegs, Bit
  <2>5. CASE DisableLeft(t)
    BY <2>1, <2>2, <2>3, <2>4, <2>5 DEF DisableLeft, MuxInv, MuxPhase
  <2>6. CASE SelectInput(t)
    BY <2>1, <2>2, <2>3, <2>4, <2>6 DEF SelectInput, MuxInv, MuxPhase
  <2>7. CASE EnableUsed(t)
    BY <2>1, <2>2, <2>3, <2>4, <2>7 DEF EnableUsed, MuxInv, MuxPhase
  <2>8. CASE UnlockMux(t)
    <3>1. \A u \in Threads : pc'[u] \notin MuxPhase
      BY <2>1, <2>2, <2>8 DEF UnlockMux, Release, MuxPhase
    <3>2. UNCHANGED <<sel, rxEnabled>>
      BY <2>8 DEF UnlockMux, Release, hwVars, ctrlHw
    <3>3. rxEnabled = (arg[t] = 1) /\ sel[LeftOutput(arg[t])] = 1
            /\ sel.STREAM_OUT_SEL = 1 - arg[t] /\ sel[UsedOutput(arg[t])] = 0
      BY <2>8 DEF UnlockMux, Release, MuxInv, MuxPhase
    <3>4. sel = IF arg[t] = 1 THEN BasebandSel ELSE BypassSel
      BY <2>3, <2>4, <3>3 DEF BasebandSel, BypassSel
    <3> QED BY <2>3, <3>1, <3>2, <3>3, <3>4 DEF MuxInv, MuxPhase
  <2>9. CASE MuxKept(t)
    BY <2>1, <2>9 DEF MuxKept, MuxInv, MuxPhase
  <2> QED BY <1>3, <2>5, <2>6, <2>7, <2>8, <2>9, MuxEffect
<1> QED BY <1>1, <1>2, <1>3 DEF Next

----------------------------------------------------------------------------
(* The configuration.  While RX_CONF is under way the registers below its  *)
(* index hold the new configuration.                                       *)

ConfPhase == {"confWrite", "unlockConf"}

ConfInv ==
  /\ ConfWhole
  /\ \A t \in Threads :
       /\ pc[t] = "confWrite" => \A i \in ConfRegs : i < idx[t] => rxConf[i] = kbuf[t]
       /\ pc[t] \notin ConfPhase => idx[t] = 0

ConfKept(t) ==
  /\ UNCHANGED rxConf
  /\ pc[t] \notin ConfPhase
  /\ pc'[t] \notin ConfPhase
  /\ idx[t] = 0 => idx'[t] = 0

LEMMA ConfEffect ==
  ASSUME TypeOK, NEW t \in Threads, Thread(t)
  PROVE  CopyConf(t) \/ WriteConf(t) \/ UnlockConf(t) \/ ConfKept(t)
<1> USE DEF TypeOK, Goto, hwVars, ctrlHw, locals, shared, Write, WriteAligner, WriteS2m,
            StartS2m, Skip, Acquire, Release, ConfKept, ConfPhase
<1>1. CASE ReadAlloc(t)
  BY <1>1 DEF ReadAlloc
<1>2. CASE ReadSetup(t)
  BY <1>2 DEF ReadSetup, DmaOff, SetBase, SetLength, LockRead, AlignerOff, DrainOn,
              SkidOff, ClearOverflow, Drained, DmaOn, Go, SkidOn, AlignerOn
<1>3. CASE ReadFinish(t)
  BY <1>3 DEF ReadFinish, TransferOver, TransferTimeout, QuietSkid, QuietAligner,
              UnlockRead, CopyAndFree, FreeTimedOut, FreeBuffer
<1>4. CASE UseBaseband(t) \/ MuxStep(t)
  BY <1>4 DEF UseBaseband, MuxStep, LockMux, DisableLeft, SelectInput, EnableUsed,
              UnlockMux, WriteSel
<1>5. CASE RxConf(t) \/ ConfStep(t)
  BY <1>5 DEF RxConf, ConfStep, LockConf
<1>6. CASE MmapAlloc(t) \/ MapStep(t)
  BY <1>6 DEF MmapAlloc, MapStep, MapDmaOn, MapBase, MapLength, MapGo, MapReturn
<1>7. CASE Poke(t)
  BY <1>7 DEF Poke, AlignerEn, CntPassthrough, SetOverflow, SetMaxCnt
<1> QED BY <1>1, <1>2, <1>3, <1>4, <1>5, <1>6, <1>7 DEF Thread, Begin, InCall

LEMMA InitConfInv == Init => ConfInv
BY DEF Init, HwInit, ConfInv, ConfWhole

\* The last write of an RX_CONF call makes all registers those of the call.
LEMMA LastWrite ==
  ASSUME TypeOK, ConfInv, NEW t \in Threads, WriteConf(t), pc'[t] # "confWrite"
  PROVE  rxConf' = [i \in ConfRegs |-> kbuf[t]]
<1>1. idx[t] = NumConfRegs - 1
  BY DEF WriteConf, WriteConfUpTo, Goto, TypeOK, ConfRegs
<1>2. \A i \in ConfRegs : i < idx[t] => rxConf[i] = kbuf[t]
  BY DEF WriteConf, WriteConfUpTo, Goto, ConfInv
<1>3. rxConf' = [rxConf EXCEPT ![idx[t]] = kbuf[t]]
  BY DEF WriteConf, WriteConfUpTo
<1>4. rxConf' \in [ConfRegs -> ConfWords]
  BY WriteConfType DEF TypeOK, HwTypeOK
<1>5. ASSUME NEW i \in ConfRegs PROVE rxConf'[i] = kbuf[t]
  <2>1. CASE i = idx[t]
    BY <1>3, <2>1 DEF TypeOK, HwTypeOK
  <2>2. CASE i # idx[t]
    BY <1>1, <1>2, <1>3, <2>2 DEF TypeOK, HwTypeOK, ConfRegs
  <2> QED BY <2>1, <2>2
<1> QED BY <1>4, <1>5

LEMMA NextConfInv == TypeOK /\ HoldsLock /\ ConfInv /\ [Next]_vars => ConfInv'
<1> SUFFICES ASSUME TypeOK, HoldsLock, ConfInv, [Next]_vars PROVE ConfInv' OBVIOUS
<1>1. CASE UNCHANGED vars
  BY <1>1 DEF ConfInv, ConfWhole, vars, hwVars, ctrlHw, locals, shared
<1>2. CASE Hardware
  BY <1>2 DEF ConfInv, ConfWhole, Hardware, HwNext, SampleIn, SkidDrain, DmaFromSkid,
              DmaFromChain, ctrlHw, locals, shared
<1>3. ASSUME NEW t \in Threads, Thread(t) PROVE ConfInv'
  <2>1. \A u \in Threads :
          u # t => pc'[u] = pc[u] /\ kbuf'[u] = kbuf[u] /\ idx'[u] = idx[u]
    BY <1>3, OthersKeep
  <2>2. CASE CopyConf(t)
    <3>1. pc[t] = "confCopy" /\ pc'[t] = "confWrite" /\ UNCHANGED <<rxConf, idx>>
      BY <2>2 DEF CopyConf, Goto, TypeOK, hwVars, ctrlHw
    <3>2. idx'[t] = 0 /\ \A i \in ConfRegs : ~(i < 0)
      BY <3>1 DEF ConfInv, ConfPhase, ConfRegs
    <3> QED BY <2>1, <3>1, <3>2 DEF ConfInv, ConfWhole, ConfPhase
  <2>3. CASE WriteConf(t)
    <3>1. pc[t] = "confWrite" /\ pc'[t] \in ConfPhase /\ kbuf' = kbuf
      BY <2>3 DEF WriteConf, WriteConfUpTo, Goto, TypeOK, ConfPhase
    <3>2. \A u \in Threads : u # t => pc'[u] # "confWrite"
      BY <2>1, <3>1, OneUnderLock DEF Locked, ConfLocked
    <3>3. ASSUME pc'[t] = "confWrite", NEW i \in ConfRegs, i < idx'[t]
          PROVE  rxConf'[i] = kbuf'[t]
      <4>1. idx'[t] = idx[t] + 1 /\ rxConf' = [rxConf EXCEPT ![idx[t]] = kbuf[t]]
        BY <2>3, <3>3 DEF WriteConf, WriteConfUpTo, Goto, TypeOK
      <4>2. i < idx[t] => rxConf[i] = kbuf[t]
        BY <3>1 DEF ConfInv
      <4> QED BY <3>1, <3>3, <4>1, <4>2 DEF TypeOK, HwTypeOK, ConfRegs
    <3>4. ConfWhole'
      BY <2>3, LastWrite DEF ConfWhole, TypeOK
    <3> QED BY <2>1, <3>1, <3>2, <3>3, <3>4 DEF ConfInv
  <2>4. CASE UnlockConf(t)
    <3>1. pc[t] = "unlockConf" /\ pc'[t] = "idle" /\ idx'[t] = 0 /\ UNCHANGED rxConf
      BY <2>4 DEF UnlockConf, Release, Goto, TypeOK, hwVars, ctrlHw
    <3> QED BY <2>1, <3>1 DEF ConfInv, ConfWhole, ConfPhase
  <2>5. CASE ConfKept(t)
    BY <2>1, <2>5 DEF ConfKept, ConfInv, ConfWhole, ConfPhase
  <2> QED BY <1>3, <2>2, <2>3, <2>4, <2>5, ConfEffect
<1> QED BY <1>1, <1>2, <1>3 DEF Next

----------------------------------------------------------------------------
(* The inductive invariant and the theorems.                               *)

IInv == TypeInv /\ HoldsLock /\ MuxInv /\ ConfInv

LEMMA InitIInv == Init => IInv
<1>1. Init => HoldsLock
  BY DEF Init, HoldsLock, Locked, ReadLocked, MuxLocked, ConfLocked
<1> QED BY <1>1, InitTypeInv, InitMuxInv, InitConfInv DEF IInv

LEMMA NextIInv == IInv /\ [Next]_vars => IInv'
BY NextType, NextBufferOwned, NextHoldsLock, NextMuxInv, NextConfInv DEF IInv, TypeInv

LEMMA SpecIInv == Spec => []IInv
BY InitIInv, NextIInv, PTL DEF Spec

\* Every variable of the driver and of the hardware keeps its type, in
\* particular the DMA is never pointed at a read's buffer that does not exist.
THEOREM TypeCorrect == Spec => []TypeOK
BY SpecIInv, PTL DEF IInv, TypeInv

\* The buffer a read works on is its own until it frees it, timed out or not.
THEOREM BuffersOwned == Spec => []BufferOwned
BY SpecIInv, PTL DEF IInv, TypeInv

\* Mutual exclusion: whoever is between mutex_lock and mutex_unlock owns the
\* lock.
THEOREM LockExcludes == Spec => []HoldsLock
BY SpecIInv, PTL DEF IInv

\* Two RX_CONF calls never mix their registers.
THEOREM ConfigurationWhole == Spec => []ConfWhole
<1>1. IInv => ConfWhole
  BY DEF IInv, ConfInv
<1> QED BY <1>1, SpecIInv, PTL

\* With the lock free the muxes agree with each other and with
\* baseband_rx_enabled.
THEOREM MuxesAgree == Spec => []MuxAgree
<1>1. IInv => MuxAgree
  <2> SUFFICES ASSUME IInv, rxLock = NoThread
               PROVE  IF rxEnabled THEN sel = BasebandSel ELSE sel \in {BypassSel, ResetSel}
    BY DEF MuxAgree
  <2>1. \A t \in Threads : pc[t] \notin MuxPhase
    BY MuxPhaseLocked DEF IInv, HoldsLock
  <2> QED BY <2>1 DEF IInv, MuxInv
<1> QED BY <1>1, SpecIInv, PTL

\* Path switching breaks before it makes, whatever else is going on.
THEOREM SwitchBreaksFirst == Spec => BreakBeforeMake
<1>1. ASSUME IInv, [Next]_vars PROVE [BreakBeforeMakeStep]_vars
  <2> SUFFICES ASSUME Next PROVE BreakBeforeMakeStep
    BY <1>1
  <2> USE DEF BreakBeforeMakeStep
  <2>1. TypeOK /\ MuxInv
    BY <1>1 DEF IInv, TypeInv
  <2>2. ASSUME sel' = sel PROVE BreakBeforeMakeStep
    BY <2>2
  <2>3. CASE Hardware
    BY <2>2, <2>3 DEF Hardware, HwNext, SampleIn, SkidDrain, DmaFromSkid, DmaFromChain,
                      ctrlHw
  <2>4. ASSUME NEW t \in Threads, Thread(t) PROVE BreakBeforeMakeStep
    <3>1. arg[t] \in Bit /\ sel \in [SelRegs -> Bit]
      BY <2>1 DEF TypeOK, HwTypeOK
    <3> USE DEF WriteSel, Goto, LeftOutput, UsedOutput, Bit, SelRegs, MuxPhase
    <3>2. CASE DisableLeft(t)
      BY <2>1, <3>1, <3>2 DEF DisableLeft, MuxInv
    <3>3. CASE SelectInput(t)
      BY <2>1, <3>1, <3>3 DEF SelectInput, MuxInv
    <3>4. CASE EnableUsed(t)
      BY <2>1, <3>1, <3>4 DEF EnableUsed, MuxInv
    <3>5. CASE UnlockMux(t) \/ MuxKept(t)
      BY <2>2, <3>5 DEF UnlockMux, Release, hwVars, ctrlHw, MuxKept
    <3> QED BY <2>1, <2>4, <3>2, <3>3, <3>4, <3>5, MuxEffect
  <2> QED BY <2>3, <2>4 DEF Next
<1> QED BY <1>1, SpecIInv, PTL DEF Spec, BreakBeforeMake

\* The path and the configuration hold still under a capture.
THEOREM CapturesAreQuiet == Spec => QuietCapture
<1>1. ASSUME IInv, [Next]_vars PROVE [QuietCaptureStep]_vars
  <2> SUFFICES ASSUME Next, NEW u \in Threads, pc[u] \in ReadLocked
               PROVE  UNCHANGED <<sel, rxConf, rxEnabled>>
    BY <1>1 DEF QuietCaptureStep
  <2>1. TypeOK /\ HoldsLock
    BY <1>1 DEF IInv, TypeInv
  <2>2. CASE Hardware
    BY <2>2 DEF Hardware, HwNext, SampleIn, SkidDrain, DmaFromSkid, DmaFromChain,
                ctrlHw, shared
  <2>3. ASSUME NEW t \in Threads, Thread(t)
        PROVE  UNCHANGED <<sel, rxConf, rxEnabled>>
    <3>1. pc[t] \notin MuxLocked \cup ConfLocked
      <4> SUFFICES ASSUME pc[t] \in MuxLocked \cup ConfLocked PROVE FALSE
        OBVIOUS
      <4>1. t = u
        BY <2>1, OneUnderLock DEF Locked
      <4> QED BY <4>1 DEF ReadLocked, MuxLocked, ConfLocked
    <3>2. UNCHANGED <<sel, rxEnabled>>
      BY <2>1, <2>3, <3>1, MuxEffect
      DEF DisableLeft, SelectInput, EnableUsed, UnlockMux, WriteSel, Release, Goto,
          MuxKept, MuxLocked
    <3>3. UNCHANGED rxConf
      BY <2>1, <2>3, <3>1, ConfEffect
      DEF CopyConf, WriteConf, WriteConfUpTo, UnlockConf, Release, Goto, ConfKept, ConfLocked
    <3> QED BY <3>2, <3>3
  <2> QED BY <2>2, <2>3 DEF Next
<1> QED BY <1>1, SpecIInv, PTL DEF Spec, QuietCapture
============================================================================
