-------------------------- MODULE RxServiceProofs --------------------------
(***************************************************************************)
(* BasebandDriver implements RxService: initial states map to initial      *)
(* states, and every step to a step of the service or to a stutter.        *)
(***************************************************************************)
EXTENDS BasebandDriverProofs

USE HardwareAssumption, DriverAssumption DEF HardwareAssumption, DriverAssumption

\* A step that keeps these keeps the whole abstract state.
LEMMA SameAbstract ==
  ASSUME absPath' = absPath, absConf' = absConf, absCapturing' = absCapturing
  PROVE  UNCHANGED Service!vars
BY DEF Service!vars

LEMMA InitService == Init => Service!Init
<1> SUFFICES ASSUME Init PROVE Service!Init OBVIOUS
<1>1. ~MidMux /\ ~MidConf /\ absCapturing = NoThread
  BY DEF Init, MidMux, MidConf, absCapturing
<1>2. absPath \in {"bypass", "baseband"}
  BY DEF absPath, PathOf
<1>3. absConf \in {[r \in ConfRegs |-> w] : w \in ConfWords}
  BY <1>1 DEF absConf, Init, HwInit
<1> QED BY <1>1, <1>2, <1>3 DEF Service!Init

\* A step that moves none of what the mapping looks at.
LEMMA StepKept ==
  ASSUME IInv, NEW t \in Threads, Thread(t), rxLock' = rxLock,
         UNCHANGED <<sel, rxConf>>,
         pc[t] \notin MuxLocked \cup ConfLocked \/ rxLock # t,
         pc'[t] \notin MuxLocked \cup ConfLocked \/ rxLock # t
  PROVE  UNCHANGED Service!vars
<1> USE DEF IInv, TypeInv
<1>1. CASE rxLock = NoThread
  <2>1. ~MidMux /\ ~MidConf /\ absCapturing = NoThread
    BY <1>1 DEF MidMux, MidConf, absCapturing
  <2>2. ~MidMux' /\ ~MidConf' /\ absCapturing' = NoThread
    BY <1>1 DEF MidMux, MidConf, absCapturing
  <2> QED BY <2>1, <2>2, SameAbstract DEF absPath, absConf
<1>2. CASE rxLock = t
  <2>1. ~MidMux /\ ~MidConf /\ absCapturing = t
    BY <1>2 DEF MidMux, MidConf, absCapturing, MuxLocked, ConfLocked
  <2>2. ~MidMux' /\ ~MidConf' /\ absCapturing' = t
    BY <1>2 DEF MidMux, MidConf, absCapturing, MuxLocked, ConfLocked
  <2> QED BY <2>1, <2>2, SameAbstract DEF absPath, absConf
<1>3. CASE rxLock \notin {t, NoThread}
  <2>1. rxLock \in Threads /\ rxLock # t
    BY <1>3 DEF TypeOK
  <2>2. /\ pc'[rxLock] = pc[rxLock]
        /\ arg'[rxLock] = arg[rxLock]
        /\ kbuf'[rxLock] = kbuf[rxLock]
        /\ idx'[rxLock] = idx[rxLock]
    BY <2>1, OthersKeep
  <2>3. (MidMux' <=> MidMux) /\ (MidConf' <=> MidConf) /\ absCapturing' = absCapturing
    BY <2>2 DEF MidMux, MidConf, absCapturing
  <2> QED BY <2>2, <2>3, SameAbstract DEF absPath, absConf
<1> QED BY <1>1, <1>2, <1>3

----------------------------------------------------------------------------
(* Steps that take or drop the lock.                                       *)

LEMMA LockStep ==
  ASSUME IInv, NEW t \in Threads, LockRead(t) \/ LockMux(t) \/ LockConf(t)
  PROVE  [Service!Next]_(Service!vars)
<1> USE DEF IInv, TypeInv, LockRead, LockMux, LockConf, Acquire, Goto, TypeOK
<1>1. /\ rxLock = NoThread /\ rxLock' = t /\ t # NoThread
      /\ UNCHANGED <<sel, rxConf>>
      /\ pc'[t] \notin {"mux2", "confWrite"}
  BY DEF hwVars, ctrlHw
<1>2. ~MidMux /\ ~MidConf /\ absCapturing = NoThread /\ ~MidMux' /\ ~MidConf'
  BY <1>1 DEF MidMux, MidConf, absCapturing
<1>3. absPath' = absPath /\ absConf' = absConf
  BY <1>1, <1>2 DEF absPath, absConf
<1>4. CASE LockRead(t)
  <2>1. absCapturing' = t
    BY <1>1, <1>4 DEF absCapturing, MuxLocked, ConfLocked
  <2> QED BY <1>2, <1>3, <2>1 DEF Service!Next, Service!StartCapture
<1>5. CASE LockMux(t) \/ LockConf(t)
  <2>1. absCapturing' = NoThread
    BY <1>1, <1>5 DEF absCapturing, MuxLocked, ConfLocked
  <2> QED BY <1>2, <1>3, <2>1, SameAbstract
<1> QED BY <1>4, <1>5

LEMMA UnlockStep ==
  ASSUME IInv, NEW t \in Threads, UnlockRead(t) \/ UnlockMux(t) \/ UnlockConf(t)
  PROVE  [Service!Next]_(Service!vars)
<1> USE DEF IInv, TypeInv, UnlockRead, UnlockMux, UnlockConf, Release, Goto, TypeOK
<1>1. /\ pc[t] \in {"unlockRead", "unlockMux", "unlockConf"}
      /\ rxLock' = NoThread
      /\ UNCHANGED <<sel, rxConf>>
  BY DEF hwVars, ctrlHw
<1>2. rxLock = t
  BY <1>1 DEF HoldsLock, Locked, ReadLocked, MuxLocked, ConfLocked
<1>3. ~MidMux /\ ~MidConf /\ ~MidMux' /\ ~MidConf' /\ absCapturing' = NoThread
  BY <1>1, <1>2 DEF MidMux, MidConf, absCapturing
<1>4. absPath' = absPath /\ absConf' = absConf
  BY <1>1, <1>3 DEF absPath, absConf
<1> QED BY <1>3, <1>4 DEF Service!Next, Service!EndCapture

----------------------------------------------------------------------------
(* Steps of RX_USE_BASEBAND and RX_CONF under the lock.                    *)

LEMMA MuxWriteStep ==
  ASSUME IInv, NEW t \in Threads, DisableLeft(t) \/ SelectInput(t) \/ EnableUsed(t)
  PROVE  [Service!Next]_(Service!vars)
<1> USE DEF IInv, TypeInv, DisableLeft, SelectInput, EnableUsed, WriteSel, Goto, TypeOK, HwTypeOK
<1>1. /\ pc[t] \in MuxLocked /\ pc'[t] \in MuxLocked
      /\ UNCHANGED <<rxConf, rxLock, arg>>
  BY DEF MuxLocked, locals
<1>2. rxLock = t
  BY <1>1 DEF HoldsLock, Locked
<1>3. ~MidConf /\ ~MidConf' /\ absCapturing = NoThread /\ absCapturing' = NoThread
  BY <1>1, <1>2 DEF MidConf, absCapturing, MuxLocked
<1>4. absConf' = absConf
  BY <1>1, <1>3 DEF absConf
<1>5. (MidMux <=> pc[t] = "mux2") /\ (MidMux' <=> pc'[t] = "mux2")
  BY <1>1, <1>2 DEF MidMux
<1>6. arg[t] \in Bit /\ sel \in [SelRegs -> Bit]
  OBVIOUS
<1>7. CASE DisableLeft(t)
  <2>1. absPath' = PathOf(arg[t])
    BY <1>1, <1>2, <1>5, <1>7 DEF absPath
  <2>2. PathOf(arg[t]) \in {"bypass", "baseband"}
    BY DEF PathOf
  <2> QED BY <1>3, <1>4, <2>1, <2>2 DEF Service!Next, Service!SetPath
<1>8. CASE SelectInput(t)
  <2>1. absPath = PathOf(arg[t])
    BY <1>2, <1>5, <1>8 DEF absPath
  <2>2. absPath' = PathOf(1 - sel'.STREAM_OUT_SEL)
    BY <1>5, <1>8 DEF absPath
  <2>3. 1 - sel'.STREAM_OUT_SEL = arg[t]
    BY <1>6, <1>8 DEF SelRegs, Bit
  <2> QED BY <1>3, <1>4, <2>1, <2>2, <2>3, SameAbstract
<1>9. CASE EnableUsed(t)
  <2>1. sel'.STREAM_OUT_SEL = sel.STREAM_OUT_SEL
    BY <1>6, <1>9 DEF UsedOutput, SelRegs
  <2>2. ~MidMux /\ ~MidMux'
    BY <1>5, <1>9
  <2> QED BY <1>3, <1>4, <2>1, <2>2, SameAbstract DEF absPath
<1> QED BY <1>7, <1>8, <1>9

LEMMA ConfWriteStep ==
  ASSUME IInv, NEW t \in Threads, CopyConf(t) \/ WriteConf(t)
  PROVE  [Service!Next]_(Service!vars)
<1> USE DEF IInv, TypeInv, CopyConf, WriteConf, WriteConfUpTo, Goto, TypeOK
<1>1. /\ pc[t] \in ConfLocked /\ pc'[t] \in ConfLocked
      /\ UNCHANGED <<sel, rxLock>>
  BY DEF ConfLocked, hwVars, ctrlHw, shared
<1>2. rxLock = t
  BY <1>1 DEF HoldsLock, Locked
<1>3. ~MidMux /\ ~MidMux' /\ absCapturing = NoThread /\ absCapturing' = NoThread
  BY <1>1, <1>2 DEF MidMux, absCapturing, ConfLocked
<1>4. absPath' = absPath
  BY <1>1, <1>3 DEF absPath
<1>5. /\ MidConf <=> pc[t] = "confWrite" /\ idx[t] > 0
      /\ MidConf' <=> pc'[t] = "confWrite" /\ idx'[t] > 0
  BY <1>1, <1>2 DEF MidConf
<1>6. CASE CopyConf(t)
  <2>1. ~MidConf /\ ~MidConf' /\ rxConf' = rxConf
    BY <1>5, <1>6 DEF ConfInv, ConfPhase, hwVars, ctrlHw
  <2> QED BY <1>3, <1>4, <2>1, SameAbstract DEF absConf
<1>7. CASE WriteConf(t)
  <2>1. kbuf[t] \in ConfWords /\ kbuf' = kbuf /\ pc[t] = "confWrite" /\ idx[t] \in Nat
    BY <1>7 DEF ConfRegs
  <2>2. absConf' = [i \in ConfRegs |-> kbuf[t]]
    <3>1. CASE pc'[t] = "confWrite"
      <4>1. idx'[t] = idx[t] + 1
        BY <1>7, <3>1
      <4> QED BY <1>1, <1>2, <1>5, <2>1, <3>1, <4>1 DEF absConf
    <3>2. CASE pc'[t] # "confWrite"
      BY <1>5, <1>7, <3>2, LastWrite DEF absConf
    <3> QED BY <3>1, <3>2
  <2> QED BY <1>3, <1>4, <2>1, <2>2 DEF Service!Next, Service!Configure
<1> QED BY <1>6, <1>7

----------------------------------------------------------------------------
(* All the other steps are invisible to the users of the service.          *)

Visible(t) ==
  \/ LockRead(t) \/ LockMux(t) \/ LockConf(t)
  \/ UnlockRead(t) \/ UnlockMux(t) \/ UnlockConf(t)
  \/ DisableLeft(t) \/ SelectInput(t) \/ EnableUsed(t)
  \/ CopyConf(t) \/ WriteConf(t)

LEMMA Invisible ==
  ASSUME TypeOK, NEW t \in Threads, Thread(t), ~Visible(t)
  PROVE  /\ UNCHANGED <<sel, rxConf, rxLock>>
         /\ pc[t] \notin MuxLocked \cup ConfLocked
         /\ pc'[t] \notin MuxLocked \cup ConfLocked
<1> USE DEF TypeOK, Goto, hwVars, ctrlHw, shared, Write, WriteAligner, WriteS2m,
            StartS2m, Skip, MuxLocked, ConfLocked
<1>1. CASE ReadAlloc(t)
  BY <1>1 DEF ReadAlloc
<1>2. CASE ReadSetup(t)
  BY <1>2 DEF ReadSetup, DmaOff, SetBase, SetLength, AlignerOff, DrainOn, Visible,
              SkidOff, ClearOverflow, Drained, DmaOn, Go, SkidOn, AlignerOn
<1>3. CASE ReadFinish(t)
  BY <1>3 DEF ReadFinish, TransferOver, TransferTimeout, QuietSkid, QuietAligner,
              CopyAndFree, FreeTimedOut, FreeBuffer, Visible
<1>4. CASE UseBaseband(t) \/ MuxStep(t)
  BY <1>4 DEF UseBaseband, MuxStep, Visible
<1>5. CASE RxConf(t) \/ ConfStep(t)
  BY <1>5 DEF RxConf, ConfStep, Visible
<1>6. CASE MmapAlloc(t) \/ MapStep(t)
  BY <1>6 DEF MmapAlloc, MapStep, MapDmaOn, MapBase, MapLength, MapGo, MapReturn
<1>7. CASE Poke(t)
  BY <1>7 DEF Poke, AlignerEn, CntPassthrough, SetOverflow, SetMaxCnt
<1> QED BY <1>1, <1>2, <1>3, <1>4, <1>5, <1>6, <1>7 DEF Thread, Begin, InCall

LEMMA NextService == IInv /\ [Next]_vars => [Service!Next]_(Service!vars)
<1> SUFFICES ASSUME IInv, [Next]_vars PROVE [Service!Next]_(Service!vars) OBVIOUS
<1>1. ASSUME UNCHANGED <<sel, rxConf, pc, rxLock, arg, kbuf, idx>>
      PROVE  UNCHANGED Service!vars
  <2>1. (MidMux' <=> MidMux) /\ (MidConf' <=> MidConf) /\ absCapturing' = absCapturing
    BY <1>1 DEF MidMux, MidConf, absCapturing
  <2> QED BY <1>1, <2>1, SameAbstract DEF absPath, absConf
<1>2. CASE UNCHANGED vars
  BY <1>1, <1>2 DEF vars, hwVars, ctrlHw, locals, shared
<1>3. CASE Hardware
  BY <1>1, <1>3 DEF Hardware, HwNext, SampleIn, SkidDrain, DmaFromSkid, DmaFromChain,
                    ctrlHw, locals, shared
<1>4. ASSUME NEW t \in Threads, Thread(t) PROVE [Service!Next]_(Service!vars)
  <2>1. CASE Visible(t)
    BY <2>1, LockStep, UnlockStep, MuxWriteStep, ConfWriteStep DEF Visible
  <2>2. CASE ~Visible(t)
    BY <1>4, <2>2, Invisible, StepKept DEF IInv, TypeInv
  <2> QED BY <2>1, <2>2
<1> QED BY <1>2, <1>3, <1>4 DEF Next

\* What the driver promises about its receive path: path and configuration
\* change as a whole, and never under a capture.
THEOREM DriverImplementsService == Spec => ServiceSpec
BY InitService, NextService, SpecIInv, PTL DEF Spec, ServiceSpec, Service!Spec
============================================================================
