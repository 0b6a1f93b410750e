--------------------------- MODULE CaptureProofs ---------------------------
(***************************************************************************)
(* Proofs about what a read returns, for a reader that is alone with any   *)
(* number of threads that switch paths and write configurations.           *)
(*                                                                         *)
(* The invariant follows the read from statement to statement: what the    *)
(* DMA's registers hold, which part of the buffer is filled, what waits in *)
(* the skid buffer, and where the aligner's counter stands.                *)
(***************************************************************************)
EXTENDS BasebandDriverProofs, Integers

USE HardwareAssumption, DriverAssumption DEF HardwareAssumption, DriverAssumption

\* What the theorems assume of an instance.  Two readers, a read that times
\* out, or calls that take no lock break them: see the runs two_readers and
\* lock_leak.
NoTimeouts == CanTimeout = FALSE
LoneReader ==
  /\ NoTimeouts
  /\ \A t, u \in Readers : t = u
  /\ Pokers = {}
  /\ Mappers = {}
FitsLength == \A n \in Sizes : WordsOf(n) <= LenMod

----------------------------------------------------------------------------
(* The invariant.                                                          *)

\* Only a thread that holds the lock's critical section owns the lock.
OwnerInv == \A t \in Threads : rxLock = t => pc[t] \in Locked

MapLabels == {"mDmaOn", "mBase", "mLen", "mGo", "mWait"}
BeforeGo == {"alignOff", "drainOn", "skidOff", "ovfClear", "drain", "dmaOn", "go"}
AfterLength == BeforeGo \cup {"lockRead"}
AfterBase == AfterLength \cup {"length"}
Capturing == {"skidOn", "alignOn", "wait"}
Quieting == {"quietSkid", "quietAlign", "unlockRead"}
Captured == Quieting \cup {"copy"}

\* The words of a transfer, as the length register asks for them.
Asked(t) == LengthReg(size[t]) + 1

RolesInv ==
  \A t \in Threads :
    /\ pc[t] \in InRead => t \in Readers /\ size[t] \in Sizes
    /\ pc[t] \notin MapLabels \cup {"timedOut"}

NobodyElses == s2m.left > 0 => \E t \in Threads : pc[t] \in Capturing

DmaInv(t) ==
  /\ pc[t] \in AfterBase => s2mReg.base = buf[t]
  /\ pc[t] \in AfterLength => s2mReg.len = LengthReg(size[t])
  /\ pc[t] \in Capturing =>
       /\ s2m.base = buf[t]
       /\ s2m.off + s2m.left = Asked(t)
       /\ \A i \in 0..(s2m.off - 1) : mem[buf[t]][i] # NoWord
  /\ pc[t] \in Captured => \A i \in 0..(Asked(t) - 1) : mem[buf[t]][i] # NoWord

\* The aligner is off and the skid buffer empty when a capture begins.
QuietInv(t) ==
  /\ pc[t] \in {"drainOn", "skidOff", "ovfClear", "drain", "dmaOn", "go", "skidOn", "alignOn"} =>
       reg.ALIGNER_EN = 0 /\ ~aligned
  /\ pc[t] \in {"ovfClear", "drain", "dmaOn", "go", "skidOn"} => reg.SKID_EN = 0
  /\ pc[t] \in {"alignOn", "wait"} => reg.SKID_EN = 1
  /\ pc[t] = "wait" => reg.ALIGNER_EN = 1
  /\ pc[t] \in {"dmaOn", "go", "skidOn", "alignOn"} => skid = <<>>
  /\ pc[t] \in {"skidOn", "alignOn"} /\ sel.STREAM_OUT_SEL = 1 => s2m.off = 0

\* Words stored, words waiting and the counter of the aligner continue each
\* other.
InLine ==
  /\ \A j \in 1..Len(skid) : skid[j] = (s2m.off + j - 1) % maxcnt
  /\ IF aligned /\ sel.BYPASS_SEL = 0
     THEN cnt = (s2m.off + Len(skid)) % maxcnt
     ELSE s2m.off = 0 /\ skid = <<>>

AlignInv(t) ==
  sel.STREAM_OUT_SEL = 1 /\ skidOvf = 0 =>
    /\ pc[t] = "wait" =>
         InLine /\ \A i \in 0..(s2m.off - 1) : mem[buf[t]][i] = i % maxcnt
    /\ pc[t] \in Quieting => \A i \in 0..(Asked(t) - 1) : mem[buf[t]][i] = i % maxcnt

\* The first invariant is enough for the transfer, the second adds the
\* samples.
TransferInv == IInv /\ RolesInv /\ NobodyElses /\ \A t \in Threads : DmaInv(t)
CaptureInv == TransferInv /\ \A t \in Threads : QuietInv(t) /\ AlignInv(t)

----------------------------------------------------------------------------
(* Arithmetic.                                                             *)

\* A remainder is determined by what it leaves of its multiple.
LEMMA ModUnique ==
  ASSUME NEW m \in Nat \ {0}, NEW k \in Nat, NEW q \in Int, NEW r \in 0..(m - 1),
         k = m * q + r
  PROVE  k % m = r
<1> DEFINE p == k \div m
           s == k % m
<1>1. p \in Int /\ s \in 0..(m - 1) /\ k = m * p + s
  OBVIOUS
<1> HIDE DEF p, s
<1>2. m * p - m * q = m * (p - q)
  BY <1>1
<1>3. CASE p - q >= 1
  <2>1. m * (p - q) >= m
    BY <1>1, <1>3
  <2> QED BY <1>1, <1>2, <2>1
<1>4. CASE p - q <= -1
  <2>1. m * (p - q) <= -m
    BY <1>1, <1>4
  <2> QED BY <1>1, <1>2, <2>1
<1>5. CASE p = q
  BY <1>1, <1>5 DEF s
<1> QED BY <1>1, <1>3, <1>4, <1>5

\* One more than a remainder.
LEMMA ModSucc ==
  ASSUME NEW m \in Nat \ {0}, NEW k \in Nat
  PROVE  ((k % m) + 1) % m = (k + 1) % m
<1> DEFINE q == k \div m
           r == k % m
<1>1. q \in Int /\ r \in 0..(m - 1) /\ k = m * q + r
  OBVIOUS
<1> HIDE DEF q, r
<1>2. CASE r + 1 < m
  <2>1. r + 1 = m * 0 + (r + 1) /\ k + 1 = m * q + (r + 1) /\ r + 1 \in 0..(m - 1)
    BY <1>1, <1>2
  <2>2. (r + 1) % m = r + 1 /\ (k + 1) % m = r + 1
    BY <1>1, <2>1, ModUnique
  <2> QED BY <2>2 DEF r
<1>3. CASE r + 1 = m
  <2>1. m * (q + 1) = m * q + m
    BY <1>1
  <2>2. r + 1 = m * 1 + 0 /\ k + 1 = m * (q + 1) + 0 /\ 0 \in 0..(m - 1)
    BY <1>1, <1>3, <2>1
  <2>3. (r + 1) % m = 0 /\ (k + 1) % m = 0
    BY <1>1, <2>2, ModUnique
  <2> QED BY <2>3 DEF r
<1> QED BY <1>1, <1>2, <1>3

\* A remainder is no larger than the number, and a turn does not change it.
LEMMA ModTurn ==
  ASSUME NEW m \in Nat \ {0}, NEW k \in Nat
  PROVE  (k + m) % m = k % m /\ k % m <= k /\ (k < m => k % m = k)
<1> DEFINE q == k \div m
           r == k % m
<1>1. q \in Int /\ r \in 0..(m - 1) /\ k = m * q + r
  OBVIOUS
<1>2. q >= 0
  <2> HIDE DEF q, r
  <2> SUFFICES ASSUME q <= -1 PROVE FALSE
    BY <1>1
  <2>1. m * q <= -m
    BY <1>1
  <2> QED BY <1>1, <2>1
<1> HIDE DEF q, r
<1>3. m * q >= 0 /\ m * (q + 1) = m * q + m
  BY <1>1, <1>2
<1>4. k + m = m * (q + 1) + r
  BY <1>1, <1>3
<1>5. (k + m) % m = r
  BY <1>1, <1>4, ModUnique
<1>6. k < m => k % m = k
  BY ModUnique, k = m * 0 + k
<1> QED BY <1>1, <1>3, <1>5, <1>6 DEF r

\* A read's transfer fits its buffer, and asks for the whole of it where the
\* length register can hold that.
LEMMA TransferFits ==
  ASSUME NEW n \in Sizes
  PROVE  /\ n \in Nat /\ WordsOf(n) \in Nat /\ LengthReg(n) \in Nat
         /\ LengthReg(n) + 1 <= WordsOf(n)
         /\ WordsOf(n) <= BufWords
         /\ 4 * WordsOf(n) < n + 4
         /\ FitsLength => LengthReg(n) + 1 = WordsOf(n)
<1>1. n \in Nat /\ n >= 1 /\ n <= 4 * BufWords
  OBVIOUS
<1>2. /\ WordsOf(n) \in Nat /\ WordsOf(n) >= 1 /\ WordsOf(n) <= BufWords
      /\ 4 * WordsOf(n) < n + 4
  BY <1>1 DEF WordsOf
<1> DEFINE k == WordsOf(n) - 1
<1>3. k \in Nat /\ WordsOf(n) = k + 1
  BY <1>2
<1>4. LengthReg(n) = (k + LenMod) % LenMod
  <2>1. WordsOf(n) + LenMod - 1 = k + LenMod
    BY <1>3
  <2> QED BY <2>1 DEF LengthReg
<1> HIDE DEF k
<1>5. LengthReg(n) = k % LenMod /\ k % LenMod <= k /\ (k < LenMod => k % LenMod = k)
  BY <1>3, <1>4, ModTurn
<1>6. FitsLength => k < LenMod
  BY <1>3 DEF FitsLength
<1> QED BY <1>1, <1>2, <1>3, <1>5, <1>6, LengthRegNat

----------------------------------------------------------------------------
(* The lock.                                                               *)

\* A thread that owns the lock goes on to the next statement under it or
\* gives it back.
LEMMA UnlocksOnLeaving ==
  ASSUME NoTimeouts, TypeOK, NEW t \in Threads, Thread(t)
  PROVE  pc'[t] \in Locked \/ rxLock' = NoThread \/ (rxLock' = rxLock /\ pc[t] \notin Locked)
<1> USE DEF TypeOK, Goto, shared, Write, WriteAligner, WriteS2m, StartS2m, Skip,
            Acquire, Release, Locked, ReadLocked, MuxLocked, ConfLocked
<1>1. CASE ReadAlloc(t)
  BY <1>1 DEF ReadAlloc
<1>2. CASE ReadSetup(t)
  BY <1>2 DEF ReadSetup, DmaOff, SetBase, SetLength, LockRead, AlignerOff, DrainOn,
              SkidOff, ClearOverflow, Drained, DmaOn, Go, SkidOn, AlignerOn
<1>3. CASE ReadFinish(t)
  BY <1>3 DEF ReadFinish, TransferOver, TransferTimeout, QuietSkid, QuietAligner,
              UnlockRead, CopyAndFree, FreeTimedOut, FreeBuffer, NoTimeouts
<1>4. CASE UseBaseband(t) \/ MuxStep(t)
  BY <1>4 DEF UseBaseband, MuxStep, LockMux, DisableLeft, SelectInput, EnableUsed,
              UnlockMux, WriteSel
<1>5. CASE RxConf(t) \/ ConfStep(t)
  BY <1>5 DEF RxConf, ConfStep, LockConf, CopyConf, WriteConf, WriteConfUpTo, UnlockConf
<1>6. CASE MmapAlloc(t) \/ MapStep(t)
  BY <1>6 DEF MmapAlloc, MapStep, MapDmaOn, MapBase, MapLength, MapGo, MapReturn
<1>7. CASE Poke(t)
  BY <1>7 DEF Poke, AlignerEn, CntPassthrough, SetOverflow, SetMaxCnt
<1> QED BY <1>1, <1>2, <1>3, <1>4, <1>5, <1>6, <1>7 DEF Thread, Begin, InCall

LEMMA NextOwnerInv ==
  ASSUME NoTimeouts
  PROVE  TypeOK /\ OwnerInv /\ [Next]_vars => OwnerInv'
<1> SUFFICES ASSUME TypeOK, OwnerInv, [Next]_vars PROVE OwnerInv' OBVIOUS
<1>1. CASE UNCHANGED vars
  BY <1>1 DEF OwnerInv, vars, shared
<1>2. CASE Hardware
  BY <1>2 DEF OwnerInv, Hardware, shared
<1>3. ASSUME NEW t \in Threads, Thread(t), NEW u \in Threads, rxLock' = u
      PROVE  pc'[u] \in Locked
  <2>1. CASE u = t
    BY <1>3, <2>1, LockEffect, UnlocksOnLeaving
    DEF OwnerInv, TakesLock, DropsLock, KeepsLock
  <2>2. CASE u # t
    BY <1>3, <2>2, LockEffect, OthersKeep DEF OwnerInv, TakesLock, DropsLock, KeepsLock
  <2> QED BY <2>1, <2>2
<1> QED BY <1>1, <1>2, <1>3 DEF Next, OwnerInv

\* Where no read times out, every call gives the lock back before it returns:
\* a timed-out read is the only way to lose it (baseband.c leaves by goto).
THEOREM LockGivenBack ==
  ASSUME NoTimeouts
  PROVE  Spec => []LockReleased
<1>1. Init => OwnerInv
  BY DEF Init, OwnerInv
<1>2. IInv /\ OwnerInv /\ [Next]_vars => (IInv /\ OwnerInv)'
  BY NextIInv, NextOwnerInv DEF IInv, TypeInv
<1>3. OwnerInv => LockReleased
  BY DEF OwnerInv, LockReleased, Locked, ReadLocked, MuxLocked, ConfLocked
<1> QED BY <1>1, <1>2, <1>3, InitIInv, PTL DEF Spec

----------------------------------------------------------------------------
(* With one reader and nobody in mmap() or the lock-free ioctls, a step is *)
(* one of the read's or one that leaves the read's state alone.            *)

ReadStep(t) == ReadAlloc(t) \/ ReadSetup(t) \/ ReadFinish(t)
TuneStep(t) == UseBaseband(t) \/ MuxStep(t) \/ RxConf(t) \/ ConfStep(t)

LEMMA StepKinds ==
  ASSUME LoneReader, RolesInv, NEW t \in Threads, Thread(t)
  PROVE  ReadStep(t) \/ TuneStep(t)
<1>1. ~Poke(t) /\ ~MmapAlloc(t)
  BY DEF LoneReader, Poke, MmapAlloc
<1>2. ~MapStep(t)
  BY DEF RolesInv, MapLabels, MapStep, MapDmaOn, MapBase, MapLength, MapGo, MapReturn,
         Write, WriteS2m, StartS2m, Goto
<1> QED BY <1>1, <1>2 DEF Thread, Begin, InCall, ReadStep, TuneStep

LEMMA TuneFrame ==
  ASSUME TypeOK, NEW t \in Threads, TuneStep(t)
  PROVE  /\ UNCHANGED <<reg, streamHw, dmaHw, buf, size, owner>>
         /\ pc[t] \notin InRead
         /\ pc'[t] \notin InRead \cup MapLabels \cup {"timedOut"}
<1> USE DEF TypeOK, Goto, hwVars, ctrlHw, locals, shared, Skip, Acquire, Release,
            InRead, ReadLocked, MapLabels
<1>1. CASE UseBaseband(t) \/ MuxStep(t)
  BY <1>1 DEF UseBaseband, MuxStep, LockMux, DisableLeft, SelectInput, EnableUsed,
              UnlockMux, WriteSel
<1>2. CASE RxConf(t) \/ ConfStep(t)
  BY <1>2 DEF RxConf, ConfStep, LockConf, CopyConf, WriteConf, WriteConfUpTo, UnlockConf
<1> QED BY <1>1, <1>2 DEF TuneStep

LEMMA ReadFrame ==
  ASSUME NoTimeouts, TypeOK, RolesInv, NEW t \in Threads, ReadStep(t)
  PROVE  /\ UNCHANGED <<sel, maxcnt>>
         /\ \A u \in Threads : u # t => size'[u] = size[u]
         /\ t \in Readers
         /\ pc'[t] \in InRead \cup {"idle"}
         /\ pc'[t] # "timedOut"
         /\ pc'[t] \in InRead => size'[t] \in Sizes
<1> USE DEF TypeOK, RolesInv, Goto, hwVars, ctrlHw, streamHw, locals, Write, WriteAligner,
            WriteS2m, StartS2m, Skip, Acquire, Release, InRead, ReadLocked
<1>1. CASE ReadAlloc(t)
  BY <1>1 DEF ReadAlloc
<1>2. CASE ReadSetup(t)
  BY <1>2 DEF ReadSetup, DmaOff, SetBase, SetLength, LockRead, AlignerOff, DrainOn,
              SkidOff, ClearOverflow, Drained, DmaOn, Go, SkidOn, AlignerOn
<1>3. CASE ReadFinish(t)
  BY <1>3 DEF ReadFinish, TransferOver, TransferTimeout, QuietSkid, QuietAligner,
              UnlockRead, CopyAndFree, FreeTimedOut, FreeBuffer, NoTimeouts
<1> QED BY <1>1, <1>2, <1>3 DEF ReadStep

LEMMA NextRolesInv ==
  ASSUME LoneReader
  PROVE  TypeOK /\ RolesInv /\ [Next]_vars => RolesInv'
<1> SUFFICES ASSUME TypeOK, RolesInv, [Next]_vars PROVE RolesInv' OBVIOUS
<1>1. CASE UNCHANGED vars
  BY <1>1 DEF RolesInv, vars, locals
<1>2. CASE Hardware
  BY <1>2 DEF RolesInv, Hardware, locals
<1>3. ASSUME NEW t \in Threads, Thread(t) PROVE RolesInv'
  <2>1. \A u \in Threads : u # t => pc'[u] = pc[u]
    BY <1>3, OthersKeep
  <2>2. CASE ReadStep(t)
    <3>1. "idle" \notin MapLabels /\ InRead \cap MapLabels = {} /\ "idle" \notin InRead
      BY DEF MapLabels, InRead, ReadLocked
    <3> QED BY <2>1, <2>2, <3>1, ReadFrame DEF RolesInv, LoneReader
  <2>3. CASE TuneStep(t)
    BY <2>1, <2>3, TuneFrame DEF RolesInv
  <2> QED BY <1>3, <2>2, <2>3, StepKinds
<1> QED BY <1>1, <1>2, <1>3 DEF Next

\* No two threads are in a read together.
LEMMA ReaderAlone ==
  ASSUME LoneReader, RolesInv, NEW t \in Threads, NEW u \in Threads,
         pc[t] \in InRead, pc[u] \in InRead
  PROVE  t = u
BY DEF LoneReader, RolesInv

----------------------------------------------------------------------------
(* The transfer.                                                           *)

\* What the read's own statements do to the transfer.
LEMMA ReadDma ==
  ASSUME NoTimeouts, TypeInv, RolesInv, NEW t \in Threads, DmaInv(t), ReadStep(t)
  PROVE  DmaInv(t)'
<1> USE DEF TypeInv, TypeOK, HwTypeOK, Goto, DmaInv, AfterBase, AfterLength, BeforeGo,
            Capturing, Captured, Quieting, Asked, hwVars, dmaHw, locals
<1>1. CASE ReadAlloc(t) \/ DmaOff(t)
  BY <1>1 DEF ReadAlloc, DmaOff, Write
<1>2. CASE SetBase(t) \/ SetLength(t)
  BY <1>2 DEF SetBase, SetLength, WriteS2m
<1>3. CASE LockRead(t) \/ AlignerOff(t) \/ DrainOn(t) \/ SkidOff(t) \/ ClearOverflow(t)
             \/ Drained(t) \/ DmaOn(t)
  BY <1>3 DEF LockRead, Acquire, AlignerOff, WriteAligner, DrainOn, SkidOff, Write,
              ClearOverflow, Drained, Skip, DmaOn
<1>4. CASE Go(t)
  <2>1. LengthReg(size[t]) \in Nat
    BY LengthRegNat
  <2>2. s2mReg.base = buf[t] /\ s2mReg.len = LengthReg(size[t]) /\ pc'[t] = "skidOn"
    BY <1>4 DEF Go, StartS2m
  <2>3. UNCHANGED <<buf, size, mem>>
    BY <1>4 DEF Go, StartS2m
  <2>4. s2m' = [base |-> buf[t], off |-> 0, left |-> LengthReg(size[t]) + 1]
    BY <1>4, <2>2 DEF Go, StartS2m, S2mGo
  <2>5. s2m'.base = buf'[t] /\ s2m'.off = 0 /\ s2m'.off + s2m'.left = Asked(t)'
    BY <2>1, <2>3, <2>4
  <2>6. pc'[t] = "skidOn" /\ UNCHANGED s2mReg
    BY <1>4 DEF Go, StartS2m
  <2> QED BY <2>2, <2>3, <2>5, <2>6
<1>5. CASE SkidOn(t) \/ AlignerOn(t)
  <2>1. pc[t] \in {"skidOn", "alignOn"} /\ pc'[t] \in {"alignOn", "wait"}
    BY <1>5 DEF SkidOn, Write, AlignerOn, WriteAligner
  <2>2. UNCHANGED <<buf, size, mem, s2m, s2mReg>>
    BY <1>5 DEF SkidOn, Write, AlignerOn, WriteAligner
  <2> QED BY <2>1, <2>2
<1>6. CASE TransferOver(t)
  BY <1>6 DEF TransferOver, S2mRemaining, Skip
<1>7. CASE QuietSkid(t) \/ QuietAligner(t) \/ UnlockRead(t)
  BY <1>7 DEF QuietSkid, Write, QuietAligner, WriteAligner, UnlockRead, Release
<1>8. CASE CopyAndFree(t) \/ FreeTimedOut(t) \/ TransferTimeout(t)
  BY <1>8 DEF CopyAndFree, FreeTimedOut, FreeBuffer, TransferTimeout, NoTimeouts
<1> QED BY <1>1, <1>2, <1>3, <1>4, <1>5, <1>6, <1>7, <1>8 DEF ReadStep, ReadSetup, ReadFinish

\* A word the hardware stores belongs to the read that captures.
LEMMA StoreDma ==
  ASSUME LoneReader, TypeInv, RolesInv, NobodyElses, NEW t \in Threads, DmaInv(t),
         NEW w \in Nat, Store(w), UNCHANGED <<pc, locals, s2mReg>>
  PROVE  /\ DmaInv(t)'
         /\ pc[t] \in InRead =>
              /\ pc[t] \in Capturing
              /\ s2m.off \in Offsets
              /\ mem' = [mem EXCEPT ![buf[t]] = [@ EXCEPT ![s2m.off] = w]]
<1> USE DEF TypeInv, TypeOK, HwTypeOK
<1>1. PICK u \in Threads : pc[u] \in Capturing
  BY DEF Store, NobodyElses
<1>2. pc[u] \in InRead
  BY <1>1 DEF Capturing, InRead, ReadLocked
<1>3. CASE pc[t] \notin InRead
  BY <1>3 DEF DmaInv, AfterBase, AfterLength, BeforeGo, Capturing, Captured, Quieting,
              InRead, ReadLocked
<1>4. CASE pc[t] \in InRead
  <2>1. pc[t] \in Capturing
    BY <1>1, <1>2, <1>4, ReaderAlone
  <2>2. size[t] \in Sizes /\ buf[t] \in Buffers /\ s2m.base = buf[t]
        /\ s2m.off + s2m.left = Asked(t)
        /\ \A i \in 0..(s2m.off - 1) : mem[buf[t]][i] # NoWord
    BY <1>4, <2>1 DEF RolesInv, BufferOwned, DmaInv
  <2>3. s2m.off \in Offsets
    BY <2>2, TransferFits DEF Store, Asked, Offsets
  <2>4. mem' = [mem EXCEPT ![buf[t]] = [@ EXCEPT ![s2m.off] = w]]
    BY <2>2, <2>3 DEF Store
  <2>5. s2m' = [base |-> s2m.base, off |-> s2m.off + 1, left |-> s2m.left - 1]
          /\ s2m.left \in Nat /\ s2m.left > 0 /\ s2m.off \in Nat
    BY DEF Store
  <2>6. ASSUME NEW i \in 0..s2m.off PROVE mem'[buf[t]][i] # NoWord
    <3>1. CASE i = s2m.off
      BY <2>2, <2>3, <2>4, <3>1 DEF Offsets
    <3>2. CASE i # s2m.off
      <4>1. i \in 0..(s2m.off - 1)
        BY <2>5, <3>2
      <4>2. /\ mem \in [Buffers -> [Offsets -> Nat \cup {NoWord}]]
            /\ mem'[buf[t]] = [mem[buf[t]] EXCEPT ![s2m.off] = w]
        BY <2>2, <2>4
      <4>3. i \in Offsets
        BY <2>3, <2>5 DEF Offsets
      <4>4. mem'[buf[t]][i] = mem[buf[t]][i]
        BY <2>2, <3>2, <4>2, <4>3
      <4> QED BY <2>2, <4>1, <4>4
    <3> QED BY <3>1, <3>2
  <2>7. s2m'.base = buf[t] /\ s2m'.off = s2m.off + 1 /\ s2m'.off + s2m'.left = Asked(t)
    <3>1. Asked(t) \in Nat
      <4>1. LengthReg(size[t]) \in Nat
        BY LengthRegNat
      <4> QED BY <4>1 DEF Asked
    <3> QED BY <2>2, <2>5, <3>1
  <2>8. \A i \in 0..(s2m'.off - 1) : mem'[buf[t]][i] # NoWord
    BY <2>5, <2>6, <2>7
  <2> QED BY <2>1, <2>3, <2>4, <2>7, <2>8
      DEF DmaInv, AfterBase, AfterLength, BeforeGo, Capturing, Captured, Quieting, Asked, locals
<1> QED BY <1>3, <1>4

\* No step of another thread touches the transfer of a read.
LEMMA OthersDma ==
  ASSUME LoneReader, TypeInv, RolesInv, NEW t \in Threads, NEW u \in Threads, DmaInv(u),
         Thread(t), TuneStep(t) \/ (ReadStep(t) /\ u # t)
  PROVE  DmaInv(u)'
<1>1. pc'[u] \notin InRead \/ (pc'[u] = pc[u] /\ UNCHANGED <<dmaHw, buf, size>>)
  <2>1. CASE TuneStep(t)
    <3>1. CASE u = t
      BY <2>1, <3>1, TuneFrame DEF TypeInv
    <3>2. CASE u # t
      BY <2>1, <3>2, TuneFrame, OthersKeep DEF TypeInv
    <3> QED BY <3>1, <3>2
  <2>2. CASE ReadStep(t) /\ u # t
    BY <2>2, ReadFrame, OthersKeep DEF TypeInv, LoneReader, RolesInv
  <2> QED BY <2>1, <2>2
<1> QED BY <1>1 DEF DmaInv, AfterBase, AfterLength, BeforeGo, Capturing, Captured, Quieting,
                    InRead, ReadLocked, Asked, dmaHw

\* A transfer begins and ends with the statements of a read.
LEMMA NextNobodyElses ==
  ASSUME LoneReader
  PROVE  TypeOK /\ RolesInv /\ NobodyElses /\ [Next]_vars => NobodyElses'
<1> SUFFICES ASSUME TypeOK, RolesInv, NobodyElses, [Next]_vars, s2m'.left > 0
             PROVE  \E u \in Threads : pc'[u] \in Capturing
  BY DEF NobodyElses
<1> USE DEF TypeOK, HwTypeOK
<1>1. CASE UNCHANGED vars
  BY <1>1 DEF NobodyElses, vars, hwVars, dmaHw
<1>2. CASE Hardware
  <2>1. s2m.left > 0
    BY <1>2 DEF Hardware, HwNext, SampleIn, SkidDrain, DmaFromSkid, DmaFromChain, Store, dmaHw
  <2> QED BY <1>2, <2>1 DEF NobodyElses, Hardware
<1>3. ASSUME NEW t \in Threads, Thread(t)
      PROVE  \E u \in Threads : pc'[u] \in Capturing
  <2>1. CASE TuneStep(t)
    <3>1. PICK u \in Threads : pc[u] \in Capturing
      BY <2>1, TuneFrame DEF NobodyElses, dmaHw
    <3>2. u # t
      BY <2>1, <3>1, TuneFrame DEF Capturing, InRead, ReadLocked
    <3> QED BY <1>3, <3>1, <3>2, OthersKeep
  <2>2. CASE ReadStep(t)
    <3>1. CASE Go(t)
      BY <3>1 DEF Go, StartS2m, Goto, Capturing
    <3>2. CASE ~Go(t)
      <4>1. s2m' = s2m
        BY <2>2, <3>2 DEF ReadStep, ReadSetup, ReadFinish, ReadAlloc, DmaOff, SetBase, SetLength,
           LockRead, AlignerOff, DrainOn, SkidOff, ClearOverflow, Drained, DmaOn, SkidOn,
           AlignerOn, TransferOver, TransferTimeout, QuietSkid, QuietAligner, UnlockRead,
           CopyAndFree, FreeTimedOut, FreeBuffer, Write, WriteAligner, WriteS2m, Skip, Acquire,
           Release, hwVars, dmaHw
      <4>2. PICK u \in Threads : pc[u] \in Capturing
        BY <4>1 DEF NobodyElses
      <4>3. CASE u # t
        BY <1>3, <4>2, <4>3, OthersKeep
      <4>4. CASE u = t
        <5>1. pc[t] \in Capturing
          BY <4>2, <4>4
        <5>2. s2m.left > 0
          BY <4>1
        <5> QED
          BY <2>2, <3>2, <5>1, <5>2 DEF ReadStep, ReadSetup, ReadFinish, ReadAlloc, DmaOff, SetBase,
             SetLength, LockRead, AlignerOff, DrainOn, SkidOff, ClearOverflow, Drained, DmaOn,
             SkidOn, AlignerOn, TransferOver, TransferTimeout, QuietSkid, QuietAligner,
             UnlockRead, CopyAndFree, FreeTimedOut, FreeBuffer, Write, WriteAligner, WriteS2m,
             Skip, Acquire, Release, Goto, Capturing, S2mRemaining, LoneReader, NoTimeouts
      <4> QED BY <4>3, <4>4
    <3> QED BY <3>1, <3>2
  <2> QED BY <1>3, <2>1, <2>2, StepKinds
<1> QED BY <1>1, <1>2, <1>3 DEF Next

LEMMA InitTransferInv == Init => TransferInv
<1> SUFFICES ASSUME Init PROVE TransferInv OBVIOUS
<1>1. RolesInv
  BY DEF Init, RolesInv, InRead, ReadLocked, MapLabels
<1>2. NobodyElses
  BY DEF Init, HwInit, NobodyElses
<1>3. \A t \in Threads : DmaInv(t)
  BY DEF Init, DmaInv, AfterBase, AfterLength, BeforeGo, Capturing, Captured, Quieting
<1> QED BY <1>1, <1>2, <1>3, InitIInv DEF TransferInv

LEMMA NextTransferInv ==
  ASSUME LoneReader
  PROVE  TransferInv /\ [Next]_vars => TransferInv'
<1> SUFFICES ASSUME TransferInv, [Next]_vars PROVE TransferInv' OBVIOUS
<1> USE DEF TransferInv
<1>1. TypeInv /\ TypeOK /\ HwTypeOK
  BY DEF IInv, TypeInv, TypeOK
<1>2. IInv' /\ RolesInv' /\ NobodyElses'
  BY <1>1, NextIInv, NextRolesInv, NextNobodyElses
<1>3. ASSUME NEW u \in Threads PROVE DmaInv(u)'
  <2>1. CASE UNCHANGED vars
    BY <2>1 DEF vars, hwVars, dmaHw, locals, DmaInv, Asked
  <2>2. CASE Hardware
    <3>1. UNCHANGED <<pc, locals>>
      BY <2>2 DEF Hardware
    <3>2. CASE SampleIn \/ SkidDrain
      BY <3>1, <3>2 DEF SampleIn, SkidDrain, dmaHw, locals, DmaInv, Asked
    <3>3. CASE DmaFromSkid
      <4>1. Head(skid) \in Nat
        BY <1>1, <3>3 DEF DmaFromSkid, HwTypeOK
      <4> QED BY <1>1, <3>1, <3>3, <4>1, StoreDma DEF DmaFromSkid
    <3>4. CASE DmaFromChain
      <4>1. Head(chain) \in Nat
        BY <1>1, <3>4 DEF DmaFromChain, HwTypeOK
      <4> QED BY <1>1, <3>1, <3>4, <4>1, StoreDma DEF DmaFromChain
    <3> QED BY <2>2, <3>2, <3>3, <3>4 DEF Hardware, HwNext
  <2>3. ASSUME NEW t \in Threads, Thread(t) PROVE DmaInv(u)'
    <3>1. CASE ReadStep(t) /\ u = t
      BY <1>1, <3>1, ReadDma DEF LoneReader
    <3>2. CASE TuneStep(t) \/ (ReadStep(t) /\ u # t)
      BY <1>1, <2>3, <3>2, OthersDma
    <3> QED BY <2>3, <3>1, <3>2, StepKinds
  <2> QED BY <2>1, <2>2, <2>3 DEF Next
<1> QED BY <1>2, <1>3

LEMMA SpecTransferInv ==
  ASSUME LoneReader
  PROVE  Spec => []TransferInv
BY InitTransferInv, NextTransferInv, PTL DEF Spec

\* For a reader that is alone, a transfer in progress stays within a buffer
\* that is still allocated, whatever sizes it asks for.
THEOREM TransfersStayInBuffers ==
  ASSUME LoneReader
  PROVE  Spec => []NoDanglingDma
<1>1. TransferInv => NoDanglingDma
  <2> SUFFICES ASSUME TransferInv, s2m.left > 0, s2m.base \in Buffers
               PROVE  /\ owner[s2m.base] # NoThread
                      /\ 4 * (s2m.off + s2m.left) < size[owner[s2m.base]] + 4
    BY DEF NoDanglingDma
  <2>1. PICK t \in Threads : pc[t] \in Capturing
    BY DEF TransferInv, NobodyElses
  <2>2. pc[t] \in InRead
    BY <2>1 DEF Capturing, InRead, ReadLocked
  <2>3. s2m.base = buf[t] /\ s2m.off + s2m.left = Asked(t)
    BY <2>1 DEF TransferInv, DmaInv
  <2>4. owner[buf[t]] = t /\ size[t] \in Sizes
    BY <2>2 DEF TransferInv, IInv, TypeInv, BufferOwned, RolesInv
  <2>5. 4 * Asked(t) < size[t] + 4
    <3> DEFINE n == size[t]
    <3>1. n \in Sizes
      BY <2>4
    <3> HIDE DEF n
    <3>2. /\ n \in Nat /\ WordsOf(n) \in Nat /\ LengthReg(n) \in Nat
          /\ LengthReg(n) + 1 <= WordsOf(n)
          /\ 4 * WordsOf(n) < n + 4
      BY <3>1, TransferFits
    <3>3. 4 * (LengthReg(n) + 1) < n + 4
      BY <3>2
    <3> QED BY <3>3 DEF Asked, n
  <2> QED BY <2>3, <2>4, <2>5
<1> QED BY <1>1, SpecTransferInv, PTL

\* A read that is alone copies out no word the DMA has not written, provided
\* the length register can hold the length of its transfer.
THEOREM CapturesComplete ==
  ASSUME LoneReader, FitsLength
  PROVE  Spec => []CaptureComplete
<1>1. TransferInv => CaptureComplete
  <2> SUFFICES ASSUME TransferInv, NEW t \in Threads, pc[t] = "copy"
               PROVE  \A i \in 0..(WordsOf(size[t]) - 1) : mem[buf[t]][i] # NoWord
    BY DEF CaptureComplete
  <2>1. size[t] \in Sizes
    BY DEF TransferInv, RolesInv, InRead
  <2>2. Asked(t) = WordsOf(size[t])
    BY <2>1, TransferFits DEF Asked
  <2> QED BY <2>2 DEF TransferInv, DmaInv, Captured
<1> QED BY <1>1, SpecTransferInv, PTL

----------------------------------------------------------------------------
(* The samples.                                                            *)

\* What the read's own statements do to the aligner and the skid buffer.
LEMMA ReadQuiet ==
  ASSUME NoTimeouts, TypeOK, NEW t \in Threads, QuietInv(t), ReadStep(t)
  PROVE  QuietInv(t)'
<1> USE DEF TypeOK, HwTypeOK, Goto, QuietInv, EnableRegs, hwVars, ctrlHw, streamHw
<1>1. CASE ReadAlloc(t) \/ DmaOff(t) \/ SetBase(t) \/ SetLength(t) \/ LockRead(t)
  BY <1>1 DEF ReadAlloc, DmaOff, Write, SetBase, SetLength, WriteS2m, LockRead, Acquire
<1>2. CASE AlignerOff(t)
  <2>1. reg'.ALIGNER_EN = 0 /\ pc'[t] = "drainOn"
    BY <1>2 DEF AlignerOff, WriteAligner, AlignerEnable, Enable
  <2>2. ~aligned'
    <3>1. 0 # 1
      OBVIOUS
    <3> QED BY <1>2, <3>1, Zenon DEF AlignerOff, WriteAligner, AlignerEnable
  <2> QED BY <2>1, <2>2
<1>3. CASE DrainOn(t) \/ SkidOff(t) \/ DmaOn(t) \/ SkidOn(t) \/ QuietSkid(t)
  BY <1>3 DEF DrainOn, SkidOff, DmaOn, SkidOn, QuietSkid, Write, Enable, dmaHw
<1>4. CASE ClearOverflow(t)
  BY <1>4 DEF ClearOverflow
<1>5. CASE Drained(t)
  BY <1>5 DEF Drained, SkidCount, Skip
<1>6. CASE Go(t)
  BY <1>6 DEF Go, StartS2m, S2mGo
<1>7. CASE AlignerOn(t)
  BY <1>7 DEF AlignerOn, WriteAligner, AlignerEnable, Enable
<1>8. CASE TransferOver(t) \/ QuietAligner(t) \/ UnlockRead(t) \/ CopyAndFree(t)
             \/ FreeTimedOut(t) \/ TransferTimeout(t)
  BY <1>8 DEF TransferOver, Skip, QuietAligner, WriteAligner, UnlockRead, Release, CopyAndFree,
              FreeTimedOut, FreeBuffer, TransferTimeout, NoTimeouts
<1> QED BY <1>1, <1>2, <1>3, <1>4, <1>5, <1>6, <1>7, <1>8 DEF ReadStep, ReadSetup, ReadFinish

LEMMA ReadAlign ==
  ASSUME NoTimeouts, TypeInv, NEW t \in Threads, DmaInv(t), QuietInv(t), AlignInv(t), ReadStep(t)
  PROVE  AlignInv(t)'
<1> USE DEF TypeInv, TypeOK, HwTypeOK, Goto, AlignInv, Quieting, hwVars, ctrlHw, streamHw, dmaHw,
            locals
<1>1. CASE ReadAlloc(t) \/ DmaOff(t) \/ SetBase(t) \/ SetLength(t) \/ LockRead(t)
             \/ AlignerOff(t) \/ DrainOn(t) \/ SkidOff(t) \/ ClearOverflow(t) \/ Drained(t)
             \/ DmaOn(t) \/ Go(t) \/ SkidOn(t)
  BY <1>1 DEF ReadAlloc, DmaOff, Write, SetBase, SetLength, WriteS2m, LockRead, Acquire,
              AlignerOff, WriteAligner, DrainOn, SkidOff, ClearOverflow, Drained, Skip, DmaOn,
              Go, StartS2m, SkidOn
<1>2. CASE AlignerOn(t)
  <2>1. pc[t] = "alignOn" /\ pc'[t] = "wait"
    BY <1>2 DEF AlignerOn, WriteAligner
  <2>2. UNCHANGED <<sel, skid, s2m, skidOvf>>
    BY <1>2 DEF AlignerOn, WriteAligner
  <2>3. ~aligned'
    BY <1>2, <2>1 DEF AlignerOn, WriteAligner, AlignerEnable, QuietInv
  <2>4. sel.STREAM_OUT_SEL = 1 => skid = <<>> /\ s2m.off = 0
    BY <2>1 DEF QuietInv
  <2>5. sel'.STREAM_OUT_SEL = 1 => InLine'
    BY <2>2, <2>3, <2>4 DEF InLine
  <2> QED BY <2>1, <2>2, <2>4, <2>5
<1>3. CASE TransferOver(t)
  <2>1. /\ pc[t] = "wait" /\ pc'[t] = "quietSkid"
        /\ UNCHANGED <<sel, skidOvf, mem, buf, size, maxcnt>>
        /\ s2m.left = 0
    BY <1>3 DEF TransferOver, S2mRemaining, Skip
  <2>2. s2m.off = Asked(t)
    BY <2>1, LengthRegNat DEF DmaInv, Capturing, Asked
  <2> QED BY <2>1, <2>2 DEF Asked
<1>4. CASE QuietSkid(t) \/ QuietAligner(t) \/ UnlockRead(t)
  BY <1>4 DEF QuietSkid, Write, QuietAligner, WriteAligner, UnlockRead, Release, Asked
<1>5. CASE CopyAndFree(t) \/ FreeTimedOut(t) \/ TransferTimeout(t)
  BY <1>5 DEF CopyAndFree, FreeTimedOut, FreeBuffer, TransferTimeout, NoTimeouts
<1> QED BY <1>1, <1>2, <1>3, <1>4, <1>5 DEF ReadStep, ReadSetup, ReadFinish

\* The hardware leaves a quiet front end quiet.
LEMMA HwQuiet ==
  ASSUME TypeOK, NEW t \in Threads, QuietInv(t), HwNext, UNCHANGED pc
  PROVE  QuietInv(t)'
<1> USE DEF TypeOK, HwTypeOK, QuietInv, ctrlHw, dmaHw
<1>1. CASE SampleIn
  <2>1. CASE reg.ALIGNER_EN = 0
    <3>1. ~Passes
      BY <2>1 DEF Passes
    <3>2. ~aligned'
      BY <1>1, <3>1 DEF SampleIn
    <3>3. skid' = skid
      BY <1>1, <3>1 DEF SampleIn, ToSkid
    <3> QED BY <1>1, <2>1, <3>2, <3>3 DEF SampleIn
  <2>2. CASE reg.ALIGNER_EN # 0
    BY <1>1, <2>2 DEF SampleIn
  <2> QED BY <2>1, <2>2
<1>2. CASE SkidDrain
  BY <1>2 DEF SkidDrain
<1>3. CASE DmaFromSkid
  BY <1>3 DEF DmaFromSkid, Store
<1>4. CASE DmaFromChain
  BY <1>4 DEF DmaFromChain, Store
<1> QED BY <1>1, <1>2, <1>3, <1>4 DEF HwNext

\* A sample that comes in during a capture continues the line, or sets the
\* overflow flag.
LEMMA SampleInLine ==
  ASSUME TypeOK, InLine, SampleIn,
         reg.ALIGNER_EN = 1, reg.SKID_EN = 1, skidOvf' = 0
  PROVE  InLine'
<1> USE DEF TypeOK, HwTypeOK
<1>1. /\ UNCHANGED <<sel, s2m, maxcnt>>
      /\ maxcnt \in Nat \ {0} /\ cnt \in Nat /\ s2m.off \in Nat /\ Len(skid) \in Nat
      /\ skid \in Seq(Nat)
  <2>1. UNCHANGED <<sel, s2m, maxcnt>>
    BY DEF SampleIn, ctrlHw, dmaHw
  <2>2. maxcnt \in Nat \ {0} /\ cnt \in Nat /\ s2m.off \in Nat /\ skid \in Seq(Nat)
    OBVIOUS
  <2> QED BY <2>1, <2>2
<1>2. CASE sel.BYPASS_SEL = 0 /\ (aligned \/ cnt = 0)
  <2>1. Passes /\ ToSkid
    BY <1>2 DEF Passes, ToSkid
  <2>2. aligned'
    BY <2>1, Zenon DEF SampleIn
  <2>3. skid' = Append(skid, cnt)
    BY <2>1 DEF SampleIn
  <2>4. cnt = (s2m.off + Len(skid)) % maxcnt
    <3>1. CASE aligned
      BY <1>2, <3>1 DEF InLine
    <3>2. CASE ~aligned
      <4>1. cnt = 0 /\ s2m.off = 0 /\ Len(skid) = 0
        BY <1>2, <3>2 DEF InLine
      <4>2. 0 % maxcnt = 0
        BY <1>1, ModTurn
      <4> QED BY <4>1, <4>2
    <3> QED BY <3>1, <3>2
  <2>5. cnt' = (s2m.off + Len(skid) + 1) % maxcnt
    <3> DEFINE k == s2m.off + Len(skid)
    <3>1. k \in Nat /\ cnt = k % maxcnt
      <4>1. k \in Nat
        BY <1>1
      <4> QED BY <2>4, <4>1
    <3>2. cnt' = (cnt + 1) % maxcnt
      BY DEF SampleIn
    <3> HIDE DEF k
    <3>3. cnt' = (k + 1) % maxcnt
      BY <1>1, <3>1, <3>2, ModSucc
    <3> QED BY <3>3 DEF k
  <2>6. Len(skid') = Len(skid) + 1
    BY <1>1, <2>3
  <2>7. ASSUME NEW j \in 1..Len(skid') PROVE skid'[j] = (s2m.off + j - 1) % maxcnt
    <3>1. CASE j = Len(skid) + 1
      <4>1. skid'[j] = cnt /\ s2m.off + j - 1 = s2m.off + Len(skid)
        BY <1>1, <2>3, <3>1
      <4> QED BY <2>4, <4>1
    <3>2. CASE j # Len(skid) + 1
      <4>1. j \in 1..Len(skid)
        <5> DEFINE l == Len(skid)
        <5>1. l \in Nat /\ j \in 1..(l + 1) /\ j # l + 1
          BY <1>1, <2>6, <3>2
        <5> HIDE DEF l
        <5>2. j \in 1..l
          BY <5>1
        <5> QED BY <5>2 DEF l
      <4>2. skid'[j] = skid[j]
        BY <1>1, <2>3, <4>1
      <4> QED BY <4>1, <4>2 DEF InLine
    <3> QED BY <3>1, <3>2
  <2> QED BY <1>1, <1>2, <2>2, <2>5, <2>6, <2>7 DEF InLine
<1>3. CASE sel.BYPASS_SEL # 0 \/ ~(aligned \/ cnt = 0)
  <2>1. ~(aligned /\ sel.BYPASS_SEL = 0)
    BY <1>3
  <2>2. s2m.off = 0 /\ skid = <<>>
    BY <2>1 DEF InLine
  <2>3. skid' = skid
    BY <1>3 DEF SampleIn, ToSkid, Passes
  <2>4. ~(aligned' /\ sel'.BYPASS_SEL = 0)
    <3>1. CASE sel.BYPASS_SEL # 0
      BY <1>1, <3>1
    <3>2. CASE ~(aligned \/ cnt = 0)
      <4>1. ~Passes
        BY <3>2 DEF Passes
      <4> QED BY <4>1, Zenon DEF SampleIn
    <3> QED BY <1>3, <3>1, <3>2
  <2> QED BY <1>1, <2>2, <2>3, <2>4 DEF InLine
<1> QED BY <1>2, <1>3

\* The word that goes to memory is the next of the line.
LEMMA HeadInLine ==
  ASSUME TypeOK, InLine, DmaFromSkid
  PROVE  InLine' /\ Head(skid) = s2m.off % maxcnt
<1> USE DEF TypeOK, HwTypeOK
<1>1. /\ UNCHANGED <<sel, maxcnt, cnt, aligned>>
      /\ s2m.off \in Nat /\ s2m'.off = s2m.off + 1
      /\ skid \in Seq(Nat) /\ Len(skid) \in Nat /\ Len(skid) >= 1
      /\ skid' = Tail(skid) /\ Len(skid') = Len(skid) - 1
  BY DEF DmaFromSkid, Store, ctrlHw
<1>2. aligned /\ sel.BYPASS_SEL = 0 /\ cnt = (s2m.off + Len(skid)) % maxcnt
  BY <1>1 DEF InLine
<1>3. \A j \in 1..Len(skid) : skid[j] = (s2m.off + j - 1) % maxcnt
  BY DEF InLine
<1>4. Head(skid) = s2m.off % maxcnt
  <2>1. Head(skid) = skid[1] /\ s2m.off + 1 - 1 = s2m.off
    BY <1>1
  <2> QED BY <1>1, <1>3, <2>1
<1>5. ASSUME NEW j \in 1..Len(skid') PROVE skid'[j] = (s2m'.off + j - 1) % maxcnt
  <2>1. skid'[j] = skid[j + 1] /\ j + 1 \in 1..Len(skid)
    BY <1>1
  <2>2. s2m'.off + j - 1 = s2m.off + (j + 1) - 1
    BY <1>1
  <2> QED BY <1>3, <2>1, <2>2
<1>6. s2m'.off + Len(skid') = s2m.off + Len(skid)
  BY <1>1
<1>7. aligned' /\ sel'.BYPASS_SEL = 0
  BY <1>1, <1>2
<1> QED BY <1>1, <1>2, <1>4, <1>5, <1>6, <1>7 DEF InLine

\* The hardware keeps a capture in line.
LEMMA HwAlign ==
  ASSUME LoneReader, TypeInv, RolesInv, NobodyElses, NEW t \in Threads, DmaInv(t),
         QuietInv(t), AlignInv(t), HwNext, UNCHANGED <<pc, locals>>
  PROVE  AlignInv(t)'
<1>1. TypeOK /\ HwTypeOK
  BY DEF TypeInv, TypeOK
<1>2. UNCHANGED <<sel, maxcnt, buf, size>>
  BY DEF HwNext, SampleIn, SkidDrain, DmaFromSkid, DmaFromChain, ctrlHw, locals
<1>3. skidOvf' = 0 => skidOvf = 0
  BY DEF HwNext, SampleIn, SkidDrain, DmaFromSkid, DmaFromChain
<1>4. CASE pc[t] \notin Quieting \cup {"wait"}
  BY <1>4 DEF AlignInv, Quieting
<1>5. CASE pc[t] \in Quieting
  <2>1. pc[t] \in InRead /\ pc[t] \notin Capturing /\ pc[t] # "wait"
    BY <1>5 DEF Quieting, InRead, ReadLocked, Capturing
  <2>2. mem' = mem
    <3>1. CASE SampleIn \/ SkidDrain
      BY <3>1 DEF SampleIn, SkidDrain, dmaHw
    <3>2. CASE DmaFromSkid \/ DmaFromChain
      <4>1. PICK u \in Threads : pc[u] \in Capturing
        BY <3>2 DEF DmaFromSkid, DmaFromChain, Store, NobodyElses
      <4>2. u = t
        BY <2>1, <4>1, ReaderAlone DEF Capturing, InRead, ReadLocked
      <4> QED BY <2>1, <4>1, <4>2
    <3> QED BY <3>1, <3>2 DEF HwNext
  <2> QED BY <1>2, <1>3, <1>5, <2>1, <2>2 DEF AlignInv, Asked
<1>6. CASE pc[t] = "wait"
  <2> SUFFICES ASSUME sel.STREAM_OUT_SEL = 1, skidOvf' = 0
               PROVE  InLine' /\ \A i \in 0..(s2m'.off - 1) : mem'[buf[t]][i] = i % maxcnt
    BY <1>2, <1>6 DEF AlignInv, Quieting
  <2>1. InLine /\ \A i \in 0..(s2m.off - 1) : mem[buf[t]][i] = i % maxcnt
    BY <1>3, <1>6 DEF AlignInv
  <2>2. reg.SKID_EN = 1 /\ reg.ALIGNER_EN = 1
    BY <1>6 DEF QuietInv
  <2>3. CASE SampleIn
    BY <1>1, <2>1, <2>2, <2>3, SampleInLine DEF SampleIn, dmaHw
  <2>4. CASE SkidDrain
    BY <2>2, <2>4 DEF SkidDrain
  <2>5. CASE DmaFromChain
    BY <2>5 DEF DmaFromChain
  <2>6. CASE DmaFromSkid
    <3>1. InLine' /\ Head(skid) = s2m.off % maxcnt
      BY <1>1, <2>1, <2>6, HeadInLine
    <3>2. Head(skid) \in Nat /\ Store(Head(skid)) /\ s2mReg' = s2mReg
      BY <1>1, <2>6 DEF DmaFromSkid, HwTypeOK
    <3>3. s2m.off \in Offsets /\ mem' = [mem EXCEPT ![buf[t]] = [@ EXCEPT ![s2m.off] = Head(skid)]]
      BY <1>6, <3>2, StoreDma DEF InRead, ReadLocked
    <3>4. buf[t] \in Buffers
      BY <1>6 DEF TypeInv, BufferOwned, InRead, ReadLocked
    <3>5. s2m'.off = s2m.off + 1 /\ s2m.off \in Nat
      BY <1>1, <3>2 DEF Store, HwTypeOK
    <3>6. ASSUME NEW i \in 0..s2m.off PROVE mem'[buf[t]][i] = i % maxcnt
      <4>1. CASE i = s2m.off
        BY <1>1, <3>1, <3>3, <3>4, <4>1 DEF HwTypeOK
      <4>2. CASE i # s2m.off
        <5>1. i \in 0..(s2m.off - 1)
          BY <3>5, <4>2
        <5>2. mem'[buf[t]][i] = mem[buf[t]][i]
          BY <1>1, <3>3, <3>4, <4>2, <5>1 DEF HwTypeOK, Offsets
        <5> QED BY <2>1, <5>1, <5>2
      <4> QED BY <4>1, <4>2
    <3> QED BY <3>1, <3>5, <3>6
  <2> QED BY <2>3, <2>4, <2>5, <2>6 DEF HwNext
<1> QED BY <1>4, <1>5, <1>6

\* No step of another thread disturbs a capture: those that change the path
\* are under the lock.
LEMMA OthersQuiet ==
  ASSUME LoneReader, TypeInv, HoldsLock, RolesInv, NEW t \in Threads, NEW u \in Threads,
         QuietInv(u), AlignInv(u), Thread(t), TuneStep(t) \/ (ReadStep(t) /\ u # t)
  PROVE  QuietInv(u)' /\ AlignInv(u)'
<1> USE DEF TypeInv
<1>1. CASE pc'[u] \notin ReadLocked
  BY <1>1 DEF QuietInv, AlignInv, Quieting, ReadLocked
<1>2. CASE pc'[u] \in ReadLocked
  <2>1. TuneStep(t) /\ u # t /\ pc'[u] = pc[u]
    BY <1>2, TuneFrame, ReadFrame, OthersKeep DEF InRead, RolesInv, LoneReader
  <2>2. UNCHANGED <<reg, streamHw, dmaHw, buf, size>>
    BY <2>1, TuneFrame
  <2>3. pc[t] \notin MuxLocked
    BY <1>2, <2>1, OneUnderLock DEF Locked
  <2>4. sel' = sel
    BY <2>3, MuxEffect DEF DisableLeft, SelectInput, EnableUsed, UnlockMux, WriteSel, Release,
                           Goto, MuxKept, MuxLocked, hwVars, ctrlHw
  <2>5. QuietInv(u)'
    BY <2>1, <2>2, <2>4 DEF QuietInv, streamHw, dmaHw
  <2>6. AlignInv(u)'
    BY <2>1, <2>2, <2>4 DEF AlignInv, Asked, InLine, streamHw, dmaHw
  <2> QED BY <2>5, <2>6
<1> QED BY <1>1, <1>2

LEMMA InitCaptureInv == Init => CaptureInv
<1> SUFFICES ASSUME Init PROVE CaptureInv OBVIOUS
<1>1. \A t \in Threads : QuietInv(t) /\ AlignInv(t)
  BY DEF Init, QuietInv, AlignInv, Quieting
<1> QED BY <1>1, InitTransferInv DEF CaptureInv

LEMMA NextCaptureInv ==
  ASSUME LoneReader
  PROVE  CaptureInv /\ [Next]_vars => CaptureInv'
<1> SUFFICES ASSUME CaptureInv, [Next]_vars PROVE CaptureInv' OBVIOUS
<1> USE DEF CaptureInv
<1>1. TransferInv'
  BY NextTransferInv
<1>2. TypeInv /\ TypeOK /\ HoldsLock /\ RolesInv /\ NobodyElses
  BY DEF TransferInv, IInv, TypeInv
<1>3. ASSUME NEW u \in Threads PROVE QuietInv(u)' /\ AlignInv(u)'
  <2>1. DmaInv(u)
    BY DEF TransferInv
  <2>2. CASE UNCHANGED vars
    BY <2>2 DEF vars, hwVars, ctrlHw, streamHw, dmaHw, locals, QuietInv, AlignInv, InLine, Asked
  <2>3. CASE Hardware
    BY <1>2, <2>1, <2>3, HwQuiet, HwAlign DEF Hardware
  <2>4. ASSUME NEW t \in Threads, Thread(t) PROVE QuietInv(u)' /\ AlignInv(u)'
    <3>1. CASE ReadStep(t) /\ u = t
      BY <1>2, <2>1, <3>1, ReadQuiet, ReadAlign DEF LoneReader
    <3>2. CASE TuneStep(t) \/ (ReadStep(t) /\ u # t)
      BY <1>2, <2>4, <3>2, OthersQuiet
    <3> QED BY <1>2, <2>4, <3>1, <3>2, StepKinds
  <2> QED BY <2>2, <2>3, <2>4 DEF Next
<1> QED BY <1>1, <1>3

\* A read that is alone finds the samples that follow an aligner count of 0,
\* in order and without a gap, or the overflow flag set, on whatever path and
\* in whatever state it found the receiver.
THEOREM CapturesAligned ==
  ASSUME LoneReader, FitsLength
  PROVE  Spec => []CaptureAligned
<1>1. CaptureInv => CaptureAligned
  <2> SUFFICES ASSUME CaptureInv, NEW t \in Threads, pc[t] \in Quieting,
                      sel.STREAM_OUT_SEL = 1, skidOvf = 0
               PROVE  \A i \in 0..(WordsOf(size[t]) - 1) : mem[buf[t]][i] = i % maxcnt
    BY DEF CaptureAligned, Quieting
  <2>1. size[t] \in Sizes
    BY DEF CaptureInv, TransferInv, RolesInv, InRead, ReadLocked, Quieting
  <2>2. Asked(t) = WordsOf(size[t])
    BY <2>1, TransferFits DEF Asked
  <2> QED BY <2>2 DEF CaptureInv, AlignInv
<1>2. Spec => []CaptureInv
  BY InitCaptureInv, NextCaptureInv, PTL DEF Spec
<1> QED BY <1>1, <1>2, PTL

============================================================================
