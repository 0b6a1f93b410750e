---------------------------- MODULE TxPathProofs ----------------------------
(***************************************************************************)
(* Proofs about TxPath: types for any number of threads, and, of a single  *)
(* writer beside any number of readers, that the DMA engine reads only what*)
(* that writer has allocated and not yet freed, and that what it sends is  *)
(* what was written.                                                       *)
(***************************************************************************)
EXTENDS TxPath, TLAPS, SequenceTheorems

OneWriter == \A t, u \in Writers : t = u

\* TX_ENABLE has handled idx registers, and found a mask of their bits.
IndexInv ==
  \A t \in Threads :
    /\ pc[t] \in {"enWrite", "enRead"} => idx[t] \in {0, 1}
    /\ pc[t] = "enRead" => arg[t] <= idx[t]
    /\ pc[t] \notin {"enWrite", "enRead", "scratch"} => idx[t] = 0
    /\ pc[t] # "enWrite" /\ pc[t] # "enRead" => arg[t] = 0

TypeInv == TypeOK /\ IndexInv

BufferInv ==
  \A t \in Writers :
    InWrite(t) => /\ kbuf[t] \in Buffers /\ owner[kbuf[t]] = t
                  /\ dbuf = kbuf[t]
                  /\ size[t] \in Sizes

\* What a call has written to the registers of the DMA so far.
ProgramInv ==
  \A t \in Writers :
    /\ pc[t] \in {"length", "go"} => m2sReg.base = kbuf[t]
    /\ pc[t] = "go" => m2sReg.len = LengthReg(size[t])
    /\ pc[t] \in {"sLength", "sGo"} => m2sReg.base = Scratch

\* A transfer from a buffer is that of a write() that waits for it.
TransferInv ==
  Remaining /\ m2s.base \in Buffers =>
    \E t \in Writers :
      pc[t] = "wait" /\ kbuf[t] = m2s.base /\ m2s.len <= WordsOf(size[t])

IInv == TypeInv /\ BufferInv /\ ProgramInv /\ TransferInv

----------------------------------------------------------------------------
(* Arithmetic.                                                             *)

LEMMA WordCount ==
  ASSUME NEW n \in Nat
  PROVE  WordsOf(n) \in Nat
BY DEF WordsOf

LEMMA LengthRegNat ==
  ASSUME NEW n \in Nat
  PROVE  LengthReg(n) \in Nat
BY WordCount, TxAssumption DEF LengthReg, TxAssumption

\* The register holds the number of words less one: never more.
LEMMA LengthRegBound ==
  ASSUME NEW n \in Nat, n > 0
  PROVE  LengthReg(n) + 1 <= WordsOf(n)
<1>1. WordsOf(n) \in Nat /\ WordsOf(n) >= 1
  BY DEF WordsOf
<1>2. LenMod \in Nat /\ LenMod > 0
  BY TxAssumption DEF TxAssumption
<1> DEFINE k == WordsOf(n) - 1
<1>3. k \in Nat
  BY <1>1
<1> HIDE DEF k
<1>4. (k + LenMod) % LenMod <= k
  <2> DEFINE q == (k + LenMod) \div LenMod
             r == (k + LenMod) % LenMod
  <2>1. q \in Int /\ r \in 0..(LenMod - 1) /\ k + LenMod = LenMod * q + r
    BY <1>2, <1>3
  <2> HIDE DEF q, r
  <2>2. CASE k >= LenMod
    BY <1>2, <1>3, <2>1, <2>2 DEF r
  <2>3. CASE k < LenMod
    <3>1. q >= 1
      <4>1. CASE q <= 0
        <5>1. LenMod * q <= 0
          BY <1>2, <2>1, <4>1
        <5> QED BY <1>2, <1>3, <2>1, <5>1
      <4> QED BY <2>1, <4>1
    <3>2. LenMod * q >= LenMod
      BY <1>2, <2>1, <3>1
    <3>3. r <= k
      BY <1>2, <1>3, <2>1, <3>2
    <3> QED BY <3>3 DEF r
  <2> QED BY <1>2, <1>3, <2>2, <2>3
<1>5. LengthReg(n) = (k + LenMod) % LenMod
  <2>1. WordsOf(n) + LenMod - 1 = k + LenMod
    BY <1>1, <1>2 DEF k
  <2> QED BY <2>1 DEF LengthReg
<1>6. LengthReg(n) \in Nat
  BY LengthRegNat
<1> QED BY <1>1, <1>3, <1>4, <1>5, <1>6 DEF k

----------------------------------------------------------------------------
(* Types.                                                                  *)

LEMMA RepeatedType ==
  ASSUME NEW m \in Messages \cup {NoData}, NEW b \in Memory \cup {NoBuf},
         NEW n \in Nat, NEW times \in Nat
  PROVE  Repeated(m, b, n, times) \in Seq(Words)
<1> DEFINE k == WordsOf(n)
<1>1. k \in Nat
  BY WordCount
<1> HIDE DEF k
<1>2. times * k \in Nat
  BY <1>1
<1>3. ASSUME NEW i \in 1..(times * k)
      PROVE  [msg |-> m, base |-> b, off |-> (i - 1) % k] \in Words
  <2>1. k # 0
    <3>1. CASE k = 0
      BY <1>2, <3>1
    <3> QED BY <3>1
  <2>2. (i - 1) % k \in Nat
    BY <1>1, <1>2, <2>1
  <2> QED BY <2>2 DEF Words
<1>4. [i \in 1..(times * k) |-> [msg |-> m, base |-> b, off |-> (i - 1) % k]] \in Seq(Words)
  BY <1>2, <1>3, IsASeq
<1> QED BY <1>4 DEF Repeated, k

LEMMA FetchType == TypeOK => Fetch \in Words
BY DEF TypeOK, Fetch, Words

LEMMA BitOfType ==
  ASSUME NEW n \in 0..3, NEW i PROVE BitOf(n, i) \in Bit
BY DEF BitOf, Bit

LEMMA ExceptType ==
  ASSUME NEW S, NEW T, NEW f \in [S -> T], NEW x, NEW v \in T
  PROVE  [f EXCEPT ![x] = v] \in [S -> T]
OBVIOUS

LEMMA ExceptOutside ==
  ASSUME NEW S, NEW T, NEW f \in [S -> T], NEW x, x \notin S, NEW v
  PROVE  [f EXCEPT ![x] = v] \in [S -> T]
OBVIOUS

LEMMA TypeInit == Init => TypeInv
<1> SUFFICES ASSUME Init PROVE TypeInv
  OBVIOUS
<1>1. <<>> \in Seq(Words)
  BY EmptySeq
<1>2. TypeOK
  BY <1>1 DEF Init, TypeOK, Labels, WriteLabels, ScratchLabels, Bit, Dacs
<1>3. IndexInv
  BY DEF Init, IndexInv
<1> QED BY <1>2, <1>3 DEF TypeInv

\* The calls of a writer begin.
LEMMA TypeBegin ==
  ASSUME NEW t \in Writers, TypeInv, Begin(t) PROVE TypeInv'
<1> USE TxAssumption DEF TxAssumption, TypeInv, TypeOK, Threads, Labels, WriteLabels,
        ScratchLabels, Goto, hardware, history, driver, Memory
<1>1. ASSUME NEW b \in Buffers, NEW m \in Messages, NEW n \in Sizes, WriteAlloc(t, b, m, n)
      PROVE  TypeInv'
  <2>1. TypeOK'
    BY <1>1 DEF WriteAlloc, Allocate
  <2>2. IndexInv'
    BY <1>1 DEF WriteAlloc, Allocate, IndexInv
  <2> QED BY <2>1, <2>2
<1>2. ASSUME NEW mask \in Masks, TxEnable(t, mask) PROVE TypeInv'
  <2>1. TypeOK'
    BY <1>2 DEF TxEnable
  <2>2. IndexInv'
    BY <1>2 DEF TxEnable, IndexInv
  <2> QED BY <2>1, <2>2
<1>3. ASSUME NEW n \in CycleCounts, SetCycle(t, n) PROVE TypeInv'
  <2>1. TypeOK'
    BY <1>3 DEF SetCycle, WriteM2s, locals
  <2>2. IndexInv'
    BY <1>3 DEF SetCycle, WriteM2s, locals, IndexInv
  <2> QED BY <2>1, <2>2
<1>4. ASSUME NEW m \in Messages, ScratchWrite(t, m) PROVE TypeInv'
  <2>1. TypeOK'
    BY <1>4 DEF ScratchWrite
  <2>2. IndexInv'
    BY <1>4 DEF ScratchWrite, IndexInv
  <2> QED BY <2>1, <2>2
<1>5. ASSUME NEW n \in Offsets, ScratchTx(t, n) PROVE TypeInv'
  <2>1. TypeOK'
    BY <1>5 DEF ScratchTx, Offsets
  <2>2. IndexInv'
    BY <1>5 DEF ScratchTx, IndexInv
  <2> QED BY <2>1, <2>2
<1> QED BY <1>1, <1>2, <1>3, <1>4, <1>5 DEF Begin

\* Labels of calls that handle no index.
Plain == Labels \ {"enWrite", "enRead", "scratch"}

LEMMA TypeRegister ==
  ASSUME NEW t \in Threads, NEW from \in Plain, NEW to \in Plain, TypeInv,
         Goto(t, from, to),
         dmaEn' \in Bit,
         m2sReg' \in [base : Memory \cup {NoBuf}, len : Nat, cycles : Nat],
         m2s' \in [base : Memory \cup {NoBuf}, off : Nat, len : Nat, again : Nat],
         UNCHANGED <<locals, driver, mem, txEn, air, history>>
  PROVE  TypeInv'
<1>1. TypeOK'
  BY DEF TypeInv, TypeOK, Goto, Plain, locals, driver, history
<1>2. IndexInv'
  BY DEF TypeInv, TypeOK, IndexInv, Goto, Plain, locals
<1> QED BY <1>1, <1>2 DEF TypeInv

LEMMA TypeProgram ==
  ASSUME NEW t \in Writers, TypeInv,
         WriteDmaOn(t) \/ WriteBase(t) \/ WriteLength(t) \/ WriteGo(t) \/ ScratchTxStep(t)
  PROVE  TypeInv'
<1>1. /\ t \in Threads
      /\ \A l \in WriteLabels \cup ScratchLabels \cup {"idle"} : l \in Plain
  BY DEF Threads, Plain, Labels, WriteLabels, ScratchLabels
<1>2. /\ dmaEn \in Bit /\ 1 \in Bit
      /\ m2sReg \in [base : Memory \cup {NoBuf}, len : Nat, cycles : Nat]
      /\ m2s \in [base : Memory \cup {NoBuf}, off : Nat, len : Nat, again : Nat]
      /\ dbuf \in Memory \cup {NoBuf} /\ Scratch \in Memory
      /\ size[t] \in Nat
  BY <1>1 DEF TypeInv, TypeOK, Bit, Memory
<1>3. LengthReg(size[t]) \in Nat /\ size[t] % LenMod \in Nat
  BY <1>2, LengthRegNat, TxAssumption DEF TxAssumption
<1>4. \A from, to \in WriteLabels \cup ScratchLabels \cup {"idle"} :
        SetDmaEn(t, from, to, 1) => TypeInv'
  BY <1>1, <1>2, TypeRegister DEF SetDmaEn
<1>5. \A from, to \in WriteLabels \cup ScratchLabels \cup {"idle"} :
        \A v \in Memory \cup {NoBuf} : WriteM2s(t, from, to, "base", v) => TypeInv'
  <2>1. \A v \in Memory \cup {NoBuf} :
          [m2sReg EXCEPT !["base"] = v] \in [base : Memory \cup {NoBuf}, len : Nat, cycles : Nat]
    BY <1>2
  <2> QED BY <1>1, <1>2, <2>1, TypeRegister DEF WriteM2s
<1>6. \A from, to \in WriteLabels \cup ScratchLabels \cup {"idle"} :
        \A v \in Nat : WriteM2s(t, from, to, "len", v) => TypeInv'
  <2>1. \A v \in Nat :
          [m2sReg EXCEPT !["len"] = v] \in [base : Memory \cup {NoBuf}, len : Nat, cycles : Nat]
    BY <1>2
  <2> QED BY <1>1, <1>2, <2>1, TypeRegister DEF WriteM2s
<1>7. \A from, to \in WriteLabels \cup ScratchLabels \cup {"idle"} :
        StartM2s(t, from, to) => TypeInv'
  <2>1. [base |-> m2sReg.base, off |-> 0, len |-> m2sReg.len + 1, again |-> m2sReg.cycles]
          \in [base : Memory \cup {NoBuf}, off : Nat, len : Nat, again : Nat]
    BY <1>2
  <2> QED BY <1>1, <1>2, <2>1, TypeRegister DEF StartM2s
<1> QED BY <1>2, <1>3, <1>4, <1>5, <1>6, <1>7
        DEF WriteDmaOn, WriteBase, WriteLength, WriteGo, ScratchTxStep,
            WriteLabels, ScratchLabels

\* A writer's call takes a step.
LEMMA TypeInCall ==
  ASSUME NEW t \in Writers, TypeInv, InCall(t) PROVE TypeInv'
<1> USE TxAssumption DEF TxAssumption, TypeInv, TypeOK, Threads, Labels, WriteLabels,
        ScratchLabels, Goto, hardware, history, driver, Memory
<1>1. CASE CopyIn(t)
  <2>1. \A d \in Dacs :
          promised[d] \o Repeated(data[t], kbuf[t], size[t], m2sReg.cycles + 1) \in Seq(Words)
    <3>1. ASSUME NEW d \in Dacs
          PROVE  promised[d] \o Repeated(data[t], kbuf[t], size[t], m2sReg.cycles + 1)
                   \in Seq(Words)
      <4>1. Repeated(data[t], kbuf[t], size[t], m2sReg.cycles + 1) \in Seq(Words)
        <5>1. /\ data[t] \in Messages \cup {NoData}
              /\ kbuf[t] \in Memory \cup {NoBuf}
              /\ size[t] \in Nat /\ m2sReg.cycles + 1 \in Nat
          OBVIOUS
        <5> QED BY <5>1, RepeatedType
      <4>2. promised[d] \in Seq(Words)
        OBVIOUS
      <4> QED BY <4>1, <4>2, ConcatProperties
    <3> QED BY <3>1
  <2> DEFINE sent(d) == promised[d] \o Repeated(data[t], kbuf[t], size[t], m2sReg.cycles + 1)
  <2>2. \A d \in Dacs : sent(d) \in Seq(Words)
    BY <2>1
  <2>3. promised' = [d \in Dacs |-> IF BitOf(status, d) = 1 THEN sent(d) ELSE promised[d]]
    BY <1>1 DEF CopyIn
  <2> HIDE DEF sent
  <2>4. promised' \in [Dacs -> Seq(Words)]
    BY <2>2, <2>3
  <2>5. mem' \in [Memory -> [Offsets -> Messages \cup {NoData}]]
    <3>1. \A b \in Buffers : Filled(b, data[t], size[t]) \in [Offsets -> Messages \cup {NoData}]
      BY DEF Filled
    <3>2. kbuf[t] \in Buffers \cup {NoBuf}
      OBVIOUS
    <3> DEFINE new == Filled(kbuf[t], data[t], size[t])
    <3>3. mem' = [mem EXCEPT ![kbuf[t]] = new]
      BY <1>1 DEF CopyIn
    <3>4. mem \in [Memory -> [Offsets -> Messages \cup {NoData}]]
      OBVIOUS
    <3>5. kbuf[t] \in Buffers => new \in [Offsets -> Messages \cup {NoData}]
      BY <3>1
    <3>6. kbuf[t] = NoBuf => kbuf[t] \notin Memory
      OBVIOUS
    <3> HIDE DEF new, TypeOK, TypeInv, Memory, Labels, Threads
    <3>7. CASE kbuf[t] \in Buffers
      BY <3>3, <3>4, <3>5, <3>7, ExceptType
    <3>8. CASE kbuf[t] = NoBuf
      BY <3>3, <3>4, <3>6, <3>8, ExceptOutside
    <3> QED BY <3>2, <3>7, <3>8
  <2>6. TypeOK'
    BY <1>1, <2>4, <2>5 DEF CopyIn, locals
  <2>7. IndexInv'
    BY <1>1 DEF CopyIn, IndexInv, locals
  <2> QED BY <2>6, <2>7
<1>2. CASE CopyFails(t)
  <2>1. TypeOK'
    BY <1>2 DEF CopyFails
  <2>2. IndexInv'
    BY <1>2 DEF CopyFails, IndexInv
  <2> QED BY <2>1, <2>2
<1>7. CASE WriteDmaOn(t) \/ WriteBase(t) \/ WriteLength(t) \/ WriteGo(t)
  BY <1>7, TypeProgram
<1>8. CASE ScratchTxStep(t)
  BY <1>8, TypeProgram
<1>9. CASE WaitTurn(t)
  <2>1. (waitCnt[t] + 1) % WaitMod \in Nat
    OBVIOUS
  <2>2. TypeOK'
    BY <1>9, <2>1 DEF WaitTurn
  <2>3. IndexInv'
    BY <1>9 DEF WaitTurn, IndexInv
  <2> QED BY <2>2, <2>3
<1>10. CASE WaitOver(t)
  <2>1. TypeOK'
    BY <1>10 DEF WaitOver, LeaveWait
  <2>2. IndexInv'
    BY <1>10 DEF WaitOver, LeaveWait, IndexInv
  <2> QED BY <2>1, <2>2
<1>11. CASE WriteFree(t)
  <2>1. TypeOK'
    BY <1>11 DEF WriteFree
  <2>2. IndexInv'
    BY <1>11 DEF WriteFree, IndexInv
  <2> QED BY <2>1, <2>2
<1>12. CASE EnableWrite(t)
  <2>1. BitOf(arg[t], idx[t]) \in Bit
    BY BitOfType
  <2>2. idx[t] \in {0, 1} /\ 1 - idx[t] \in {0, 1}
    BY <1>12 DEF EnableWrite, IndexInv
  <2>3. TypeOK'
    <3>1. txEn' \in [Dacs -> Bit]
      BY <1>12, <2>1 DEF EnableWrite
    <3>2. pc' \in [Threads -> Labels] /\ arg' \in [Threads -> 0..3]
      <4>1. /\ pc' \in {pc, [pc EXCEPT ![t] = "enRead"]}
            /\ arg' \in {arg, [arg EXCEPT ![t] = 0]}
        BY <1>12 DEF EnableWrite
      <4>2. /\ pc \in [Threads -> Labels] /\ "enRead" \in Labels
            /\ arg \in [Threads -> 0..3] /\ 0 \in 0..3
        OBVIOUS
      <4> HIDE DEF TypeOK, TypeInv, Labels, Threads
      <4> QED BY <4>1, <4>2, ExceptType
    <3>3. idx' \in [Threads -> Nat]
      <4>1. 1 - idx[t] \in Nat
        BY <2>2
      <4>2. idx' = [idx EXCEPT ![t] = 1 - idx[t]]
        BY <1>12 DEF EnableWrite
      <4> HIDE DEF TypeOK
      <4>3. idx \in [Threads -> Nat]
        BY DEF TypeOK
      <4> QED BY <4>1, <4>2, <4>3
    <3> QED BY <1>12, <3>1, <3>2, <3>3 DEF EnableWrite
  <2>4. IndexInv'
    BY <1>12, <2>2 DEF EnableWrite, IndexInv
  <2> QED BY <2>3, <2>4
<1>13. CASE EnableRead(t)
  <2> DEFINE seen == arg[t] + txEn[idx[t]] * (idx[t] + 1)
  <2>1. /\ idx[t] \in {0, 1} /\ 1 - idx[t] \in {0, 1} /\ arg[t] <= idx[t]
    BY <1>13 DEF EnableRead, ReadBack, IndexInv
  <2>2. seen \in 0..3 /\ (idx[t] = 0 => seen <= 1)
    <3>1. arg[t] \in {0, 1}
      <4>1. arg[t] \in 0..3
        OBVIOUS
      <4> QED BY <2>1, <4>1
    <3>2. txEn[idx[t]] \in {0, 1}
      BY <2>1 DEF Dacs, Bit
    <3>3. CASE idx[t] = 0
      BY <2>1, <3>1, <3>2, <3>3
    <3>4. CASE idx[t] = 1
      BY <3>1, <3>2, <3>4
    <3> QED BY <2>1, <3>3, <3>4
  <2> HIDE DEF seen
  <2>3. /\ pc[t] = "enRead"
        /\ IF idx[t] = 1
           THEN /\ status' = seen
                /\ arg' = [arg EXCEPT ![t] = 0]
                /\ pc' = [pc EXCEPT ![t] = "idle"]
           ELSE arg' = [arg EXCEPT ![t] = seen] /\ UNCHANGED <<status, pc>>
        /\ idx' = [idx EXCEPT ![t] = 1 - @]
        /\ UNCHANGED <<kbuf, size, data, waitCnt, ret, driver, hardware, calls, promised>>
    BY <1>13 DEF EnableRead, ReadBack, seen
  <2>4. TypeOK'
    <3>1. /\ pc' \in [Threads -> Labels]
          /\ arg' \in [Threads -> 0..3] /\ status' \in 0..3
      <4>1. /\ pc' \in {pc, [pc EXCEPT ![t] = "idle"]}
            /\ arg' \in {[arg EXCEPT ![t] = seen], [arg EXCEPT ![t] = 0]}
            /\ status' \in {status, seen}
        BY <2>3
      <4>2. /\ pc \in [Threads -> Labels] /\ "idle" \in Labels
            /\ arg \in [Threads -> 0..3] /\ 0 \in 0..3
            /\ status \in 0..3
        OBVIOUS
      <4> HIDE DEF TypeOK, TypeInv, Labels, Threads
      <4> QED BY <2>2, <4>1, <4>2, ExceptType
    <3>2. idx' \in [Threads -> Nat]
      <4>1. 1 - idx[t] \in Nat
        BY <2>1
      <4>2. idx' = [idx EXCEPT ![t] = 1 - idx[t]]
        BY <2>3
      <4> HIDE DEF TypeOK
      <4>3. idx \in [Threads -> Nat]
        BY DEF TypeOK
      <4> QED BY <4>1, <4>2, <4>3
    <3> QED BY <2>3, <3>1, <3>2
  <2>5. IndexInv'
    BY <2>1, <2>2, <2>3 DEF IndexInv
  <2> QED BY <2>4, <2>5
<1>14. CASE ScratchStep(t)
  <2>1. mem' \in [Memory -> [Offsets -> Messages \cup {NoData}]]
    <3>1. [mem[Scratch] EXCEPT ![idx[t]] = data[t]] \in [Offsets -> Messages \cup {NoData}]
      OBVIOUS
    <3> QED BY <1>14, <3>1 DEF ScratchStep
  <2>2. TypeOK'
    <3>1. /\ pc' \in [Threads -> Labels] /\ idx' \in [Threads -> Nat]
          /\ data' \in [Threads -> Messages \cup {NoData}]
      <4>1. /\ pc' \in {pc, [pc EXCEPT ![t] = "idle"]}
            /\ idx' \in {[idx EXCEPT ![t] = idx[t] + 1], [idx EXCEPT ![t] = 0]}
            /\ data' \in {data, [data EXCEPT ![t] = NoData]}
        BY <1>14 DEF ScratchStep
      <4>2. /\ pc \in [Threads -> Labels] /\ "idle" \in Labels
            /\ idx \in [Threads -> Nat] /\ 0 \in Nat /\ idx[t] + 1 \in Nat
            /\ data \in [Threads -> Messages \cup {NoData}]
        OBVIOUS
      <4> HIDE DEF TypeOK, TypeInv, Labels, Threads
      <4> QED BY <4>1, <4>2, ExceptType
    <3>2. UNCHANGED <<kbuf, size, waitCnt, ret, arg, dbuf, owner, rxLock, dmaEn, m2sReg, m2s,
                      txEn, air, calls, status, promised>>
      BY <1>14 DEF ScratchStep
    <3>3. TypeOK
      OBVIOUS
    <3> HIDE DEF TypeOK, TypeInv, Labels, Threads, Memory
    <3> QED BY <2>1, <3>1, <3>2, <3>3 DEF TypeOK
  <2>3. IndexInv'
    <3>1. /\ pc[t] = "scratch" /\ arg' = arg
          /\ \/ idx' = [idx EXCEPT ![t] = 0] /\ pc' = [pc EXCEPT ![t] = "idle"]
             \/ idx' = [idx EXCEPT ![t] = idx[t] + 1] /\ pc' = pc
      BY <1>14 DEF ScratchStep
    <3>2. /\ IndexInv /\ pc \in [Threads -> Labels] /\ idx \in [Threads -> Nat]
          /\ t \in Threads
      OBVIOUS
    <3> HIDE DEF TypeOK, TypeInv, Labels, Threads, Memory
    <3> QED BY <3>1, <3>2 DEF IndexInv
  <2> QED BY <2>2, <2>3
<1> QED BY <1>1, <1>2, <1>7, <1>8, <1>9, <1>10, <1>11, <1>12, <1>13, <1>14
      DEF InCall, WriteStep

LEMMA TypeDmaSend == TypeInv /\ DmaSend => TypeInv'
<1> SUFFICES ASSUME TypeInv, DmaSend PROVE TypeInv'
  OBVIOUS
<1>1. TypeOK /\ IndexInv
  BY DEF TypeInv
<1>2. air' \in [Dacs -> Seq(Words)]
  <2>1. ASSUME NEW d \in Dacs PROVE Append(air[d], Fetch) \in Seq(Words)
    <3>1. air[d] \in Seq(Words) /\ Fetch \in Words
      BY <1>1, FetchType DEF TypeOK
    <3> QED BY <3>1, AppendProperties
  <2> DEFINE heard(d) == Append(air[d], Fetch)
  <2>2. \A d \in Dacs : heard(d) \in Seq(Words)
    BY <2>1
  <2>3. air' = [d \in Dacs |->
           IF txEn[d] = 1 /\ m2s.base # Scratch THEN heard(d) ELSE air[d]]
    BY DEF DmaSend
  <2> HIDE DEF heard
  <2> QED BY <1>1, <2>2, <2>3 DEF TypeOK
<1>3. m2s' \in [base : Memory \cup {NoBuf}, off : Nat, len : Nat, again : Nat]
  BY <1>1 DEF TypeOK, DmaSend
<1>4. TypeOK'
  BY <1>1, <1>2, <1>3 DEF TypeOK, DmaSend, locals, driver, history
<1>5. IndexInv'
  BY <1>1 DEF IndexInv, DmaSend, locals
<1> QED BY <1>4, <1>5 DEF TypeInv

\* What a step of a read leaves alone: everything but its own place in the
\* code, the lock and DMA_EN.
LEMMA ReaderFrame ==
  ASSUME NEW r \in Readers, TypeInv, ReadStep(r)
  PROVE  /\ pc[r] \in ReadLabels \cup {"idle"} /\ pc'[r] \in ReadLabels \cup {"idle"}
         /\ \A t \in Threads \ {r} : pc'[t] = pc[t]
         /\ UNCHANGED <<locals, dbuf, owner, m2sReg, m2s, mem, txEn, air, history>>
<1>1. pc \in [Threads -> Labels] /\ r \in Threads
  BY DEF TypeInv, TypeOK, Threads
<1>2. CASE ReadPause(r) \/ ReadResume(r)
  BY <1>1, <1>2 DEF ReadPause, ReadResume, SetDmaEn, Goto, ReadLabels, driver
<1>3. CASE ReadLock(r) \/ ReadEnd(r) \/ ReadTimesOut(r)
  BY <1>1, <1>3 DEF ReadLock, ReadEnd, ReadTimesOut, Goto, ReadLabels, driver, hardware
<1> QED BY <1>2, <1>3 DEF ReadStep

LEMMA TypeReader ==
  ASSUME NEW t \in Readers, TypeInv, ReadStep(t) PROVE TypeInv'
<1>1. /\ t \in Threads /\ 0 \in Bit /\ 1 \in Bit
      /\ \A l \in ReadLabels \cup {"idle"} : l \in Plain
  BY DEF Threads, Plain, Labels, ReadLabels, Bit
<1>2. /\ m2sReg \in [base : Memory \cup {NoBuf}, len : Nat, cycles : Nat]
      /\ m2s \in [base : Memory \cup {NoBuf}, off : Nat, len : Nat, again : Nat]
  BY DEF TypeInv, TypeOK
<1>3. CASE ReadPause(t) \/ ReadResume(t)
  <2>1. /\ Goto(t, "idle", "lockRead") \/ Goto(t, "drain", "capture")
        /\ dmaEn' \in Bit /\ UNCHANGED <<m2sReg, m2s>>
        /\ UNCHANGED <<locals, driver, mem, txEn, air, history>>
    BY <1>1, <1>3 DEF ReadPause, ReadResume, SetDmaEn
  <2> QED BY <1>1, <1>2, <2>1, TypeRegister DEF ReadLabels
<1>4. CASE ReadLock(t) \/ ReadEnd(t) \/ ReadTimesOut(t)
  <2>1. /\ rxLock' \in {t, NoThread, rxLock}
        /\ UNCHANGED <<locals, dbuf, owner, hardware, history>>
    BY <1>4 DEF ReadLock, ReadEnd, ReadTimesOut, driver
  <2>2. \E to \in {"drain", "idle"} : pc' = [pc EXCEPT ![t] = to]
    BY <1>4 DEF ReadLock, ReadEnd, ReadTimesOut, Goto
  <2>3. TypeOK'
    BY <1>1, <2>1, <2>2 DEF TypeInv, TypeOK, Labels, ReadLabels, locals, hardware, history
  <2>4. IndexInv'
    <3>1. pc[t] \in {"lockRead", "capture"}
      BY <1>4 DEF ReadLock, ReadEnd, ReadTimesOut, Goto
    <3> QED BY <1>1, <2>1, <2>2, <3>1 DEF TypeInv, TypeOK, IndexInv, locals
  <2> QED BY <2>3, <2>4 DEF TypeInv
<1> QED BY <1>3, <1>4 DEF ReadStep

LEMMA TypeStep == TypeInv /\ [Next]_vars => TypeInv'
<1> SUFFICES ASSUME TypeInv, [Next]_vars PROVE TypeInv'
  OBVIOUS
<1>1. CASE UNCHANGED vars
  BY <1>1 DEF TypeInv, TypeOK, IndexInv, vars, locals, driver, hardware, history
<1> QED BY <1>1, TypeBegin, TypeInCall, TypeDmaSend, TypeReader DEF Next

\* Every variable of driver and transmit hardware keeps its type, whatever
\* calls any number of threads make.
THEOREM TxTypeCorrect == Spec => []TypeOK
<1>1. TypeInv => TypeOK
  BY DEF TypeInv
<1> QED BY <1>1, TypeInit, TypeStep, PTL DEF Spec

----------------------------------------------------------------------------
(* A single writer: what its transfers read.                               *)

LEMMA InvInit == Init => IInv
<1> SUFFICES ASSUME Init PROVE IInv
  OBVIOUS
<1>1. TypeInv
  BY TypeInit
<1>2. BufferInv /\ ProgramInv
  BY DEF Init, BufferInv, ProgramInv, InWrite, WriteLabels, Threads
<1>3. TransferInv
  BY DEF Init, TransferInv, Remaining
<1> QED BY <1>1, <1>2, <1>3 DEF IInv

\* While the writer does not wait, no transfer from a buffer goes on.
LEMMA TransferKept ==
  ASSUME OneWriter, TransferInv, NEW t \in Writers, pc[t] # "wait", m2s' = m2s
  PROVE  TransferInv'
BY DEF OneWriter, TransferInv, Remaining

\* A step that stays out of write() and programs nothing.
LEMMA OutsideWrite ==
  ASSUME OneWriter, IInv, TypeInv', NEW t \in Writers,
         pc[t] # "wait", m2s' = m2s,
         pc'[t] \notin WriteLabels \cup {"sLength", "sGo"}
  PROVE  IInv'
<1>1. TransferInv'
  BY TransferKept DEF IInv
<1>2. BufferInv'
  BY DEF OneWriter, BufferInv, InWrite
<1>3. ProgramInv'
  BY DEF OneWriter, ProgramInv, WriteLabels
<1> QED BY <1>1, <1>2, <1>3 DEF IInv

LEMMA InvBegin ==
  ASSUME OneWriter, IInv, TypeInv', NEW t \in Writers, Begin(t) PROVE IInv'
<1>1. pc \in [Threads -> Labels] /\ t \in Threads
  BY DEF IInv, TypeInv, TypeOK, Threads
<1>2. pc[t] = "idle"
  BY DEF Begin, WriteAlloc, TxEnable, SetCycle, WriteM2s, ScratchWrite, ScratchTx, Goto
<1>3. ASSUME NEW b \in Buffers, NEW m \in Messages, NEW n \in Sizes, WriteAlloc(t, b, m, n)
      PROVE  IInv'
  <2>1. pc'[t] = "copy" /\ m2s' = m2s
    BY <1>1, <1>3 DEF WriteAlloc, Goto
  <2>2. kbuf'[t] = b /\ dbuf' = b /\ owner'[b] = t /\ size'[t] = n
    BY <1>1, <1>3 DEF WriteAlloc, Allocate, IInv, TypeInv, TypeOK
  <2>3. BufferInv'
    BY <2>2 DEF OneWriter, BufferInv
  <2>4. ProgramInv'
    BY <2>1 DEF OneWriter, ProgramInv
  <2>5. TransferInv'
    BY <1>2, <2>1, TransferKept DEF IInv
  <2> QED BY <2>3, <2>4, <2>5 DEF IInv
<1>4. ASSUME \/ \E mask \in Masks : TxEnable(t, mask)
             \/ \E n \in CycleCounts : SetCycle(t, n)
             \/ \E m \in Messages : ScratchWrite(t, m)
             \/ \E n \in Offsets : ScratchTx(t, n)
      PROVE  IInv'
  <2>1. pc'[t] \in {"enWrite", "idle", "scratch", "sDmaOn"} /\ m2s' = m2s
    BY <1>1, <1>4 DEF TxEnable, SetCycle, WriteM2s, ScratchWrite, ScratchTx, Goto, hardware
  <2>2. pc'[t] \notin WriteLabels \cup {"sLength", "sGo"}
    BY <2>1 DEF WriteLabels
  <2> QED BY <1>2, <2>1, <2>2, OutsideWrite
<1> QED BY <1>3, <1>4 DEF Begin

LEMMA InvInCall ==
  ASSUME OneWriter, IInv, TypeInv', NEW t \in Writers, InCall(t) PROVE IInv'
<1>1. /\ pc \in [Threads -> Labels] /\ t \in Threads
      /\ m2sReg \in [base : Memory \cup {NoBuf}, len : Nat, cycles : Nat]
  BY DEF IInv, TypeInv, TypeOK, Threads
<1>2. BufferInv /\ ProgramInv /\ TransferInv
  BY DEF IInv
<1>3. InWrite(t) => /\ kbuf[t] \in Buffers /\ owner[kbuf[t]] = t
                    /\ dbuf = kbuf[t]
                    /\ size[t] \in Sizes
  BY <1>2 DEF BufferInv
<1>4. \A l : pc[t] = l /\ l \in WriteLabels => InWrite(t)
  BY DEF InWrite
\* Steps of write() that leave buffer and transfer alone.
<1>5. ASSUME InWrite(t), UNCHANGED <<kbuf, owner, dbuf, size>> PROVE BufferInv'
  BY <1>3, <1>5 DEF OneWriter, BufferInv
<1>6. CASE CopyIn(t) \/ CopyFails(t) \/ WriteDmaOn(t)
  <2>1. /\ pc[t] \in {"copy", "dmaOn"} /\ pc'[t] \in {"dmaOn", "free", "base"}
        /\ m2s' = m2s /\ UNCHANGED <<kbuf, owner, dbuf, size>>
    BY <1>1, <1>6 DEF CopyIn, CopyFails, WriteDmaOn, SetDmaEn, Goto, hardware, driver, locals
  <2>2. InWrite(t)
    BY <2>1 DEF InWrite, WriteLabels
  <2>3. ProgramInv'
    BY <2>1 DEF OneWriter, ProgramInv
  <2>4. TransferInv'
    BY <1>2, <2>1, TransferKept
  <2> QED BY <1>5, <2>1, <2>2, <2>3, <2>4 DEF IInv
<1>7. CASE WriteBase(t)
  <2>1. /\ pc[t] = "base" /\ pc'[t] = "length" /\ m2sReg'.base = dbuf
        /\ m2s' = m2s /\ UNCHANGED <<kbuf, owner, dbuf, size>>
    BY <1>1, <1>7 DEF WriteBase, WriteM2s, Goto, driver, locals
  <2>2. InWrite(t)
    BY <2>1 DEF InWrite, WriteLabels
  <2>3. ProgramInv'
    BY <1>3, <2>1, <2>2 DEF OneWriter, ProgramInv
  <2>4. TransferInv'
    BY <1>2, <2>1, TransferKept
  <2> QED BY <1>5, <2>1, <2>2, <2>3, <2>4 DEF IInv
<1>8. CASE WriteLength(t)
  <2>1. /\ pc[t] = "length" /\ pc'[t] = "go" /\ m2sReg'.base = m2sReg.base
        /\ m2sReg'.len = LengthReg(size[t])
        /\ m2s' = m2s /\ UNCHANGED <<kbuf, owner, dbuf, size>>
    BY <1>1, <1>8 DEF WriteLength, WriteM2s, Goto, driver, locals
  <2>2. InWrite(t)
    BY <2>1 DEF InWrite, WriteLabels
  <2>3. ProgramInv'
    <3>1. m2sReg.base = kbuf[t]
      BY <1>2, <2>1 DEF ProgramInv
    <3>2. LengthReg(size[t])' = LengthReg(size[t])
      BY <2>1 DEF LengthReg, WordsOf
    <3> QED BY <2>1, <3>1, <3>2 DEF OneWriter, ProgramInv
  <2>4. TransferInv'
    BY <1>2, <2>1, TransferKept
  <2> QED BY <1>5, <2>1, <2>2, <2>3, <2>4 DEF IInv
<1>9. CASE WriteGo(t)
  <2>1. /\ pc[t] = "go" /\ pc'[t] = "wait" /\ m2sReg' = m2sReg
        /\ m2s'.base = m2sReg.base /\ m2s'.len = m2sReg.len + 1
        /\ UNCHANGED <<kbuf, owner, dbuf, size>>
    BY <1>1, <1>9 DEF WriteGo, StartM2s, Goto, driver, locals
  <2>2. InWrite(t)
    BY <2>1 DEF InWrite, WriteLabels
  <2>3. ProgramInv'
    BY <2>1 DEF OneWriter, ProgramInv
  <2>4. TransferInv'
    <3>1. m2sReg.base = kbuf[t] /\ m2sReg.len = LengthReg(size[t])
      BY <1>2, <2>1 DEF ProgramInv
    <3>2. size[t] \in Nat /\ size[t] > 0
      <4>1. Sizes \subseteq 1..(4 * MemWords) /\ MemWords \in Nat
        BY TxAssumption DEF TxAssumption
      <4>2. size[t] \in 1..(4 * MemWords)
        BY <1>3, <2>2, <4>1
      <4> HIDE DEF WordsOf
      <4> QED BY <4>1, <4>2
    <3>3. LengthReg(size[t]) + 1 <= WordsOf(size[t])
      BY <3>2, LengthRegBound
    <3>4. pc'[t] = "wait" /\ kbuf'[t] = m2s'.base /\ m2s'.len <= WordsOf(size'[t])
      BY <2>1, <3>1, <3>3
    <3> QED BY <3>4 DEF TransferInv, WordsOf
  <2> QED BY <1>5, <2>1, <2>2, <2>3, <2>4 DEF IInv
<1>10. CASE WaitTurn(t) \/ WaitOver(t)
  <2>1. /\ pc[t] = "wait" /\ pc'[t] \in {"wait", "free"}
        /\ m2s' = m2s /\ m2sReg' = m2sReg /\ UNCHANGED <<kbuf, owner, dbuf, size>>
        /\ Remaining => pc'[t] = "wait"
    BY <1>1, <1>10 DEF WaitTurn, WaitOver, LeaveWait, Goto, hardware, driver, locals
  <2>2. InWrite(t)
    BY <2>1 DEF InWrite, WriteLabels
  <2>3. ProgramInv'
    BY <2>1 DEF OneWriter, ProgramInv
  <2>4. TransferInv'
    BY <1>2, <2>1 DEF OneWriter, TransferInv, Remaining, WordsOf
  <2> QED BY <1>5, <2>1, <2>2, <2>3, <2>4 DEF IInv
<1>11. CASE WriteFree(t) \/ EnableWrite(t) \/ EnableRead(t) \/ ScratchStep(t)
  <2>1. pc[t] # "wait" /\ m2s' = m2s /\ pc'[t] \in {"idle", "enWrite", "enRead", "scratch"}
    BY <1>1, <1>11 DEF WriteFree, EnableWrite, EnableRead, ReadBack, ScratchStep, Goto, hardware
  <2>2. pc'[t] \notin WriteLabels \cup {"sLength", "sGo"}
    BY <2>1 DEF WriteLabels
  <2> QED BY <2>1, <2>2, OutsideWrite
<1>12. CASE ScratchTxStep(t)
  <2>1. CASE SetDmaEn(t, "sDmaOn", "sBase", 1)
    <3>1. pc[t] # "wait" /\ m2s' = m2s /\ pc'[t] = "sBase"
      BY <1>1, <2>1 DEF SetDmaEn, Goto
    <3>2. pc'[t] \notin WriteLabels \cup {"sLength", "sGo"}
      BY <3>1 DEF WriteLabels
    <3> QED BY <3>1, <3>2, OutsideWrite
  <2>2. CASE \/ WriteM2s(t, "sBase", "sLength", "base", Scratch)
             \/ WriteM2s(t, "sLength", "sGo", "len", size[t] % LenMod)
    <3>1. /\ pc[t] \in {"sBase", "sLength"} /\ pc'[t] \in {"sLength", "sGo"}
          /\ m2s' = m2s
          /\ m2sReg'.base = IF pc[t] = "sBase" THEN Scratch ELSE m2sReg.base
      BY <1>1, <2>2 DEF WriteM2s, Goto
    <3>2. pc'[t] \notin WriteLabels
      BY <3>1 DEF WriteLabels
    <3>3. BufferInv'
      BY <3>2 DEF OneWriter, BufferInv, InWrite
    <3>4. ProgramInv'
      <4>1. m2sReg'.base = Scratch
        BY <1>2, <3>1 DEF ProgramInv
      <4> QED BY <3>1, <4>1 DEF OneWriter, ProgramInv
    <3>5. TransferInv'
      BY <1>2, <3>1, TransferKept
    <3> QED BY <3>3, <3>4, <3>5 DEF IInv
  <2>3. CASE StartM2s(t, "sGo", "idle")
    <3>1. pc[t] = "sGo" /\ pc'[t] = "idle" /\ m2s'.base = m2sReg.base
      BY <1>1, <2>3 DEF StartM2s, Goto
    <3>2. m2s'.base \notin Buffers
      <4>1. m2sReg.base = Scratch
        BY <1>2, <3>1 DEF ProgramInv
      <4> QED BY <3>1, <4>1, TxAssumption DEF TxAssumption
    <3>3. BufferInv' /\ ProgramInv'
      BY <3>1 DEF OneWriter, BufferInv, ProgramInv, InWrite, WriteLabels
    <3>4. TransferInv'
      BY <3>2 DEF TransferInv
    <3> QED BY <3>3, <3>4 DEF IInv
  <2> QED BY <1>12, <2>1, <2>2, <2>3 DEF ScratchTxStep
<1> QED BY <1>6, <1>7, <1>8, <1>9, <1>10, <1>11, <1>12 DEF InCall, WriteStep

LEMMA InvStep == OneWriter /\ IInv /\ [Next]_vars => IInv'
<1> SUFFICES ASSUME OneWriter, IInv, [Next]_vars PROVE IInv'
  OBVIOUS
<1>1. TypeInv'
  BY TypeStep DEF IInv
<1>2. CASE DmaSend
  <2>1. /\ Remaining /\ m2s'.base = m2s.base /\ m2s'.len = m2s.len
        /\ UNCHANGED <<pc, locals, driver, m2sReg>>
    BY <1>2 DEF DmaSend
  <2>2. BufferInv'
    BY <2>1 DEF IInv, BufferInv, InWrite, locals, driver
  <2>3. ProgramInv'
    BY <2>1 DEF IInv, ProgramInv, LengthReg, WordsOf, locals
  <2>4. TransferInv'
    BY <2>1 DEF IInv, TransferInv, WordsOf, locals
  <2> QED BY <1>1, <2>2, <2>3, <2>4 DEF IInv
<1>3. ASSUME NEW r \in Readers, ReadStep(r) PROVE IInv'
  <2>1. /\ pc[r] \in ReadLabels \cup {"idle"} /\ pc'[r] \in ReadLabels \cup {"idle"}
        /\ \A t \in Threads \ {r} : pc'[t] = pc[t]
        /\ UNCHANGED <<locals, dbuf, owner, m2sReg, m2s>>
    BY <1>3, ReaderFrame DEF IInv
  <2>2. \A t \in Writers : pc'[t] # pc[t] => pc'[t] \in {"idle", "lockRead", "drain", "capture"}
    BY <2>1 DEF Threads, ReadLabels
  <2>3. BufferInv'
    BY <2>1, <2>2 DEF IInv, BufferInv, InWrite, WriteLabels, locals
  <2>4. ProgramInv'
    BY <2>1, <2>2 DEF IInv, ProgramInv, LengthReg, WordsOf, locals
  <2>5. TransferInv'
    <3>1. \A t \in Writers : pc[t] = "wait" => pc'[t] = "wait"
      BY <2>1 DEF Threads, ReadLabels
    <3> QED BY <2>1, <3>1 DEF IInv, TransferInv, Remaining, WordsOf, locals
  <2> QED BY <1>1, <2>3, <2>4, <2>5 DEF IInv
<1>4. CASE UNCHANGED vars
  <2>1. BufferInv' /\ ProgramInv'
    BY <1>4 DEF IInv, BufferInv, ProgramInv, InWrite, LengthReg, WordsOf,
       vars, locals, driver, hardware
  <2>2. TransferInv'
    BY <1>4 DEF IInv, TransferInv, Remaining, WordsOf, vars, locals, hardware
  <2> QED BY <1>1, <2>1, <2>2 DEF IInv
<1> QED BY <1>1, <1>2, <1>3, <1>4, InvBegin, InvInCall DEF Next

LEMMA TxInvariant == ASSUME OneWriter PROVE Spec => []IInv
<1>1. IInv /\ [Next]_vars => IInv'
  BY InvStep
<1> QED BY <1>1, InvInit, PTL DEF Spec

\* A write() gives the DMA, and frees, the buffer it allocated, if no other
\* thread writes: dbuf may be static then.
THEOREM TxOwnAddress == ASSUME OneWriter PROVE Spec => []OwnAddress
<1>1. IInv => OwnAddress
  BY DEF IInv, BufferInv, OwnAddress
<1> QED BY <1>1, TxInvariant, PTL

\* The DMA reads no buffer after it was freed, and none past its end, if no
\* other thread writes.
THEOREM TxReadsLiveMemory == ASSUME OneWriter PROVE Spec => []ReadsLiveMemory
<1>1. IInv => ReadsLiveMemory
  <2> SUFFICES ASSUME IInv, Remaining, m2s.base \in Buffers
               PROVE  /\ owner[m2s.base] # NoThread
                      /\ m2s.len <= WordsOf(size[owner[m2s.base]])
    BY DEF ReadsLiveMemory
  <2>1. PICK t \in Writers :
          pc[t] = "wait" /\ kbuf[t] = m2s.base /\ m2s.len <= WordsOf(size[t])
    BY DEF IInv, TransferInv
  <2>2. owner[m2s.base] = t
    BY <2>1 DEF IInv, BufferInv, InWrite, WriteLabels
  <2> QED BY <2>1, <2>2, TxAssumption DEF TxAssumption, Threads
<1> QED BY <1>1, TxInvariant, PTL
----------------------------------------------------------------------------
(* A single writer: what its transfers put on the air.                     *)

\* The length register can hold the length of every write().
FitsLength == \A n \in Sizes : WordsOf(n) <= LenMod

\* Where a write() has filled its buffer and not yet seen the end of it.
Sending == {"dmaOn", "base", "length", "go", "wait"}

\* The words the DMA has still to send of it, and the offset of the first.
Owed(t) ==
  IF pc[t] \notin Sending THEN 0
  ELSE IF pc[t] = "wait" THEN m2s.again * WordsOf(size[t]) + (WordsOf(size[t]) - m2s.off)
  ELSE (m2sReg.cycles + 1) * WordsOf(size[t])
Due(t, d) == IF BitOf(status, d) = 1 THEN Owed(t) ELSE 0
NextOff(t) == IF pc[t] = "wait" THEN m2s.off ELSE 0

\* TX_ENABLE has told what the multiplexers are set to, or is about to.
EnableInv ==
  \A t \in Writers :
    /\ pc[t] \notin {"enWrite", "enRead"} => \A d \in Dacs : txEn[d] = BitOf(status, d)
    /\ pc[t] = "enRead" /\ idx[t] = 1 => arg[t] = txEn[0]

\* A filled buffer holds the message.
PayloadInv ==
  \A t \in Writers : pc[t] \in Sending =>
    \A o \in Offsets : o < WordsOf(size[t]) => mem[kbuf[t]][o] = data[t]

\* The transfer a write() waits for is the one it asked for.
RoundInv ==
  /\ m2s.base = NoBuf => ~Remaining
  /\ \A t \in Writers : pc[t] = "wait" =>
       /\ m2s.base = kbuf[t]
       /\ m2s.len = WordsOf(size[t])
       /\ m2s.off <= m2s.len
       /\ m2s.again > 0 => m2s.off < m2s.len

\* What was heard begins what was promised; the rest are the next words
\* of a message m of w words at address b, from offset next on.
Matches(heard, due, owed, next, m, b, w) ==
  /\ Len(due) = Len(heard) + owed
  /\ \A i \in 1..Len(heard) : heard[i] = due[i]
  /\ \A j \in 1..owed :
       due[Len(heard) + j] = [msg |-> m, base |-> b, off |-> (next + (j - 1)) % w]

AirInv ==
  \A t \in Writers, d \in Dacs :
    Matches(air[d], promised[d], Due(t, d), NextOff(t), data[t], kbuf[t], WordsOf(size[t]))

OnAirInv == IInv /\ EnableInv /\ PayloadInv /\ RoundInv /\ AirInv

LEMMA Wrap ==
  ASSUME NEW w \in Nat \ {0}, NEW j \in Nat
  PROVE  (w + j) % w = j % w
<1> DEFINE q == j \div w
           r == j % w
           p == (w + j) \div w
           s == (w + j) % w
<1>1. q \in Int /\ r \in 0..(w - 1) /\ j = w * q + r
  OBVIOUS
<1>2. p \in Int /\ s \in 0..(w - 1) /\ w + j = w * p + s
  OBVIOUS
<1> HIDE DEF q, r, p, s
<1>3. w * (q + 1 - p) = s - r
  <2>1. w * (q + 1 - p) = w * q + w - w * p
    BY <1>1, <1>2
  <2> QED BY <1>1, <1>2, <2>1
<1>4. q + 1 - p = 0
  <2> DEFINE e == q + 1 - p
  <2>1. e \in Int
    BY <1>1, <1>2
  <2> HIDE DEF e
  <2>2. w * e = s - r
    BY <1>3 DEF e
  <2>3. CASE e >= 1
    <3>1. w * e >= w
      BY <2>1, <2>3
    <3> QED BY <1>1, <1>2, <2>2, <3>1
  <2>4. CASE e <= 0 - 1
    <3>1. w * e <= 0 - w
      BY <2>1, <2>4
    <3> QED BY <1>1, <1>2, <2>2, <3>1
  <2> QED BY <2>1, <2>3, <2>4 DEF e
<1>5. s - r = 0
  <2>1. w * 0 = 0
    OBVIOUS
  <2> QED BY <1>3, <1>4, <2>1
<1> QED BY <1>1, <1>2, <1>5 DEF r, s

LEMMA SmallRest ==
  ASSUME NEW w \in Nat \ {0}, NEW j \in Nat, j < w
  PROVE  j % w = j
OBVIOUS

\* The register of a length that fits holds it exactly.
LEMMA LengthRegExact ==
  ASSUME NEW n \in Nat, n > 0, WordsOf(n) <= LenMod
  PROVE  LengthReg(n) + 1 = WordsOf(n)
<1> DEFINE k == WordsOf(n) - 1
<1>1. LenMod \in Nat \ {0}
  BY TxAssumption DEF TxAssumption
<1>2. WordsOf(n) = k + 1 /\ k \in Nat /\ k < LenMod
  <2>1. WordsOf(n) \in Nat /\ WordsOf(n) >= 1
    BY DEF WordsOf
  <2> HIDE DEF WordsOf
  <2> QED BY <1>1, <2>1
<1> HIDE DEF k
<1>3. WordsOf(n) + LenMod - 1 = LenMod + k
  BY <1>1, <1>2
<1>4. LengthReg(n) = k % LenMod
  BY <1>1, <1>2, <1>3, Wrap DEF LengthReg
<1> QED BY <1>1, <1>2, <1>4, SmallRest

\* Nothing owed: the remaining arguments do not matter.
LEMMA MatchesNone ==
  ASSUME NEW heard, NEW due, NEW n, NEW m, NEW b, NEW w, NEW n2, NEW m2, NEW b2, NEW w2,
         Matches(heard, due, 0, n, m, b, w)
  PROVE  Matches(heard, due, 0, n2, m2, b2, w2)
BY DEF Matches

\* The DMA sends the next word.
LEMMA MatchesSend ==
  ASSUME NEW heard \in Seq(Words), NEW due \in Seq(Words), NEW owed \in Nat, owed > 0,
         NEW m, NEW b, NEW w \in Nat \ {0}, NEW next \in Nat, next < w,
         NEW next2, next2 = next + 1 \/ (next2 = 0 /\ next + 1 = w),
         NEW word \in Words, word = [msg |-> m, base |-> b, off |-> next],
         Matches(heard, due, owed, next, m, b, w)
  PROVE  Matches(Append(heard, word), due, owed - 1, next2, m, b, w)
<1> DEFINE now == Append(heard, word)
           L == Len(heard)
<1>1. L \in Nat
  BY LenProperties
<1>2. Len(now) = L + 1 /\ (\A i \in 1..L : now[i] = heard[i]) /\ now[L + 1] = word
  BY AppendProperties
<1>3. /\ Len(due) = L + owed
      /\ \A i \in 1..L : heard[i] = due[i]
      /\ \A j \in 1..owed : due[L + j] = [msg |-> m, base |-> b, off |-> (next + (j - 1)) % w]
  BY DEF Matches
<1> HIDE DEF now, L
<1>4. Len(due) = Len(now) + (owed - 1)
  BY <1>1, <1>2, <1>3
<1>5. due[L + 1] = word
  <2>1. 1 \in 1..owed
    OBVIOUS
  <2>2. due[L + 1] = [msg |-> m, base |-> b, off |-> (next + (1 - 1)) % w]
    BY <1>3, <2>1
  <2>3. next + (1 - 1) = next
    OBVIOUS
  <2>4. next % w = next
    BY SmallRest
  <2> QED BY <2>2, <2>3, <2>4
<1>6. \A i \in 1..Len(now) : now[i] = due[i]
  <2> SUFFICES ASSUME NEW i \in 1..(L + 1) PROVE now[i] = due[i]
    BY <1>2
  <2>1. i \in 1..L \/ i = L + 1
    BY <1>1
  <2> QED BY <1>2, <1>3, <1>5, <2>1
<1>7. ASSUME NEW j \in 1..(owed - 1)
      PROVE  due[Len(now) + j] = [msg |-> m, base |-> b, off |-> (next2 + (j - 1)) % w]
  <2>1. j + 1 \in 1..owed /\ Len(now) + j = L + (j + 1) /\ next + ((j + 1) - 1) = next + j
    BY <1>1, <1>2
  <2>2. due[Len(now) + j] = [msg |-> m, base |-> b, off |-> (next + j) % w]
    <3>1. due[L + (j + 1)] = [msg |-> m, base |-> b, off |-> (next + ((j + 1) - 1)) % w]
      BY <1>3, <2>1
    <3> QED BY <2>1, <3>1
  <2>3. (next2 + (j - 1)) % w = (next + j) % w
    <3>1. CASE next2 = next + 1
      <4>1. next2 + (j - 1) = next + j
        BY <3>1
      <4> QED BY <4>1
    <3>2. CASE next2 = 0 /\ next + 1 = w
      <4>1. j - 1 \in Nat /\ next + j = w + (j - 1) /\ next2 + (j - 1) = j - 1
        BY <3>2
      <4>2. (w + (j - 1)) % w = (j - 1) % w
        BY <4>1, Wrap
      <4> QED BY <4>1, <4>2
    <3> QED BY <3>1, <3>2
  <2> QED BY <2>2, <2>3
<1>8. Matches(now, due, owed - 1, next2, m, b, w)
  BY <1>4, <1>6, <1>7 DEF Matches
<1> QED BY <1>8 DEF now

\* write() has copied its message: all its words, as often as they are sent,
\* are owed.
LEMMA MatchesStart ==
  ASSUME NEW heard \in Seq(Words), NEW due \in Seq(Words),
         NEW m \in Messages \cup {NoData}, NEW b \in Memory \cup {NoBuf}, NEW n \in Nat,
         NEW times \in Nat,
         NEW n0, NEW m0, NEW b0, NEW w0, Matches(heard, due, 0, n0, m0, b0, w0)
  PROVE  Matches(heard, due \o Repeated(m, b, n, times), times * WordsOf(n), 0,
                 m, b, WordsOf(n))
<1> DEFINE new == Repeated(m, b, n, times)
           w == WordsOf(n)
           k == times * w
<1>1. w \in Nat /\ k \in Nat
  <2>1. w \in Nat
    BY WordCount
  <2> HIDE DEF w
  <2> QED BY <2>1
<1>2. new \in Seq(Words)
  BY RepeatedType
<1>3. Len(new) = k /\ \A j \in 1..k : new[j] = [msg |-> m, base |-> b, off |-> (j - 1) % w]
  <2>1. new = [i \in 1..k |-> [msg |-> m, base |-> b, off |-> (i - 1) % w]]
    BY DEF Repeated
  <2> HIDE DEF new, k
  <2>2. DOMAIN new = 1..k
    BY <2>1
  <2> QED BY <1>1, <1>2, <2>1, <2>2, LenProperties
<1>4. Len(heard) \in Nat /\ Len(due) = Len(heard)
  BY LenProperties DEF Matches
<1>5. \A i \in 1..Len(heard) : heard[i] = due[i]
  BY DEF Matches
<1> HIDE DEF new, k, w
<1> DEFINE all == due \o new
<1>6. /\ Len(all) = Len(due) + Len(new)
      /\ \A i \in 1..Len(due) : all[i] = due[i]
      /\ \A j \in 1..Len(new) : all[Len(due) + j] = new[j]
  <2>1. Len(all) = Len(due) + Len(new)
    BY <1>2, ConcatProperties
  <2>2. \A i \in 1..(Len(due) + Len(new)) :
          all[i] = IF i <= Len(due) THEN due[i] ELSE new[i - Len(due)]
    BY <1>2, ConcatProperties
  <2>3. ASSUME NEW j \in 1..Len(new) PROVE all[Len(due) + j] = new[j]
    <3>1. /\ Len(due) + j \in 1..(Len(due) + Len(new)) /\ ~(Len(due) + j <= Len(due))
          /\ (Len(due) + j) - Len(due) = j
      BY <1>1, <1>3, <1>4
    <3> HIDE DEF all
    <3> QED BY <2>2, <3>1
  <2>4. ASSUME NEW i \in 1..Len(due) PROVE all[i] = due[i]
    <3>1. i \in 1..(Len(due) + Len(new)) /\ i <= Len(due)
      BY <1>1, <1>3, <1>4
    <3> HIDE DEF all
    <3> QED BY <2>2, <3>1
  <2> QED BY <2>1, <2>3, <2>4
<1> HIDE DEF all
<1>7. ASSUME NEW j \in 1..k
      PROVE  all[Len(heard) + j] = [msg |-> m, base |-> b, off |-> (0 + (j - 1)) % w]
  <2>1. 0 + (j - 1) = j - 1
    BY <1>1
  <2> QED BY <1>3, <1>4, <1>6, <2>1
<1>8. Matches(heard, all, k, 0, m, b, w)
  BY <1>3, <1>4, <1>5, <1>6, <1>7 DEF Matches
<1> QED BY <1>8 DEF all, new, k, w

LEMMA MatchesPrefix ==
  ASSUME NEW heard \in Seq(Words), NEW due \in Seq(Words), NEW owed \in Nat,
         NEW n, NEW m, NEW b, NEW w, Matches(heard, due, owed, n, m, b, w)
  PROVE  IsPrefix(heard, due) /\ (owed = 0 => heard = due)
<1> DEFINE L == Len(heard)
           head == SubSeq(due, 1, L)
           self == SubSeq(heard, 1, L)
<1>1. L \in Nat /\ Len(due) = L + owed /\ \A i \in 1..L : heard[i] = due[i]
  BY LenProperties DEF Matches
<1>2. L <= Len(due) /\ Len(due) \in Nat
  BY <1>1
<1> HIDE DEF L
<1>3. head \in Seq(Words) /\ Len(head) = L /\ \A i \in 1..L : head[i] = due[i]
  <2>1. /\ 1 \in 1..(Len(due) + 1) /\ L \in 0..Len(due)
    BY <1>1, <1>2
  <2>2. 1 <= 1 /\ L - 1 + 1 = L
    BY <1>1
  <2>3. /\ Len(head) = IF 1 <= L THEN L - 1 + 1 ELSE 0
        /\ \A i \in 1..(L - 1 + 1) : head[i] = due[1 + i - 1]
        /\ head \in Seq(Words)
    BY <1>1, <1>2, <2>1, SubSeqProperties
  <2> HIDE DEF head
  <2>4. \A i \in 1..L : head[i] = due[i]
    BY <1>1, <2>2, <2>3
  <2> QED BY <1>1, <2>3, <2>4
<1>4. self \in Seq(Words) /\ Len(self) = L /\ \A i \in 1..L : self[i] = heard[i]
  <2>1. /\ 1 \in 1..(Len(heard) + 1) /\ L \in 0..Len(heard)
    BY <1>1 DEF L
  <2>3. /\ Len(self) = IF 1 <= L THEN L - 1 + 1 ELSE 0
        /\ \A i \in 1..(L - 1 + 1) : self[i] = heard[1 + i - 1]
        /\ self \in Seq(Words)
    BY <1>1, <2>1, SubSeqProperties DEF L
  <2> HIDE DEF self
  <2>4. \A i \in 1..L : self[i] = heard[i]
    BY <1>1, <2>3
  <2> QED BY <1>1, <2>3, <2>4
<1> HIDE DEF head, self
<1>5. head = self
  <2>1. \A i \in 1..Len(head) : head[i] = self[i]
    BY <1>1, <1>3, <1>4
  <2> QED BY <1>3, <1>4, <2>1, SeqEqual
<1>6. IsPrefix(heard, due)
  BY <1>2, <1>5 DEF IsPrefix, L, head, self
<1>7. ASSUME owed = 0 PROVE heard = due
  <2>1. Len(due) = Len(heard) /\ \A i \in 1..Len(heard) : heard[i] = due[i]
    BY <1>1, <1>7 DEF L
  <2> QED BY <2>1, SeqEqual
<1> QED BY <1>6, <1>7

\* What the types say of a writer whose buffer is filled.
LEMMA SendingTypes ==
  ASSUME IInv, NEW t \in Writers, pc[t] \in Sending
  PROVE  /\ WordsOf(size[t]) \in Nat \ {0} /\ WordsOf(size[t]) <= MemWords
         /\ size[t] \in Nat /\ size[t] > 0 /\ size[t] \in Sizes
         /\ kbuf[t] \in Buffers /\ kbuf[t] \in Memory
         /\ data[t] \in Messages \cup {NoData}
<1>1. InWrite(t)
  BY DEF InWrite, Sending, WriteLabels
<1>2. size[t] \in Sizes /\ kbuf[t] \in Buffers
  BY <1>1 DEF IInv, BufferInv
<1>3. Sizes \subseteq 1..(4 * MemWords) /\ MemWords \in Nat
  BY TxAssumption DEF TxAssumption
<1>4. size[t] \in 1..(4 * MemWords)
  BY <1>2, <1>3
<1> DEFINE n == size[t]
<1>5. n \in Nat /\ n > 0 /\ n <= 4 * MemWords
  BY <1>3, <1>4
<1> HIDE DEF n
<1>6. WordsOf(n) \in Nat \ {0} /\ WordsOf(n) <= MemWords
  BY <1>3, <1>5 DEF WordsOf
<1>7. data[t] \in Messages \cup {NoData}
  BY DEF IInv, TypeInv, TypeOK, Threads
<1> QED BY <1>2, <1>5, <1>6, <1>7 DEF n, Memory

\* The type invariant, member by member.
LEMMA StateTypes ==
  ASSUME TypeInv
  PROVE  /\ pc \in [Threads -> Labels]
         /\ m2s \in [base : Memory \cup {NoBuf}, off : Nat, len : Nat, again : Nat]
         /\ m2sReg \in [base : Memory \cup {NoBuf}, len : Nat, cycles : Nat]
         /\ \A d \in Dacs : air[d] \in Seq(Words) /\ promised[d] \in Seq(Words)
         /\ \A d \in Dacs : txEn[d] \in Bit
         /\ mem \in [Memory -> [Offsets -> Messages \cup {NoData}]]
         /\ air \in [Dacs -> Seq(Words)]
BY DEF TypeInv, TypeOK

LEMMA OwedType ==
  ASSUME IInv, RoundInv, NEW t \in Writers
  PROVE  Owed(t) \in Nat /\ NextOff(t) \in Nat
<1>1. CASE pc[t] \notin Sending
  BY <1>1 DEF Owed, NextOff, Sending
<1>2. CASE pc[t] \in Sending
  <2> DEFINE w == WordsOf(size[t])
  <2>1. w \in Nat
    BY <1>2, SendingTypes
  <2>2. m2s.again \in Nat /\ m2s.off \in Nat /\ m2sReg.cycles \in Nat
    BY StateTypes DEF IInv, TypeInv
  <2>3. pc[t] = "wait" => w - m2s.off \in Nat
    <3>1. pc[t] = "wait" => m2s.off <= w
      BY DEF RoundInv
    <3> HIDE DEF w
    <3> QED BY <2>1, <2>2, <3>1
  <2> HIDE DEF w
  <2>4. m2s.again * w \in Nat /\ (m2sReg.cycles + 1) * w \in Nat
    BY <2>1, <2>2
  <2>5. pc[t] = "wait" => m2s.again * w + (w - m2s.off) \in Nat
    BY <2>3, <2>4
  <2> QED BY <1>2, <2>2, <2>4, <2>5 DEF Owed, NextOff, w
<1> QED BY <1>1, <1>2

\* A step of a writer that neither fills a buffer nor waits.
LEMMA AirQuiet ==
  ASSUME OneWriter, AirInv, NEW t \in Writers, pc[t] \notin Sending, pc'[t] \notin Sending,
         air' = air, promised' = promised
  PROVE  AirInv'
<1> SUFFICES ASSUME NEW d \in Dacs
             PROVE  Matches(air[d], promised[d], Due(t, d), NextOff(t), data[t], kbuf[t],
                            WordsOf(size[t]))'
  BY DEF OneWriter, AirInv
<1>1. Due(t, d) = 0 /\ Due(t, d)' = 0
  BY DEF Due, Owed
<1>2. Matches(air[d], promised[d], 0, NextOff(t), data[t], kbuf[t], WordsOf(size[t]))
  BY <1>1 DEF AirInv
<1> QED BY <1>1, <1>2 DEF Matches

\* A step that leaves what is owed alone.
LEMMA AirKept ==
  ASSUME AirInv, air' = air, promised' = promised, status' = status,
         \A t \in Writers :
           /\ Owed(t)' = Owed(t) /\ NextOff(t)' = NextOff(t)
           /\ data'[t] = data[t] /\ kbuf'[t] = kbuf[t] /\ size'[t] = size[t]
  PROVE  AirInv'
<1> SUFFICES ASSUME NEW t \in Writers, NEW d \in Dacs
             PROVE  Matches(air[d], promised[d], Due(t, d), NextOff(t), data[t], kbuf[t],
                            WordsOf(size[t]))'
  BY DEF AirInv
<1>1. Due(t, d)' = Due(t, d)
  BY DEF Due, BitOf
<1>2. WordsOf(size[t])' = WordsOf(size[t])
  BY DEF WordsOf
<1>3. Matches(air[d], promised[d], Due(t, d), NextOff(t), data[t], kbuf[t], WordsOf(size[t]))
  BY DEF AirInv
<1> QED BY <1>1, <1>2, <1>3 DEF Matches

LEMMA AirInit == Init => EnableInv /\ PayloadInv /\ RoundInv /\ AirInv
<1> SUFFICES ASSUME Init PROVE EnableInv /\ PayloadInv /\ RoundInv /\ AirInv
  OBVIOUS
<1>1. \A t \in Writers : pc[t] = "idle"
  BY DEF Init, Threads
<1>2. EnableInv
  BY <1>1 DEF Init, EnableInv, BitOf, Dacs
<1>3. PayloadInv /\ RoundInv
  BY <1>1 DEF Init, PayloadInv, RoundInv, Remaining, Sending
<1>4. ASSUME NEW t \in Writers, NEW d \in Dacs
      PROVE  Matches(air[d], promised[d], Due(t, d), NextOff(t), data[t], kbuf[t],
                     WordsOf(size[t]))
  <2>1. Due(t, d) = 0
    BY <1>1 DEF Due, Owed, Sending
  <2>2. air[d] = <<>> /\ promised[d] = <<>> /\ Len(<<>>) = 0
    BY DEF Init
  <2> QED BY <2>1, <2>2 DEF Matches
<1> QED BY <1>2, <1>3, <1>4 DEF AirInv

\* The DMA sends a word.
LEMMA AirDmaSend ==
  ASSUME OneWriter, OnAirInv, DmaSend
  PROVE  EnableInv' /\ PayloadInv' /\ RoundInv' /\ AirInv'
<1>1. /\ IInv /\ EnableInv /\ PayloadInv /\ RoundInv /\ AirInv
  BY DEF OnAirInv
<1>2. /\ Remaining /\ UNCHANGED <<pc, kbuf, size, data, arg, idx, m2sReg, mem, txEn,
                                   status, promised>>
      /\ m2s' = IF m2s.off + 1 = m2s.len /\ m2s.again > 0
                THEN [base |-> m2s.base, off |-> 0, len |-> m2s.len, again |-> m2s.again - 1]
                ELSE [base |-> m2s.base, off |-> m2s.off + 1, len |-> m2s.len,
                      again |-> m2s.again]
      /\ air' = [d \in Dacs |->
                   IF txEn[d] = 1 /\ m2s.base # Scratch THEN Append(air[d], Fetch) ELSE air[d]]
  BY DEF DmaSend, locals, history
<1>3. /\ m2s \in [base : Memory \cup {NoBuf}, off : Nat, len : Nat, again : Nat]
      /\ \A d \in Dacs : air[d] \in Seq(Words) /\ promised[d] \in Seq(Words) /\ txEn[d] \in Bit
  BY <1>1, StateTypes DEF IInv
<1>4. /\ m2s.off \in Nat /\ m2s.len \in Nat /\ m2s.again \in Nat
      /\ m2s.base \in Memory \cup {NoBuf} /\ m2s.off < m2s.len
  BY <1>2, <1>3 DEF Remaining
<1>5. /\ m2s'.base = m2s.base /\ m2s'.len = m2s.len
      /\ \/ /\ m2s.off + 1 = m2s.len /\ m2s.again > 0
            /\ m2s'.off = 0 /\ m2s'.again = m2s.again - 1
         \/ /\ ~(m2s.off + 1 = m2s.len /\ m2s.again > 0)
            /\ m2s'.off = m2s.off + 1 /\ m2s'.again = m2s.again
  BY <1>2
<1>6. EnableInv'
  BY <1>1, <1>2 DEF EnableInv, BitOf
<1>7. PayloadInv'
  BY <1>1, <1>2 DEF PayloadInv, WordsOf
<1>8. RoundInv'
  <2>1. m2s.base # NoBuf
    BY <1>1, <1>2 DEF RoundInv
  <2>2. m2s'.off <= m2s'.len /\ (m2s'.again > 0 => m2s'.off < m2s'.len)
    BY <1>4, <1>5
  <2> QED BY <1>1, <1>2, <1>5, <2>1, <2>2 DEF RoundInv, WordsOf
<1>9. AirInv'
  <2> SUFFICES ASSUME NEW t \in Writers, NEW d \in Dacs
               PROVE  Matches(air[d], promised[d], Due(t, d), NextOff(t), data[t], kbuf[t],
                              WordsOf(size[t]))'
    BY DEF AirInv
  <2> DEFINE w == WordsOf(size[t])
  <2>0. Matches(air[d], promised[d], Due(t, d), NextOff(t), data[t], kbuf[t], w)
    BY <1>1 DEF AirInv
  <2>1. w' = w
    BY <1>2 DEF WordsOf
  <2>2. CASE pc[t] # "wait"
    <3>1. m2s.base \notin Buffers
      BY <1>1, <1>2, <2>2 DEF IInv, TransferInv, OneWriter
    <3>2. m2s.base = Scratch
      BY <1>1, <1>2, <1>4, <3>1 DEF RoundInv, Memory
    <3>3. air'[d] = air[d]
      BY <1>2, <3>2
    <3>4. Due(t, d)' = Due(t, d) /\ NextOff(t)' = NextOff(t)
      BY <1>2, <2>2 DEF Due, Owed, NextOff, BitOf, WordsOf
    <3> QED BY <1>2, <2>0, <2>1, <3>3, <3>4 DEF Matches
  <2>3. CASE pc[t] = "wait" /\ txEn[d] # 1
    <3>1. BitOf(status, d) # 1
      BY <1>1, <2>3 DEF EnableInv
    <3>2. Due(t, d) = 0 /\ Due(t, d)' = 0
      BY <1>2, <3>1 DEF Due, BitOf
    <3>3. air'[d] = air[d]
      BY <1>2, <2>3
    <3>4. Len(promised[d]) = Len(air[d]) + 0 /\ \A i \in 1..Len(air[d]) : air[d][i] = promised[d][i]
      BY <2>0, <3>2 DEF Matches
    <3>5. \A j \in 1..0 : FALSE
      OBVIOUS
    <3> QED BY <1>2, <3>2, <3>3, <3>4, <3>5 DEF Matches
  <2>4. CASE pc[t] = "wait" /\ txEn[d] = 1
    <3>1. BitOf(status, d) = 1
      BY <1>1, <2>4 DEF EnableInv
    <3>2. pc[t] \in Sending /\ m2s.base = kbuf[t] /\ m2s.len = w
      BY <1>1, <2>4 DEF RoundInv, Sending
    <3>3. w \in Nat \ {0} /\ w <= MemWords /\ kbuf[t] \in Buffers /\ kbuf[t] \in Memory
      BY <1>1, <3>2, SendingTypes
    <3>4. m2s.base # Scratch
      BY <3>2, <3>3, TxAssumption DEF TxAssumption
    <3>5. m2s.off \in Offsets
      BY <1>4, <3>2, <3>3, TxAssumption DEF Offsets, TxAssumption
    <3>6. Fetch = [msg |-> data[t], base |-> kbuf[t], off |-> m2s.off]
      <4>1. mem[kbuf[t]][m2s.off] = data[t]
        BY <1>1, <1>4, <3>2, <3>5 DEF PayloadInv
      <4> QED BY <3>2, <3>3, <3>5, <4>1 DEF Fetch
    <3>7. air'[d] = Append(air[d], Fetch)
      BY <1>2, <2>4, <3>4
    <3>8. Due(t, d) = m2s.again * w + (w - m2s.off) /\ NextOff(t) = m2s.off
      BY <2>4, <3>1, <3>2 DEF Due, Owed, NextOff
    <3>9. Due(t, d)' = m2s'.again * w + (w - m2s'.off) /\ NextOff(t)' = m2s'.off
      BY <1>2, <2>1, <2>4, <3>1 DEF Due, Owed, NextOff, BitOf, Sending
    <3> HIDE DEF w
    <3>10. Due(t, d) \in Nat /\ Due(t, d) > 0
      <4>1. m2s.again * w \in Nat
        BY <1>4, <3>3
      <4>2. m2s.off < w
        BY <1>4, <3>2
      <4> QED BY <1>4, <3>3, <3>8, <4>1, <4>2
    <3>11. Due(t, d)' = Due(t, d) - 1
      <4> DEFINE x == m2s.again * w
      <4>1. x \in Nat
        BY <1>4, <3>3
      <4>2. (m2s.again - 1) * w = x - w
        BY <1>4, <3>3
      <4>3. CASE /\ m2s.off + 1 = m2s.len /\ m2s.again > 0
                 /\ m2s'.off = 0 /\ m2s'.again = m2s.again - 1
        <5>1. Due(t, d)' = (x - w) + (w - 0)
          BY <3>9, <4>2, <4>3
        <5>2. Due(t, d) = x + 1
          <6>1. w - m2s.off = 1
            BY <1>4, <3>2, <3>3, <4>3
          <6> QED BY <3>8, <6>1
        <5> HIDE DEF x
        <5> QED BY <3>3, <4>1, <5>1, <5>2
      <4>4. CASE m2s'.off = m2s.off + 1 /\ m2s'.again = m2s.again
        <5>1. Due(t, d)' = x + (w - (m2s.off + 1))
          BY <3>9, <4>4
        <5>2. Due(t, d) = x + (w - m2s.off)
          BY <3>8
        <5> HIDE DEF x
        <5> QED BY <1>4, <3>3, <4>1, <5>1, <5>2
      <4> QED BY <1>5, <4>3, <4>4
    <3>12. NextOff(t)' = m2s.off + 1 \/ (NextOff(t)' = 0 /\ m2s.off + 1 = w)
      BY <1>5, <3>2, <3>9
    <3>13. Matches(air[d], promised[d], Due(t, d), m2s.off, data[t], kbuf[t], w)
      BY <2>0, <3>8
    <3>14. Fetch \in Words
      BY <1>1, FetchType DEF IInv, TypeInv
    <3>15. m2s.off < w
      BY <1>4, <3>2
    <3>16. Matches(Append(air[d], Fetch), promised[d], Due(t, d) - 1, NextOff(t)',
                   data[t], kbuf[t], w)
      BY <1>3, <1>4, <3>3, <3>6, <3>10, <3>12, <3>13, <3>14, <3>15, MatchesSend
    <3> QED BY <1>2, <2>1, <3>7, <3>11, <3>16 DEF Matches, w
  <2> QED BY <2>2, <2>3, <2>4
<1> QED BY <1>6, <1>7, <1>8, <1>9

\* A writer begins a call: nothing is owed yet.
LEMMA AirBegin ==
  ASSUME OneWriter, OnAirInv, TypeInv', NEW t \in Writers, Begin(t)
  PROVE  EnableInv' /\ PayloadInv' /\ RoundInv' /\ AirInv'
<1>1. /\ IInv /\ EnableInv /\ PayloadInv /\ RoundInv /\ AirInv
      /\ t \in Threads /\ pc \in [Threads -> Labels]
  BY StateTypes DEF OnAirInv, IInv, Threads
<1>2. pc[t] = "idle" /\ pc'[t] \in {"copy", "enWrite", "idle", "scratch", "sDmaOn"}
      /\ UNCHANGED <<m2s, air, promised, txEn, status>>
  <2>1. ASSUME NEW b \in Buffers, NEW m \in Messages, NEW n \in Sizes, WriteAlloc(t, b, m, n)
        PROVE  /\ pc[t] = "idle" /\ pc'[t] \in {"copy", "enWrite", "idle", "scratch", "sDmaOn"}
              /\ UNCHANGED <<m2s, air, promised, txEn, status>>
    BY <1>1, <2>1 DEF WriteAlloc, Goto
  <2>2. ASSUME \/ \E mask \in Masks : TxEnable(t, mask)
               \/ \E n \in CycleCounts : SetCycle(t, n)
               \/ \E m \in Messages : ScratchWrite(t, m)
               \/ \E n \in Offsets : ScratchTx(t, n)
        PROVE  /\ pc[t] = "idle" /\ pc'[t] \in {"copy", "enWrite", "idle", "scratch", "sDmaOn"}
              /\ UNCHANGED <<m2s, air, promised, txEn, status>>
    BY <1>1, <2>2 DEF TxEnable, SetCycle, WriteM2s, ScratchWrite, ScratchTx, Goto,
       hardware, history
  <2> QED BY <2>1, <2>2 DEF Begin
<1>3. pc[t] \notin Sending /\ pc'[t] \notin Sending /\ pc'[t] # "enRead"
  BY <1>2 DEF Sending
<1>4. EnableInv'
  BY <1>1, <1>2, <1>3 DEF OneWriter, EnableInv, BitOf
<1>5. PayloadInv'
  BY <1>3 DEF OneWriter, PayloadInv
<1>6. RoundInv'
  BY <1>1, <1>2, <1>3 DEF OneWriter, RoundInv, Remaining, Sending
<1> QED BY <1>1, <1>2, <1>3, <1>4, <1>5, <1>6, AirQuiet

\* write() has copied the user's message.
LEMMA AirCopyIn ==
  ASSUME OneWriter, OnAirInv, NEW t \in Writers, CopyIn(t)
  PROVE  EnableInv' /\ PayloadInv' /\ RoundInv' /\ AirInv'
<1>1. /\ IInv /\ EnableInv /\ PayloadInv /\ RoundInv /\ AirInv
      /\ t \in Threads /\ pc \in [Threads -> Labels]
      /\ m2sReg \in [base : Memory \cup {NoBuf}, len : Nat, cycles : Nat]
      /\ mem \in [Memory -> [Offsets -> Messages \cup {NoData}]]
      /\ \A d \in Dacs : air[d] \in Seq(Words) /\ promised[d] \in Seq(Words)
  BY StateTypes DEF OnAirInv, IInv, Threads
<1>2. /\ pc[t] = "copy" /\ pc'[t] = "dmaOn"
      /\ mem' = [mem EXCEPT ![kbuf[t]] = Filled(kbuf[t], data[t], size[t])]
      /\ promised' = [d \in Dacs |->
           IF BitOf(status, d) = 1
           THEN promised[d] \o Repeated(data[t], kbuf[t], size[t], m2sReg.cycles + 1)
           ELSE promised[d]]
      /\ UNCHANGED <<kbuf, size, data, arg, idx, m2sReg, m2s, txEn, air, status>>
  BY <1>1 DEF CopyIn, Goto, locals
<1>3. pc[t] \notin Sending /\ pc'[t] \in Sending
  BY <1>2 DEF Sending
<1>4. kbuf[t] \in Buffers /\ size[t] \in Nat /\ data[t] \in Messages \cup {NoData}
  <2>1. kbuf[t] \in Buffers
    BY <1>1, <1>2 DEF IInv, BufferInv, InWrite, WriteLabels
  <2> QED BY <1>1, <2>1 DEF IInv, TypeInv, TypeOK
<1>5. EnableInv'
  BY <1>1, <1>2 DEF OneWriter, EnableInv, BitOf
<1>6. PayloadInv'
  <2> SUFFICES ASSUME NEW o \in Offsets, (o < WordsOf(size[t]))'
               PROVE  mem'[kbuf'[t]][o] = data'[t]
    BY DEF OneWriter, PayloadInv
  <2>1. o < WordsOf(size[t])
    BY <1>2 DEF WordsOf
  <2>2. mem'[kbuf[t]] = Filled(kbuf[t], data[t], size[t])
    BY <1>1, <1>2, <1>4 DEF Memory
  <2> QED BY <1>2, <2>1, <2>2 DEF Filled
<1>7. RoundInv'
  BY <1>1, <1>2 DEF OneWriter, RoundInv, Remaining
<1>8. AirInv'
  <2> SUFFICES ASSUME NEW d \in Dacs
               PROVE  Matches(air[d], promised[d], Due(t, d), NextOff(t), data[t], kbuf[t],
                              WordsOf(size[t]))'
    BY DEF OneWriter, AirInv
  <2> DEFINE w == WordsOf(size[t])
             times == m2sReg.cycles + 1
  <2>1. w' = w
    BY <1>2 DEF WordsOf
  <2>2. Due(t, d) = 0
    BY <1>3 DEF Due, Owed
  <2>3. Matches(air[d], promised[d], 0, NextOff(t), data[t], kbuf[t], w)
    BY <1>1, <2>2 DEF AirInv
  <2>4. CASE BitOf(status, d) = 1
    <3>1. promised'[d] = promised[d] \o Repeated(data[t], kbuf[t], size[t], times)
      BY <1>2, <2>4
    <3>2. Due(t, d)' = times * w /\ NextOff(t)' = 0
      BY <1>2, <1>3, <2>1, <2>4 DEF Due, Owed, NextOff, BitOf
    <3>3. times \in Nat /\ kbuf[t] \in Memory \cup {NoBuf}
      BY <1>1, <1>4 DEF Memory
    <3> HIDE DEF times
    <3>4. Matches(air[d], promised[d] \o Repeated(data[t], kbuf[t], size[t], times),
                  times * WordsOf(size[t]), 0, data[t], kbuf[t], WordsOf(size[t]))
      BY <1>1, <1>4, <2>3, <3>3, MatchesStart
    <3>5. Matches(air'[d], promised'[d], times * w, 0, data'[t], kbuf'[t], w')
      BY <1>2, <2>1, <3>1, <3>4
    <3> HIDE DEF w
    <3> QED BY <3>2, <3>5 DEF Matches, w
  <2>5. CASE BitOf(status, d) # 1
    <3>1. promised'[d] = promised[d]
      BY <1>2, <2>5
    <3>2. Due(t, d)' = 0
      BY <1>2, <2>5 DEF Due, BitOf
    <3>3. Matches(air'[d], promised'[d], 0, NextOff(t)', data'[t], kbuf'[t], w')
      BY <1>2, <2>1, <2>3, <3>1, MatchesNone
    <3> HIDE DEF w
    <3> QED BY <3>2, <3>3 DEF Matches, w
  <2> QED BY <2>4, <2>5
<1> QED BY <1>5, <1>6, <1>7, <1>8

\* write() programs the DMA.
LEMMA AirProgram ==
  ASSUME OneWriter, OnAirInv, NEW t \in Writers,
         WriteDmaOn(t) \/ WriteBase(t) \/ WriteLength(t) \/ WaitTurn(t)
  PROVE  EnableInv' /\ PayloadInv' /\ RoundInv' /\ AirInv'
<1>1. /\ IInv /\ EnableInv /\ PayloadInv /\ RoundInv /\ AirInv
      /\ t \in Threads /\ pc \in [Threads -> Labels]
      /\ m2sReg \in [base : Memory \cup {NoBuf}, len : Nat, cycles : Nat]
  BY StateTypes DEF OnAirInv, IInv, Threads
<1>2. /\ pc[t] \in Sending /\ pc'[t] \in Sending /\ (pc[t] = "wait" <=> pc'[t] = "wait")
      /\ m2sReg'.cycles = m2sReg.cycles
      /\ UNCHANGED <<kbuf, size, data, arg, idx, m2s, mem, txEn, air, status, promised>>
  BY <1>1 DEF WriteDmaOn, WriteBase, WriteLength, WaitTurn, SetDmaEn, WriteM2s, Goto, Sending,
     locals, driver, hardware, history
<1>3. EnableInv'
  BY <1>1, <1>2 DEF OneWriter, EnableInv, BitOf, Sending
<1>4. PayloadInv'
  BY <1>1, <1>2 DEF OneWriter, PayloadInv, WordsOf
<1>5. RoundInv'
  BY <1>1, <1>2 DEF OneWriter, RoundInv, Remaining, WordsOf
<1>6. Owed(t)' = Owed(t) /\ NextOff(t)' = NextOff(t)
  BY <1>2 DEF Owed, NextOff, WordsOf
<1>7. AirInv'
  BY <1>1, <1>2, <1>6, AirKept DEF OneWriter
<1> QED BY <1>3, <1>4, <1>5, <1>7

\* write() starts the DMA.
LEMMA AirGo ==
  ASSUME OneWriter, FitsLength, OnAirInv, NEW t \in Writers, WriteGo(t)
  PROVE  EnableInv' /\ PayloadInv' /\ RoundInv' /\ AirInv'
<1>1. /\ IInv /\ EnableInv /\ PayloadInv /\ RoundInv /\ AirInv
      /\ t \in Threads /\ pc \in [Threads -> Labels]
      /\ m2sReg \in [base : Memory \cup {NoBuf}, len : Nat, cycles : Nat]
  BY StateTypes DEF OnAirInv, IInv, Threads
<1>2. /\ pc[t] = "go" /\ pc'[t] = "wait"
      /\ m2s' = [base |-> m2sReg.base, off |-> 0, len |-> m2sReg.len + 1,
                 again |-> m2sReg.cycles]
      /\ UNCHANGED <<kbuf, size, data, arg, idx, mem, txEn, air, status, promised>>
  BY <1>1 DEF WriteGo, StartM2s, Goto, locals, history
<1>3. pc[t] \in Sending /\ pc'[t] \in Sending
  BY <1>2 DEF Sending
<1> DEFINE w == WordsOf(size[t])
<1>4. /\ w \in Nat \ {0} /\ size[t] \in Nat /\ size[t] > 0
      /\ size[t] \in Sizes /\ kbuf[t] \in Buffers
  BY <1>1, <1>3, SendingTypes
<1>5. m2s'.base = kbuf[t] /\ m2s'.len = w /\ m2s'.off = 0 /\ m2s'.again = m2sReg.cycles
  <2>1. m2sReg.base = kbuf[t] /\ m2sReg.len = LengthReg(size[t])
    BY <1>1, <1>2 DEF IInv, ProgramInv
  <2>2. w <= LenMod
    BY <1>4 DEF FitsLength
  <2>3. LengthReg(size[t]) + 1 = w
    BY <1>4, <2>2, LengthRegExact
  <2> QED BY <1>2, <2>1, <2>3
<1>6. w' = w
  BY <1>2 DEF WordsOf
<1>7. EnableInv'
  BY <1>1, <1>2 DEF OneWriter, EnableInv, BitOf
<1>8. PayloadInv'
  BY <1>1, <1>2, <1>3, <1>6 DEF OneWriter, PayloadInv
<1>9. RoundInv'
  <2>1. m2s'.base # NoBuf
    BY <1>4, <1>5, TxAssumption DEF TxAssumption, Memory
  <2>2. m2s'.off <= m2s'.len /\ m2s'.off < m2s'.len
    <3> HIDE DEF w
    <3> QED BY <1>4, <1>5
  <2> QED BY <1>2, <1>5, <1>6, <2>1, <2>2 DEF OneWriter, RoundInv
<1>10. Owed(t)' = Owed(t) /\ NextOff(t)' = NextOff(t)
  <2>1. Owed(t)' = m2sReg.cycles * w + (w - 0)
    BY <1>2, <1>3, <1>5, <1>6 DEF Owed
  <2>2. Owed(t) = (m2sReg.cycles + 1) * w
    BY <1>2, <1>3 DEF Owed
  <2>3. NextOff(t)' = 0 /\ NextOff(t) = 0
    BY <1>2, <1>5 DEF NextOff
  <2> HIDE DEF w
  <2>4. m2sReg.cycles * w + (w - 0) = (m2sReg.cycles + 1) * w
    <3>1. m2sReg.cycles \in Nat
      BY <1>1
    <3> QED BY <1>4, <3>1
  <2> QED BY <2>1, <2>2, <2>3, <2>4
<1>11. AirInv'
  BY <1>1, <1>2, <1>10, AirKept DEF OneWriter
<1> QED BY <1>7, <1>8, <1>9, <1>11

\* write() finds that nothing remains: nothing is owed any more.
LEMMA AirOver ==
  ASSUME OneWriter, OnAirInv, NEW t \in Writers, WaitOver(t)
  PROVE  EnableInv' /\ PayloadInv' /\ RoundInv' /\ AirInv'
<1>1. /\ IInv /\ EnableInv /\ PayloadInv /\ RoundInv /\ AirInv
      /\ t \in Threads /\ pc \in [Threads -> Labels]
      /\ m2s \in [base : Memory \cup {NoBuf}, off : Nat, len : Nat, again : Nat]
  BY StateTypes DEF OnAirInv, IInv, Threads
<1>2. /\ pc[t] = "wait" /\ pc'[t] = "free" /\ ~Remaining
      /\ UNCHANGED <<kbuf, size, data, arg, idx, mem, m2s, txEn, air, status, promised>>
  BY <1>1 DEF WaitOver, LeaveWait, Goto, driver, hardware, history
<1>3. pc[t] \in Sending /\ pc'[t] \notin Sending
  BY <1>2 DEF Sending
<1> DEFINE w == WordsOf(size[t])
<1>4. w \in Nat
  BY <1>1, <1>3, SendingTypes
<1>5. m2s.off = w /\ m2s.again = 0
  <2>1. m2s.len = w /\ m2s.off <= m2s.len /\ (m2s.again > 0 => m2s.off < m2s.len)
    BY <1>1, <1>2 DEF RoundInv
  <2>2. m2s.off \in Nat /\ m2s.again \in Nat /\ ~(m2s.off < m2s.len)
    BY <1>1, <1>2 DEF Remaining
  <2> HIDE DEF w
  <2> QED BY <1>4, <2>1, <2>2
<1>6. Owed(t) = 0 /\ Owed(t)' = 0
  <2>1. Owed(t) = 0 * w + (w - w)
    BY <1>2, <1>3, <1>5 DEF Owed
  <2>2. Owed(t)' = 0
    BY <1>3 DEF Owed
  <2> HIDE DEF w
  <2> QED BY <1>4, <2>1, <2>2
<1>7. EnableInv'
  BY <1>1, <1>2 DEF OneWriter, EnableInv, BitOf
<1>8. PayloadInv' /\ RoundInv'
  BY <1>1, <1>2, <1>3 DEF OneWriter, PayloadInv, RoundInv, Remaining
<1>9. AirInv'
  <2> SUFFICES ASSUME NEW d \in Dacs
               PROVE  Matches(air[d], promised[d], Due(t, d), NextOff(t), data[t], kbuf[t],
                              WordsOf(size[t]))'
    BY DEF OneWriter, AirInv
  <2>1. Due(t, d) = 0 /\ Due(t, d)' = 0
    BY <1>6 DEF Due
  <2>2. Matches(air[d], promised[d], 0, NextOff(t), data[t], kbuf[t], w)
    BY <1>1, <2>1 DEF AirInv
  <2>3. Matches(air'[d], promised'[d], 0, NextOff(t)', data'[t], kbuf'[t], w')
    BY <1>2, <2>2, MatchesNone
  <2> HIDE DEF w
  <2> QED BY <2>1, <2>3 DEF Matches, w
<1> QED BY <1>7, <1>8, <1>9

\* The other steps of a call send nothing.
LEMMA AirQuietStep ==
  ASSUME OneWriter, OnAirInv, NEW t \in Writers,
         CopyFails(t) \/ WriteFree(t) \/ ScratchStep(t) \/ ScratchTxStep(t)
  PROVE  EnableInv' /\ PayloadInv' /\ RoundInv' /\ AirInv'
<1>1. /\ IInv /\ EnableInv /\ PayloadInv /\ RoundInv /\ AirInv
      /\ t \in Threads /\ pc \in [Threads -> Labels]
  BY StateTypes DEF OnAirInv, IInv, Threads
<1>2. /\ pc[t] \notin Sending /\ pc'[t] \notin Sending
      /\ pc[t] \notin {"enWrite", "enRead"} /\ pc'[t] \notin {"enWrite", "enRead"}
      /\ UNCHANGED <<txEn, air, status, promised>>
  BY <1>1 DEF CopyFails, WriteFree, ScratchStep, ScratchTxStep, SetDmaEn, WriteM2s, StartM2s,
     Goto, Sending, hardware, history
<1>3. EnableInv'
  BY <1>1, <1>2 DEF OneWriter, EnableInv, BitOf
<1>4. PayloadInv'
  BY <1>2 DEF OneWriter, PayloadInv
<1>5. RoundInv'
  <2>1. pc'[t] # "wait"
    BY <1>2 DEF Sending
  <2>2. CASE m2s' = m2s
    BY <1>1, <2>1, <2>2 DEF OneWriter, RoundInv, Remaining
  <2>3. CASE StartM2s(t, "sGo", "idle")
    <3>1. m2sReg.base = Scratch
      BY <1>1, <2>3 DEF IInv, ProgramInv, StartM2s, Goto
    <3>2. m2s'.base # NoBuf
      BY <2>3, <3>1, TxAssumption DEF StartM2s, TxAssumption, Memory
    <3> QED BY <2>1, <3>2 DEF OneWriter, RoundInv
  <2>4. m2s' = m2s \/ StartM2s(t, "sGo", "idle")
    BY DEF CopyFails, WriteFree, ScratchStep, ScratchTxStep, SetDmaEn, WriteM2s, hardware
  <2> QED BY <2>2, <2>3, <2>4
<1> QED BY <1>1, <1>2, <1>3, <1>4, <1>5, AirQuiet

\* TX_ENABLE writes both multiplexers and reads both back.
LEMMA AirEnable ==
  ASSUME OneWriter, OnAirInv, NEW t \in Writers, EnableWrite(t) \/ EnableRead(t)
  PROVE  EnableInv' /\ PayloadInv' /\ RoundInv' /\ AirInv'
<1>1. /\ IInv /\ EnableInv /\ PayloadInv /\ RoundInv /\ AirInv
      /\ t \in Threads /\ pc \in [Threads -> Labels]
      /\ idx \in [Threads -> Nat] /\ arg \in [Threads -> 0..3]
      /\ \A d \in Dacs : txEn[d] \in Bit
  BY StateTypes DEF OnAirInv, IInv, Threads, TypeInv, TypeOK
<1>2. /\ pc[t] \in {"enWrite", "enRead"} /\ pc'[t] \in {"enWrite", "enRead", "idle"}
      /\ UNCHANGED <<m2s, air, promised>>
  <2>1. CASE EnableWrite(t)
    <3>1. pc' = pc \/ pc' = [pc EXCEPT ![t] = "enRead"]
      BY <2>1 DEF EnableWrite
    <3>2. pc[t] = "enWrite" /\ UNCHANGED <<m2s, air, promised>>
      BY <2>1 DEF EnableWrite, history
    <3> QED BY <1>1, <3>1, <3>2
  <2>2. CASE EnableRead(t)
    <3>1. pc' = pc \/ pc' = [pc EXCEPT ![t] = "idle"]
      BY <2>2 DEF EnableRead, ReadBack
    <3>2. pc[t] = "enRead" /\ UNCHANGED <<m2s, air, promised>>
      BY <2>2 DEF EnableRead, ReadBack, hardware
    <3> QED BY <1>1, <3>1, <3>2
  <2> QED BY <2>1, <2>2
<1>3. pc[t] \notin Sending /\ pc'[t] \notin Sending
  BY <1>2 DEF Sending
<1>4. PayloadInv' /\ RoundInv'
  BY <1>1, <1>2, <1>3 DEF OneWriter, PayloadInv, RoundInv, Remaining, Sending
<1>5. AirInv'
  BY <1>1, <1>2, <1>3, AirQuiet
<1>6. idx[t] \in {0, 1} /\ (pc[t] = "enRead" => arg[t] <= idx[t])
  BY <1>1, <1>2 DEF IInv, TypeInv, IndexInv
<1>7. CASE EnableWrite(t)
  <2>1. pc'[t] = "enRead" => idx'[t] = 0
    BY <1>1, <1>6, <1>7 DEF EnableWrite
  <2>2. pc'[t] \in {"enWrite", "enRead"}
    BY <1>1, <1>7 DEF EnableWrite
  <2>3. EnableInv'
    BY <2>1, <2>2 DEF OneWriter, EnableInv
  <2> QED BY <1>4, <1>5, <2>3
<1>8. CASE EnableRead(t)
  <2> DEFINE seen == arg[t] + txEn[idx[t]] * (idx[t] + 1)
  <2>1. /\ pc[t] = "enRead" /\ txEn' = txEn
        /\ IF idx[t] = 1
           THEN status' = seen /\ pc'[t] = "idle"
           ELSE arg'[t] = seen /\ UNCHANGED <<status, pc>>
        /\ idx'[t] = 1 - idx[t]
    BY <1>1, <1>8 DEF EnableRead, ReadBack, hardware
  <2>2. txEn[0] \in {0, 1} /\ txEn[1] \in {0, 1}
    BY <1>1 DEF Dacs, Bit
  <2>3. CASE idx[t] = 0
    <3>1. arg[t] = 0
      BY <1>1, <1>6, <2>1, <2>3
    <3>2. arg'[t] = 0 + txEn[0] * (0 + 1) /\ pc'[t] = "enRead" /\ idx'[t] = 1
      BY <2>1, <2>3, <3>1
    <3>3. arg'[t] = txEn[0]
      BY <2>2, <3>2
    <3>4. EnableInv'
      BY <2>1, <3>2, <3>3 DEF OneWriter, EnableInv
    <3> QED BY <1>4, <1>5, <3>4
  <2>4. CASE idx[t] = 1
    <3>1. arg[t] = txEn[0]
      BY <1>1, <2>1, <2>4 DEF EnableInv
    <3>2. status' = txEn[0] + txEn[1] * (1 + 1) /\ pc'[t] = "idle"
      BY <2>1, <2>4, <3>1
    <3>3. status' % 2 = txEn[0] /\ (status' \div 2) % 2 = txEn[1]
      <4>1. CASE txEn[0] = 0 /\ txEn[1] = 0
        BY <3>2, <4>1
      <4>2. CASE txEn[0] = 1 /\ txEn[1] = 0
        BY <3>2, <4>2
      <4>3. CASE txEn[0] = 0 /\ txEn[1] = 1
        BY <3>2, <4>3
      <4>4. CASE txEn[0] = 1 /\ txEn[1] = 1
        BY <3>2, <4>4
      <4> QED BY <2>2, <4>1, <4>2, <4>3, <4>4
    <3>4. \A d \in Dacs : txEn'[d] = BitOf(status, d)'
      BY <2>1, <3>3 DEF BitOf, Dacs
    <3>5. EnableInv'
      BY <3>2, <3>4 DEF OneWriter, EnableInv
    <3> QED BY <1>4, <1>5, <3>5
  <2> QED BY <1>6, <2>3, <2>4
<1> QED BY <1>7, <1>8

\* A read passes.
LEMMA AirReader ==
  ASSUME OneWriter, OnAirInv, NEW r \in Readers, ReadStep(r)
  PROVE  EnableInv' /\ PayloadInv' /\ RoundInv' /\ AirInv'
<1>1. /\ IInv /\ EnableInv /\ PayloadInv /\ RoundInv /\ AirInv
      /\ r \in Threads /\ pc \in [Threads -> Labels]
  BY StateTypes DEF OnAirInv, IInv, Threads
<1>2. /\ pc[r] \in ReadLabels \cup {"idle"} /\ pc'[r] \in ReadLabels \cup {"idle"}
      /\ \A t \in Threads \ {r} : pc'[t] = pc[t]
      /\ UNCHANGED <<kbuf, size, data, arg, idx, m2sReg, m2s, mem, txEn, air, status, promised>>
  BY <1>1, ReaderFrame DEF IInv, locals, history
<1>3. \A t \in Writers :
        \/ pc'[t] = pc[t]
        \/ /\ pc[t] \in {"idle", "lockRead", "drain", "capture"}
           /\ pc'[t] \in {"idle", "lockRead", "drain", "capture"}
  BY <1>2 DEF Threads, ReadLabels
<1>4. EnableInv'
  BY <1>1, <1>2, <1>3 DEF EnableInv, BitOf
<1>5. PayloadInv'
  BY <1>1, <1>2, <1>3 DEF PayloadInv, WordsOf, Sending
<1>6. RoundInv'
  BY <1>1, <1>2, <1>3 DEF RoundInv, WordsOf, Remaining
<1>7. \A t \in Writers : Owed(t)' = Owed(t) /\ NextOff(t)' = NextOff(t)
  BY <1>2, <1>3 DEF Owed, NextOff, WordsOf, Sending
<1>8. AirInv'
  BY <1>1, <1>2, <1>7, AirKept
<1> QED BY <1>4, <1>5, <1>6, <1>8

LEMMA AirStep == OneWriter /\ FitsLength /\ OnAirInv /\ [Next]_vars => OnAirInv'
<1> SUFFICES ASSUME OneWriter, FitsLength, OnAirInv, [Next]_vars PROVE OnAirInv'
  OBVIOUS
<1>1. IInv' /\ TypeInv'
  BY InvStep DEF OnAirInv, IInv
<1>2. ASSUME NEW t \in Writers, InCall(t)
      PROVE  EnableInv' /\ PayloadInv' /\ RoundInv' /\ AirInv'
  BY <1>2, AirCopyIn, AirProgram, AirGo, AirOver, AirQuietStep, AirEnable DEF InCall, WriteStep
<1>3. CASE UNCHANGED vars
  <2>1. UNCHANGED <<pc, kbuf, size, data, arg, idx, m2sReg, m2s, mem, txEn, air, status,
                    promised>>
    BY <1>3 DEF vars, locals, hardware, history
  <2>2. EnableInv'
    BY <2>1 DEF OnAirInv, EnableInv, BitOf
  <2>3. PayloadInv' /\ RoundInv'
    BY <2>1 DEF OnAirInv, PayloadInv, RoundInv, Remaining, WordsOf
  <2>4. \A t \in Writers : Owed(t)' = Owed(t) /\ NextOff(t)' = NextOff(t)
    BY <2>1 DEF Owed, NextOff, WordsOf
  <2>5. AirInv'
    BY <2>1, <2>4, AirKept DEF OnAirInv
  <2> QED BY <1>1, <2>2, <2>3, <2>5 DEF OnAirInv
<1>4. CASE Next
  <2>1. EnableInv' /\ PayloadInv' /\ RoundInv' /\ AirInv'
    BY <1>1, <1>2, <1>4, AirDmaSend, AirBegin, AirReader DEF Next
  <2> QED BY <1>1, <2>1 DEF OnAirInv
<1> QED BY <1>3, <1>4

\* A single writer's messages are put on the air whole, in order and as often
\* as DMA_SET_CYCLE asked for, by each DAC TX_ENABLE turned to them, whatever
\* reads and scratch transmissions go on beside it: for every size the length
\* register can hold, any number of readers and any DMA_SET_CYCLE.
THEOREM TxOnAirAsWritten ==
  ASSUME OneWriter, Writers # {}, FitsLength PROVE Spec => []OnAirAsWritten
<1>1. Init => OnAirInv
  BY InvInit, AirInit DEF OnAirInv
<1>2. OnAirInv /\ [Next]_vars => OnAirInv'
  BY AirStep
<1>3. OnAirInv => OnAirAsWritten
  <2> SUFFICES ASSUME OnAirInv, NEW d \in Dacs
               PROVE  /\ IsPrefix(air[d], promised[d])
                      /\ (\A t \in Writers : pc[t] \in {"free", "idle"}) =>
                            air[d] = promised[d]
    BY DEF OnAirAsWritten
  <2>1. PICK t \in Writers : TRUE
    OBVIOUS
  <2>2. IInv /\ RoundInv /\ AirInv /\ air[d] \in Seq(Words) /\ promised[d] \in Seq(Words)
    BY StateTypes DEF OnAirInv, IInv
  <2>3. Due(t, d) \in Nat
    BY <2>2, OwedType DEF Due
  <2>4. Matches(air[d], promised[d], Due(t, d), NextOff(t), data[t], kbuf[t],
                WordsOf(size[t]))
    BY <2>2 DEF AirInv
  <2>5. IsPrefix(air[d], promised[d]) /\ (Due(t, d) = 0 => air[d] = promised[d])
    BY <2>2, <2>3, <2>4, MatchesPrefix
  <2>6. pc[t] \in {"free", "idle"} => Due(t, d) = 0
    BY DEF Due, Owed, Sending
  <2> QED BY <2>5, <2>6
<1> QED BY <1>1, <1>2, <1>3, PTL DEF Spec
=============================================================================
