---------------------------- MODULE RxHardware ----------------------------
(***************************************************************************)
(* The receive half of the baseband peripheral, as the kernel driver sees  *)
(* it: the control registers it writes, and the blocks a sample crosses on *)
(* its way to memory.  The wiring is that of Baseband.scala:               *)
(*                                                                         *)
(*    ADC -> aligner -> splitter -+-> skid buffer -----------+-> mux       *)
(*                                +-> timeRx/freqRx (chain) -+   -> DMA    *)
(*                                                                         *)
(* The blocks themselves come from libraries that are not in the           *)
(* repository; each is modelled by what the driver relies on when it uses  *)
(* it.  A word in flight is the value the aligner's counter had when the   *)
(* sample came in, which is what sw/baseband_test.c expects to read back.  *)
(***************************************************************************)
EXTENDS Naturals, Sequences

CONSTANTS
  Buffers,     \* bus addresses dma_alloc_coherent can return
  KernelVirt,  \* a kernel virtual address, as kmalloc returns: no bus address
  BufWords,    \* words of memory behind each buffer
  NoWord,      \* content of memory the DMA has not written
  NumConfRegs, \* TIME_RX registers one RX_CONF call writes (11)
  ConfWords,   \* register contents, told apart by the call they come from
  ResetConf,   \* the value of every TIME_RX register at reset
  ResetSel,    \* the mux registers at reset
  SkidDepth,   \* capacity of the skid buffer
  ChainDepth,  \* words the receiver chain can hold back
  MaxCnts,     \* values the aligner's MAXCNT register takes
  LenMod       \* 2^32: the width of the DMA length registers

Bit == {0, 1}
SelRegs == {"BYPASS_SEL", "STREAM_OUT_SEL", "BB_SEL"}
EnableRegs == {"ALIGNER_EN", "SKID_EN", "SKID_DRAIN", "DMA_EN", "CNTPASSTHROUGH"}
Offsets == 0..(BufWords - 1)
ConfRegs == 0..(NumConfRegs - 1)

ASSUME HardwareAssumption ==
  /\ KernelVirt \notin Buffers
  /\ BufWords \in Nat
  /\ NoWord \notin Nat
  /\ NumConfRegs \in Nat \ {0}
  /\ ResetConf \in ConfWords
  /\ ResetSel \in [SelRegs -> Bit]
  /\ SkidDepth \in Nat
  /\ ChainDepth \in Nat
  /\ MaxCnts \subseteq Nat \ {0}
  /\ LenMod \in Nat \ {0}

VARIABLES
  reg,      \* one-bit control registers
  sel,      \* the splitter's two outputs (0 = enabled) and the input mux
  rxConf,   \* the TIME_RX registers
  maxcnt,   \* aligner: period of its counter
  cnt,      \* aligner: counter of ADC samples
  aligned,  \* aligner: enabled and past a counter of zero
  skid,     \* words waiting in the skid buffer (bypass path)
  skidOvf,  \* SKID_OVERFLOWED
  chain,    \* words waiting in timeRx and freqRx (baseband path)
  s2mReg,   \* the DMA's stream-to-memory base and length registers
  s2m,      \* the transfer in progress: its buffer, next word, words left
  mem       \* memory behind the buffers

ctrlHw == <<reg, sel, rxConf>>
streamHw == <<maxcnt, cnt, aligned, skid, skidOvf, chain>>
dmaHw == <<s2mReg, s2m, mem>>
hwVars == <<ctrlHw, streamHw, dmaHw>>

HwTypeOK ==
  /\ reg \in [EnableRegs -> Bit]
  /\ sel \in [SelRegs -> Bit]
  /\ rxConf \in [ConfRegs -> ConfWords]
  /\ maxcnt \in MaxCnts
  /\ cnt \in Nat
  /\ aligned \in BOOLEAN
  /\ skid \in Seq(Nat)
  /\ skidOvf \in Bit
  /\ chain \in Seq(Nat)
  /\ s2mReg \in [base : Buffers \cup {KernelVirt}, len : Nat]
  /\ s2m \in [base : Buffers \cup {KernelVirt}, off : Nat, left : Nat]
  /\ mem \in [Buffers -> [Offsets -> Nat \cup {NoWord}]]

HwInit ==
  /\ reg = [r \in EnableRegs |-> 0]
  /\ sel = ResetSel
  /\ rxConf = [i \in ConfRegs |-> ResetConf]
  /\ maxcnt \in MaxCnts
  /\ cnt = 0
  /\ aligned = FALSE
  /\ skid = <<>>
  /\ skidOvf = 0
  /\ chain = <<>>
  /\ s2mReg = [base |-> KernelVirt, len |-> 0]
  /\ s2m = [base |-> KernelVirt, off |-> 0, left |-> 0]
  /\ mem = [b \in Buffers |-> [o \in Offsets |-> NoWord]]

----------------------------------------------------------------------------
(* Register writes (the state change of one iowrite32).                    *)

\* A control bit.
Enable(r, v) == reg' = [reg EXCEPT ![r] = v]

\* The aligner forgets its alignment as soon as it is disabled.
AlignerEnable(v) == Enable("ALIGNER_EN", v) /\ aligned' = (aligned /\ v = 1)

\* Any write to DMA_S2M_WGO_RREMAINING starts the programmed transfer.
S2mGo == s2m' = [base |-> s2mReg.base, off |-> 0, left |-> s2mReg.len + 1]

\* Words of a transfer of n bytes, and the length register that asks for it.
WordsOf(n) == (n + 3) \div 4
LengthRegUnadjusted(n) == WordsOf(n) % LenMod  \* a slip: the "- 1" forgotten
LengthReg(n) == (WordsOf(n) + LenMod - 1) % LenMod

----------------------------------------------------------------------------
(* What the hardware does on its own.                                      *)

Passes == reg.ALIGNER_EN = 1 /\ (aligned \/ cnt = 0)
ToSkid == Passes /\ sel.BYPASS_SEL = 0 /\ reg.SKID_EN = 1
ToChain == Passes /\ sel.BB_SEL = 0 /\ Len(chain) < ChainDepth

\* One ADC sample.  The ADC cannot wait: a sample nobody takes is lost, and
\* only the skid buffer leaves a trace of the loss.
SampleIn ==
  /\ cnt' = (cnt + 1) % maxcnt
  /\ aligned' = Passes
  /\ skid' = IF ToSkid /\ Len(skid) < SkidDepth THEN Append(skid, cnt) ELSE skid
  /\ skidOvf' = IF ToSkid /\ Len(skid) >= SkidDepth THEN 1 ELSE skidOvf
  /\ chain' = IF ToChain THEN Append(chain, cnt) ELSE chain
  /\ UNCHANGED <<ctrlHw, maxcnt, dmaHw>>

\* A disabled skid buffer empties itself when it was told to.
SkidDrain ==
  /\ reg.SKID_EN = 0
  /\ reg.SKID_DRAIN = 1
  /\ skid # <<>>
  /\ skid' = Tail(skid)
  /\ UNCHANGED <<ctrlHw, maxcnt, cnt, aligned, skidOvf, chain, dmaHw>>

\* One word reaches the DMA's buffer; words past the end of it, or written
\* through an address that is no buffer, fall outside the modelled memory.
Store(w) ==
  /\ reg.DMA_EN = 1
  /\ s2m.left > 0
  /\ s2m' = [base |-> s2m.base, off |-> s2m.off + 1, left |-> s2m.left - 1]
  /\ mem' = IF s2m.base \in Buffers /\ s2m.off \in Offsets
            THEN [mem EXCEPT ![s2m.base] = [@ EXCEPT ![s2m.off] = w]] ELSE mem

DmaFromSkid ==
  /\ sel.STREAM_OUT_SEL = 1
  /\ reg.SKID_EN = 1
  /\ skid # <<>>
  /\ Store(Head(skid))
  /\ skid' = Tail(skid)
  /\ UNCHANGED <<ctrlHw, maxcnt, cnt, aligned, skidOvf, chain, s2mReg>>

DmaFromChain ==
  /\ sel.STREAM_OUT_SEL = 0
  /\ chain # <<>>
  /\ Store(Head(chain))
  /\ chain' = Tail(chain)
  /\ UNCHANGED <<ctrlHw, maxcnt, cnt, aligned, skid, skidOvf, s2mReg>>

HwNext == SampleIn \/ SkidDrain \/ DmaFromSkid \/ DmaFromChain
============================================================================
