------------------------------ MODULE ConvCoder ------------------------------
(***************************************************************************)
(* cc_encode_tb of sw/tx.c: the rate-1/2 convolutional code, one loop      *)
(* iteration per step.  The frame is read byte by byte, lowest bit first,  *)
(* through a pointer that also steps past the last byte; the last CcLength *)
(* iterations are meant to bite the tail (to feed the first bits again).   *)
(***************************************************************************)
EXTENDS Naturals, Sequences, FiniteSets

CONSTANTS
  ByteBits,   \* 8
  StateBits,  \* 16: width of constraint_t
  FrameBytes, \* 24: in_len
  CcConstr,   \* the two generators, cc_const
  CcLength,   \* bits of the state the generators see
  Beyond      \* what the byte behind the frame may hold

ByteMod == 2 ^ ByteBits
StateMod == 2 ^ StateBits
Byte == 0..(ByteMod - 1)
Bit == {0, 1}
FrameBits == FrameBytes * ByteBits

ASSUME CoderAssumption ==
  /\ ByteBits \in Nat \ {0} /\ ByteBits % 2 = 0
  /\ FrameBytes \in Nat \ {0}
  /\ CcConstr \in [1..2 -> 0..(StateMod - 1)]
  /\ StateBits \in Nat
  /\ CcLength \in 1..StateBits
  /\ CcLength < FrameBits  \* asserted in the code
  /\ Beyond # {} /\ Beyond \subseteq Byte

VARIABLES
  ccPc,         \* the loop: "off", "seed", "body", "tail" or "coded"
  frame,        \* the bytes to encode
  ccCount,      \* i
  inPos,        \* in, as an index
  inByte,       \* current_in_byte
  inBit,        \* current_in_bit_pos
  ccState,      \* state
  initState,    \* init_state
  encoded,      \* the complete bytes of out
  outByte,      \* current_out_byte
  outBit        \* current_out_bit_pos

ccVars == <<ccPc, frame, ccCount, inPos, inByte, inBit, ccState, initState,
            encoded, outByte, outBit>>

CoderType ==
  /\ ccPc \in {"off", "seed", "body", "tail", "coded"}
  /\ frame \in [1..FrameBytes -> Byte]
  /\ ccCount \in 0..FrameBits
  /\ inPos \in 0..FrameBytes
  /\ inByte \in Byte
  /\ inBit \in 0..(ByteBits - 1)
  /\ ccState \in 0..(StateMod - 1)
  /\ initState \in 0..(StateMod - 1)
  /\ encoded \in Seq(Byte)
  /\ outByte \in Byte
  /\ outBit \in 0..(ByteBits - 1)

CoderOff ==
  /\ ccPc = "off"
  /\ frame = [k \in 1..FrameBytes |-> 0]
  /\ ccCount = 0 /\ inPos = 0 /\ inByte = 0 /\ inBit = 0
  /\ ccState = 0 /\ initState = 0
  /\ encoded = <<>> /\ outByte = 0 /\ outBit = 0

----------------------------------------------------------------------------
BitAt(n, k) == (n \div 2 ^ k) % 2

UpdateState(s, byte) == ((2 * s) % StateMod) + (byte % 2)

\* The parity of what a generator sees of the state.
Parity(g, s) ==
  Cardinality({k \in 0..(CcLength - 1) : BitAt(g, k) = 1 /\ BitAt(s, k) = 1}) % 2

PushBitTooHigh(byte, bit) == byte \div 2 + bit * ByteMod  \* a slip: 0x100
PushBit(byte, bit) == byte \div 2 + bit * 2 ^ (ByteBits - 1)

\* The byte at a position of the frame; behind it, whatever memory holds.
ReadByte(p) == IF p < FrameBytes THEN {frame[p + 1]} ELSE Beyond

NextInBit ==
  IF inBit + 1 >= ByteBits
  THEN /\ inPos' = inPos + 1
       /\ inByte' \in ReadByte(inPos + 1)
       /\ inBit' = 0
  ELSE /\ inByte' = inByte \div 2
       /\ inBit' = inBit + 1
       /\ UNCHANGED inPos

\* Two bits go out per bit that comes in; bytes are filled from the top.
NextOutBits(s) ==
  LET byte == PushBit(PushBit(outByte, Parity(CcConstr[1], s)), Parity(CcConstr[2], s))
  IN IF outBit + 2 >= ByteBits
     THEN encoded' = Append(encoded, byte) /\ outByte' = 0 /\ outBit' = 0
     ELSE outByte' = byte /\ outBit' = outBit + 2 /\ UNCHANGED encoded

\* Iteration i of a loop of n, after which comes another.
LoopStep(from, n, to) ==
  /\ ccPc = from
  /\ ccCount' = IF ccCount + 1 = n THEN 0 ELSE ccCount + 1
  /\ ccPc' = IF ccCount + 1 = n THEN to ELSE from

----------------------------------------------------------------------------
StartCoder(bytes) ==
  /\ ccPc = "off"
  /\ ccPc' = "seed"
  /\ frame' = bytes
  /\ inByte' = bytes[1]
  /\ UNCHANGED <<ccCount, inPos, inBit, ccState, initState, encoded, outByte, outBit>>

\* The first bits only fill the state ...
Seed ==
  /\ LoopStep("seed", CcLength, "body")
  /\ ccState' = UpdateState(ccState, inByte)
  /\ initState' = IF ccPc' = "body" THEN ccState' ELSE initState
  /\ NextInBit
  /\ UNCHANGED <<frame, encoded, outByte, outBit>>

\* ... the others are encoded as they are read ...
BodyWith(s, n) ==
  /\ LoopStep("body", n, "tail")
  /\ ccState' = UpdateState(ccState, inByte)
  /\ NextInBit
  /\ NextOutBits(s)
  /\ UNCHANGED <<frame, initState>>
\* Slips: the output before the update, a loop over all bits.
BodyOneLate == BodyWith(ccState, FrameBits - CcLength)
BodyTooLong == BodyWith(UpdateState(ccState, inByte), FrameBits)
Body == BodyWith(UpdateState(ccState, inByte), FrameBits - CcLength)

\* ... and at the end the output goes on while the input is used up, and the
\* bytes of the first state after it.
BiteTail ==
  /\ LoopStep("tail", CcLength, "coded")
  /\ NextOutBits(ccState)
  /\ ccState' = UpdateState(ccState, inByte)
  /\ IF inBit + 1 >= ByteBits
     THEN /\ inByte' = initState % ByteMod
          /\ initState' = initState \div ByteMod
          /\ inBit' = 0
     ELSE /\ inByte' = inByte \div 2
          /\ inBit' = inBit + 1
          /\ UNCHANGED initState
  /\ UNCHANGED <<frame, inPos>>

CoderStep == Seed \/ Body \/ BiteTail

----------------------------------------------------------------------------
(* Properties.                                                             *)

InBit(k) == BitAt(frame[k \div ByteBits + 1], k % ByteBits)
OutBit(k) == BitAt(encoded[k \div ByteBits + 1], k % ByteBits)

\* What generator g makes of the CcLength bits that end with bit k, the
\* frame taken as a ring.
CodeBit(g, k) ==
  Cardinality({j \in 0..(CcLength - 1) :
                 BitAt(g, j) = 1 /\ InBit((k + FrameBits - j) % FrameBits) = 1}) % 2

PairsOut == (Len(encoded) * ByteBits) \div 2

\* Output pair n is the code of the bits that end with bit CcLength + n,
\* for every pair before the tail.
BodyIsCode ==
  \A n \in 0..(PairsOut - 1), c \in 1..2 :
    n < FrameBits - CcLength =>
      OutBit(2 * n + c - 1) = CodeBit(CcConstr[c], CcLength + n)

\* The output has exactly twice the length of the frame (tx.c:137), is never
\* longer on the way, and at most one byte behind the frame is read.
OutputFits ==
  /\ Len(encoded) <= 2 * FrameBytes
  /\ ccPc = "coded" => Len(encoded) = 2 * FrameBytes /\ outBit = 0
  /\ inPos <= FrameBytes
=============================================================================
