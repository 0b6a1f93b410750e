------------------------------- MODULE Encoder -------------------------------
(***************************************************************************)
(* encode() of sw/tx.c: the header and the data make a frame, cc_encode_tb *)
(* encodes it (ConvCoder), and the bytes are mapped to samples             *)
(* (SymbolMapper).  Between the two the program overwrites the code it just*)
(* computed with a fixed byte, as it is marked to do for debugging.        *)
(***************************************************************************)
EXTENDS ConvCoder, SymbolMapper

CONSTANTS
  Infos,     \* arguments: source, destination and routing fields of info
  Payloads,  \* arguments: data
  DebugByte  \* 0x66

HeaderBytes == 4

\* uint8_t, constraint_t (tx.h:9), and two bits to a point.
ASSUME EncoderAssumption ==
  /\ ByteBits = 8 /\ StateBits = 16 /\ PointsPerByte = 4
  /\ FrameBytes > HeaderBytes
  /\ CodedBytes = 2 * FrameBytes
  /\ Infos \subseteq [src : Byte, dst : Byte, r0 : Byte, r1 : Byte, r2 : Byte]
  /\ Payloads \subseteq [1..(FrameBytes - HeaderBytes) -> Byte]
  /\ DebugByte \in Byte

VARIABLE info  \* the argument of the call

vars == <<ccVars, mapVars, info>>

NoInfo == [src |-> 0, dst |-> 0, r0 |-> 0, r1 |-> 0, r2 |-> 0]

TypeOK == CoderType /\ MapperType /\ info \in Infos \cup {NoInfo}

Init == CoderOff /\ MapperOff /\ info = NoInfo

----------------------------------------------------------------------------
\* The bits of n under a mask of width w whose lowest bit is lo.
Field(n, lo, w) == (n \div 2 ^ lo) % 2 ^ w

\* Five fields of five bits, the highest bit of the first byte first, and
\* seven bits of zero.
HeaderSplitting(i, r1Low) == <<
  Field(i.src, 0, 5) * 8 + Field(i.dst, 2, 3),
  Field(i.dst, 0, 2) * 64 + Field(i.r0, 0, 5) * 2 + Field(i.r1, 4, 1),
  Field(i.r1, 0, r1Low) * 16 + Field(i.r2, 1, 4),
  Field(i.r2, 0, 1) * 128 >>
HeaderShort(i) == HeaderSplitting(i, 3)  \* a slip: a mask of 0x07
Header(i) == HeaderSplitting(i, 4)

BuildFrame(i, data) ==
  /\ StartCoder(Header(i) \o data)
  /\ info' = i
  /\ UNCHANGED mapVars

Encode == CoderStep /\ UNCHANGED <<mapVars, info>>

\* "TODO REMOVE (DEBUG ONLY)"
Overwrite ==
  /\ ccPc = "coded"
  /\ \E layout \in PilotLayouts :
       StartMapper([k \in 1..CodedBytes |-> DebugByte], layout)
  /\ UNCHANGED <<ccVars, info>>

MapSymbols == MapperStep /\ UNCHANGED <<ccVars, info>>

\* encode() has returned.
Finished == mapPc = "sent" /\ UNCHANGED vars

Next ==
  \/ \E i \in Infos, data \in Payloads : BuildFrame(i, data)
  \/ Encode
  \/ Overwrite
  \/ MapSymbols
  \/ Finished

Spec == Init /\ [][Next]_vars

----------------------------------------------------------------------------
(* Properties.                                                             *)

\* The frame starts with source, destination and the routing fields, five
\* bits each whatever else their bytes hold, highest bit first, none cut at
\* the byte boundaries and none spilling into a neighbour.
HeaderBit(k) == BitAt(frame[k \div 8 + 1], 7 - (k % 8))
HeaderWhole ==
  ccPc # "off" =>
    LET fields == <<info.src, info.dst, info.r0, info.r1, info.r2>>
    IN /\ \A k \in 0..24 : HeaderBit(k) = BitAt(fields[k \div 5 + 1], 4 - (k % 5))
       /\ \A k \in 25..31 : HeaderBit(k) = 0
=============================================================================
