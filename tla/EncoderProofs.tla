--------------------------- MODULE EncoderProofs ---------------------------
(***************************************************************************)
(* Proofs about Encoder: how much the coder reads and writes and what its  *)
(* bits are, that the header is whole, where the pilots, the data and the  *)
(* prefixes go, and the types, for any length of the frame, any code, any  *)
(* size of the transform and any layout of the pilots.                     *)
(***************************************************************************)
EXTENDS Encoder, Integers, FiniteSetTheorems, SequenceTheorems, TLAPS

----------------------------------------------------------------------------
(* The coder: what it has read and written at each iteration.              *)

\* Bits read and bits written.
BitsIn == 8 * inPos + inBit
BitsOut == 8 * Len(encoded) + outBit

CoderInv ==
  /\ ccPc \in {"off", "seed", "body", "tail", "coded"}
  /\ ccCount \in Nat /\ inPos \in Nat /\ inBit \in 0..7
  /\ encoded \in Seq(Nat) /\ outByte \in Nat /\ outBit \in {0, 2, 4, 6}
  /\ ccPc = "off" => ccCount = 0 /\ BitsIn = 0 /\ BitsOut = 0
  /\ ccPc = "seed" => ccCount < CcLength /\ BitsIn = ccCount /\ BitsOut = 0
  /\ ccPc = "body" =>
       /\ ccCount < FrameBits - CcLength
       /\ BitsIn = CcLength + ccCount
       /\ BitsOut = 2 * ccCount
  /\ ccPc = "tail" =>
       /\ ccCount < CcLength
       /\ inPos = FrameBytes
       /\ BitsOut = 2 * (FrameBits - CcLength + ccCount)
  /\ ccPc = "coded" => ccCount = 0 /\ inPos = FrameBytes /\ BitsOut = 2 * FrameBits

LEMMA Sizes ==
  /\ ByteBits = 8 /\ FrameBytes \in Nat /\ FrameBits = 8 * FrameBytes
  /\ CcLength \in Nat /\ CcLength >= 1 /\ CcLength < FrameBits
<1>1. CcLength \in 1..StateBits /\ StateBits \in Nat
  BY CoderAssumption
<1>2. ByteBits = 8 /\ FrameBytes \in Nat /\ CcLength < FrameBits
  BY CoderAssumption, EncoderAssumption
<1>3. FrameBits = 8 * FrameBytes
  BY <1>2 DEF FrameBits
<1> QED BY <1>1, <1>2, <1>3

LEMMA WholeBytes ==
  ASSUME NEW p \in Nat, NEW b \in 0..7, NEW n \in Nat, 8 * p + b = 8 * n
  PROVE  p = n
OBVIOUS

LEMMA ParityBit == \A g, s : Parity(g, s) \in Bit
<1> SUFFICES ASSUME NEW g, NEW s PROVE Parity(g, s) \in Bit
  OBVIOUS
<1> DEFINE seen == {k \in 0..(CcLength - 1) : BitAt(g, k) = 1 /\ BitAt(s, k) = 1}
<1>1. IsFiniteSet(0..(CcLength - 1))
  BY Sizes, FS_Interval
<1>2. IsFiniteSet(seen)
  BY <1>1, FS_Subset
<1>3. Cardinality(seen) \in Nat
  BY <1>2, FS_CardinalityType
<1> HIDE DEF seen
<1>4. Cardinality(seen) % 2 \in {0, 1}
  BY <1>3
<1> QED BY <1>4 DEF Parity, Bit, seen

LEMMA PushNat ==
  ASSUME NEW byte \in Nat, NEW bit \in Nat
  PROVE  PushBit(byte, bit) \in Nat
<1>1. 2 ^ (ByteBits - 1) = 128
  <2>1. ByteBits - 1 = 7
    BY Sizes
  <2>2. 2 ^ 7 = 128
    OBVIOUS
  <2> QED BY <2>1, <2>2
<1> QED BY <1>1 DEF PushBit

\* A pair of bits goes out ...
LEMMA OutCount ==
  ASSUME CoderInv, NEW s, NextOutBits(s)
  PROVE  /\ encoded' \in Seq(Nat) /\ outByte' \in Nat /\ outBit' \in {0, 2, 4, 6}
         /\ BitsOut' = BitsOut + 2
<1> DEFINE byte == PushBit(PushBit(outByte, Parity(CcConstr[1], s)), Parity(CcConstr[2], s))
<1>1. byte \in Nat
  BY ParityBit, PushNat DEF CoderInv, Bit
<1>2. IF outBit + 2 >= 8
      THEN encoded' = Append(encoded, byte) /\ outByte' = 0 /\ outBit' = 0
      ELSE outByte' = byte /\ outBit' = outBit + 2 /\ UNCHANGED encoded
  BY Sizes DEF NextOutBits
<1> HIDE DEF byte
<1>3. CASE outBit = 6
  <2>1. encoded' = Append(encoded, byte) /\ outByte' = 0 /\ outBit' = 0
    BY <1>2, <1>3
  <2>2. encoded' \in Seq(Nat) /\ Len(encoded') = Len(encoded) + 1 /\ Len(encoded) \in Nat
    BY <1>1, <2>1 DEF CoderInv
  <2> QED BY <1>3, <2>1, <2>2 DEF BitsOut
<1>4. CASE outBit # 6
  <2>1. outByte' = byte /\ outBit' = outBit + 2 /\ encoded' = encoded
    BY <1>2, <1>4 DEF CoderInv
  <2>2. Len(encoded) \in Nat /\ outBit \in {0, 2, 4}
    BY <1>4 DEF CoderInv
  <2> QED BY <1>1, <2>1, <2>2 DEF BitsOut, CoderInv
<1> QED BY <1>3, <1>4

\* ... as a bit comes in.
LEMMA InCount ==
  ASSUME CoderInv, NextInBit
  PROVE  inPos' \in Nat /\ inBit' \in 0..7 /\ BitsIn' = BitsIn + 1
<1>1. inPos \in Nat /\ inBit \in 0..7
  BY DEF CoderInv
<1>2. IF inBit + 1 >= 8 THEN inPos' = inPos + 1 /\ inBit' = 0
                        ELSE inPos' = inPos /\ inBit' = inBit + 1
  BY Sizes DEF NextInBit
<1> QED BY <1>1, <1>2 DEF BitsIn

LEMMA InitCoderInv == Init => CoderInv
BY DEF Init, CoderOff, CoderInv, BitsIn, BitsOut

LEMMA NextCoderInv == CoderInv /\ [Next]_vars => CoderInv'
<1> SUFFICES ASSUME CoderInv, [Next]_vars PROVE CoderInv' OBVIOUS
<1>1. CASE UNCHANGED ccVars
  BY <1>1 DEF ccVars, CoderInv, BitsIn, BitsOut
<1>2. ASSUME NEW bytes, StartCoder(bytes) PROVE CoderInv'
  BY <1>2, Sizes DEF StartCoder, CoderInv, BitsIn, BitsOut
<1>3. CASE Seed
  <2>1. inPos' \in Nat /\ inBit' \in 0..7 /\ BitsIn' = BitsIn + 1
    BY <1>3, InCount DEF Seed
  <2>2. UNCHANGED <<encoded, outByte, outBit>> /\ BitsOut' = BitsOut
    BY <1>3 DEF Seed, BitsOut
  <2> QED BY <1>3, <2>1, <2>2, Sizes DEF Seed, LoopStep, CoderInv
<1>4. CASE Body
  <2>1. inPos' \in Nat /\ inBit' \in 0..7 /\ BitsIn' = BitsIn + 1
    BY <1>4, InCount DEF Body, BodyWith
  <2>2. /\ encoded' \in Seq(Nat) /\ outByte' \in Nat /\ outBit' \in {0, 2, 4, 6}
        /\ BitsOut' = BitsOut + 2
    BY <1>4, OutCount DEF Body, BodyWith
  <2>3. /\ ccPc = "body"
        /\ ccCount' = IF ccCount + 1 = FrameBits - CcLength THEN 0 ELSE ccCount + 1
        /\ ccPc' = IF ccCount + 1 = FrameBits - CcLength THEN "tail" ELSE "body"
    BY <1>4 DEF Body, BodyWith, LoopStep
  <2>4. CASE ccCount + 1 = FrameBits - CcLength
    <3>1. BitsIn' = CcLength + ccCount + 1
      BY <2>1, <2>3, Sizes DEF CoderInv
    <3>2. CcLength + ccCount + 1 = 8 * FrameBytes
      BY <2>4, Sizes DEF CoderInv
    <3>3. 8 * inPos' + inBit' = 8 * FrameBytes
      BY <3>1, <3>2 DEF BitsIn
    <3>4. inPos' = FrameBytes
      <4>1. FrameBytes \in Nat
        BY Sizes
      <4> QED BY <2>1, <3>3, <4>1, WholeBytes
    <3> QED BY <2>1, <2>2, <2>3, <2>4, <3>4, Sizes DEF CoderInv
  <2>5. CASE ccCount + 1 # FrameBits - CcLength
    BY <2>1, <2>2, <2>3, <2>5, Sizes DEF CoderInv
  <2> QED BY <2>4, <2>5
<1>5. CASE BiteTail
  <2>1. /\ encoded' \in Seq(Nat) /\ outByte' \in Nat /\ outBit' \in {0, 2, 4, 6}
        /\ BitsOut' = BitsOut + 2
    BY <1>5, OutCount DEF BiteTail
  <2>2. inPos' = inPos /\ inBit' \in 0..7
    BY <1>5, Sizes DEF BiteTail, CoderInv
  <2> QED BY <1>5, <2>1, <2>2, Sizes DEF BiteTail, LoopStep, CoderInv
<1> QED BY <1>1, <1>2, <1>3, <1>4, <1>5
    DEF Next, BuildFrame, Encode, CoderStep, Overwrite, MapSymbols, Finished, vars

\* The coder writes two bytes for each of the frame, never more on the way,
\* and reads no further than the byte behind it, for any length of the frame
\* and of the code.
THEOREM CodeFits == Spec => []OutputFits
<1>1. CoderInv => OutputFits
  <2> SUFFICES ASSUME CoderInv PROVE OutputFits OBVIOUS
  <2>1. Len(encoded) \in Nat /\ outBit \in {0, 2, 4, 6} /\ inPos \in Nat /\ inBit \in 0..7
    BY DEF CoderInv
  <2>2. BitsOut <= 16 * FrameBytes /\ (ccPc = "coded" => BitsOut = 16 * FrameBytes)
    BY <2>1, Sizes DEF CoderInv
  <2>3. inPos <= FrameBytes
    BY <2>1, Sizes DEF CoderInv, BitsIn
  <2> QED BY <2>1, <2>2, <2>3, Sizes DEF OutputFits, BitsOut
<1> QED BY <1>1, InitCoderInv, NextCoderInv, PTL DEF Spec

----------------------------------------------------------------------------
(* Arithmetic.                                                             *)

\* Quotient and remainder are determined.
LEMMA DivUnique ==
  ASSUME NEW m \in Nat \ {0}, NEW k \in Nat, NEW q \in Int, NEW r \in 0..(m - 1),
         k = m * q + r
  PROVE  k \div m = q /\ k % m = r
<1> DEFINE p == k \div m
           s == k % m
<1>1. p \in Int /\ s \in 0..(m - 1) /\ k = m * p + s
  OBVIOUS
<1> HIDE DEF p, s
<1>2. m * p - m * q = m * (p - q)
  BY <1>1
<1>3. CASE p - q >= 1
  <2>1. m * (p - q) >= m
    BY <1>1, <1>3
  <2> QED BY <1>1, <1>2, <2>1
<1>4. CASE p - q <= -1
  <2>1. m * (p - q) <= -m
    BY <1>1, <1>4
  <2> QED BY <1>1, <1>2, <2>1
<1>5. CASE p = q
  BY <1>1, <1>5 DEF p, s
<1> QED BY <1>1, <1>3, <1>4, <1>5

\* The place in a symbol after the next one.
LEMMA NextPlace ==
  ASSUME NEW m \in Nat \ {0}, NEW k \in Nat
  PROVE  /\ k % m \in 0..(m - 1)
         /\ (k + 1) % m = IF (k % m) + 1 = m THEN 0 ELSE (k % m) + 1
<1> DEFINE q == k \div m
           r == k % m
<1>1. q \in Int /\ r \in 0..(m - 1) /\ k = m * q + r
  OBVIOUS
<1> HIDE DEF q, r
<1>2. CASE r + 1 < m
  <2>1. \A a \in Nat, b \in 0..(m - 1) : a = m * q + b => a % m = b
    BY <1>1, DivUnique
  <2>2. (k + 1) % m = r + 1
    <3>1. k + 1 \in Nat /\ r + 1 \in 0..(m - 1) /\ k + 1 = m * q + (r + 1)
      BY <1>1, <1>2
    <3> QED BY <2>1, <3>1
  <2> QED BY <1>1, <1>2, <2>2 DEF r
<1>3. CASE r + 1 = m
  <2>1. m * (q + 1) = m * q + m
    BY <1>1
  <2>2. k + 1 = m * (q + 1) + 0 /\ 0 \in 0..(m - 1)
    BY <1>1, <1>3, <2>1
  <2>3. (k + 1) % m = 0
    BY <1>1, <2>2, DivUnique
  <2> QED BY <1>1, <1>3, <2>3 DEF r
<1> QED BY <1>1, <1>2, <1>3

\* The symbols up to one fill a multiple of their length.
LEMMA SymbolsFill ==
  ASSUME NEW m \in Nat \ {0}, NEW n \in Nat, NEW k \in Nat
  PROVE  /\ k < m * n => k \div m < n
         /\ k \div m < n => k < m * n
<1> DEFINE q == k \div m
           r == k % m
<1>1. q \in Int /\ r \in 0..(m - 1) /\ k = m * q + r
  OBVIOUS
<1> HIDE DEF q, r
<1>2. m * n - m * q = m * (n - q)
  BY <1>1
<1>3. CASE n - q >= 1
  <2>1. m * (n - q) >= m
    BY <1>1, <1>3
  <2> QED BY <1>1, <1>2, <1>3, <2>1 DEF q
<1>4. CASE n - q <= 0
  <2>1. m * (n - q) <= 0
    BY <1>1, <1>4
  <2> QED BY <1>1, <1>2, <1>4, <2>1 DEF q
<1> QED BY <1>1, <1>3, <1>4

----------------------------------------------------------------------------
(* The mapper: where the pilots, the points and the samples are.           *)

\* The bits a point of the debug byte can carry, and the samples there are.
PointBits == {(DebugByte \div 4 ^ (j - 1)) % 4 : j \in 1..PointsPerByte} \cup {0}
Points == [kind : {"data", "pilot", "zero", "time"}, bits : PointBits, nr : Nat]

\* The pilots before the next one are behind, the others still to come, but
\* for a symbol that has had its last.
Behind(o, next) ==
  \/ /\ \A p \in 1..next : pilots[p] < o
     /\ \A p \in (next + 1)..Len(pilots) : pilots[p] >= o
     /\ next < Len(pilots) \/ next = 0
  \/ next = 0 /\ \A p \in 1..Len(pilots) : pilots[p] < o

MapperTypes ==
  /\ pilots \in PilotLayouts \cup {<<>>}
  /\ mapCount \in Nat /\ inIdx \in Nat /\ pilotIdx \in Nat
  /\ modulated \in Seq(Points)
  /\ mapped \in Seq(Points)
  /\ samps \in Seq(Points)
  /\ \A k \in 1..Len(modulated) : modulated[k].kind = "data"

MapperInv ==
  /\ MapperTypes
  /\ mapPc \in {"off", "modulate", "pilots", "fft", "prefix", "sent"}
  /\ mapPc \in {"off", "modulate", "pilots", "fft"} => samps = <<>>
  /\ mapPc \in {"off", "modulate"} => mapped = <<>> /\ inIdx = 0 /\ pilotIdx = 0
  /\ mapPc \in {"off", "pilots"} => mapCount = 0
  /\ mapPc = "off" => modulated = <<>>
  /\ mapPc = "modulate" =>
       /\ coded = [k \in 1..CodedBytes |-> DebugByte]
       /\ mapCount < CodedBytes
       /\ Len(modulated) = PointsPerByte * mapCount
  /\ mapPc = "pilots" =>
       /\ Len(modulated) = NumPoints
       /\ Len(mapped) < NOut
       /\ Behind(Len(mapped) % NFft, pilotIdx)
  /\ mapPc \in {"fft", "prefix"} => mapCount < NSym /\ Len(mapped) = NOut
  /\ mapPc = "fft" =>
       \A k \in 1..NOut : (k - 1) \div NFft < mapCount => mapped[k] = Time(k - 1)
  /\ mapPc = "prefix" =>
       /\ \A k \in 1..(NFft * NSym) : mapped[k] = Time(k - 1)
       /\ Len(samps) = (NFft + NCp) * mapCount
  /\ mapPc = "sent" => Len(samps) = (NFft + NCp) * NSym
  /\ PilotsInPlace
  /\ SymbolsWithPrefix

LEMMA Dimensions ==
  /\ CodedBytes \in Nat \ {0} /\ PointsPerByte \in Nat \ {0}
  /\ NFft \in Nat \ {0} /\ NSym \in Nat \ {0} /\ NCp \in 0..NFft
  /\ NOut \in Nat /\ NFft * NSym \in Nat /\ NFft * NSym <= NOut /\ NOut > 0
<1>1. /\ CodedBytes \in Nat \ {0} /\ PointsPerByte \in Nat \ {0}
      /\ NFft \in Nat \ {0} /\ NSym \in Nat \ {0} /\ NCp \in 0..NFft
      /\ NOut \in Nat /\ NSym * NFft <= NOut
  BY MapperAssumption
<1>2. NSym * NFft = NFft * NSym /\ NFft * NSym \in Nat /\ NFft * NSym >= 1
  BY <1>1
<1> QED BY <1>1, <1>2

\* The pilots of a layout are in order (tx.h:30).
LEMMA PilotsOrdered ==
  ASSUME pilots \in PilotLayouts \cup {<<>>}
  PROVE  /\ Len(pilots) \in Nat
         /\ \A p \in 1..Len(pilots) : pilots[p] \in 0..(NFft - 1)
         /\ \A p, r \in 1..Len(pilots) : p < r => pilots[p] < pilots[r]
<1>1. CASE pilots = <<>>
  BY <1>1
<1>2. CASE pilots \in PilotLayouts
  <2>1. pilots \in Seq(0..(NFft - 1))
    BY <1>2, MapperAssumption, Zenon
  <2>2. \A p, r \in 1..Len(pilots) : p < r => pilots[p] < pilots[r]
    BY <1>2, MapperAssumption, Zenon
  <2>3. Len(pilots) \in Nat /\ \A p \in 1..Len(pilots) : pilots[p] \in 0..(NFft - 1)
    <3>1. Len(pilots) \in Nat
      BY <2>1, LenProperties
    <3> QED BY <2>1, <3>1, ElementOfSeq
  <2> QED BY <2>2, <2>3
<1> QED BY <1>1, <1>2

LEMMA SampleTypes ==
  ASSUME NEW k \in Nat
  PROVE  /\ Pilot(k) \in Points /\ Time(k) \in Points /\ Zero \in Points
         /\ Zero.kind = "zero" /\ Pilot(k).kind = "pilot" /\ Time(k).kind = "time"
         /\ \A j \in Nat : Pilot(k) = Pilot(j) => k = j
BY DEF Pilot, Time, Zero, Points, PointBits

\* Modulating a byte appends its points.
LEMMA ModulateKeeps == MapperInv /\ Modulate => MapperInv'
<1> SUFFICES ASSUME MapperInv, Modulate PROVE MapperInv' OBVIOUS
<1> USE Dimensions
<1> DEFINE first == PointsPerByte * mapCount
           new == PointsOf(coded[mapCount + 1], first)
<1>1. /\ mapPc = "modulate" /\ mapCount \in Nat /\ mapCount < CodedBytes
      /\ coded = [k \in 1..CodedBytes |-> DebugByte]
      /\ Len(modulated) = first /\ modulated \in Seq(Points)
      /\ \A k \in 1..Len(modulated) : modulated[k].kind = "data"
      /\ mapped = <<>> /\ samps = <<>> /\ inIdx = 0 /\ pilotIdx = 0
      /\ pilots \in PilotLayouts \cup {<<>>}
  BY DEF MapperInv, MapperTypes, Modulate, CountTo
<1>2. /\ mapCount' = IF mapCount + 1 = CodedBytes THEN 0 ELSE mapCount + 1
      /\ mapPc' = IF mapCount + 1 = CodedBytes THEN "pilots" ELSE "modulate"
      /\ modulated' = modulated \o new
      /\ UNCHANGED <<coded, pilots, inIdx, pilotIdx, mapped, samps>>
  BY <1>1 DEF Modulate, CountTo
<1>3. first \in Nat /\ first + PointsPerByte = PointsPerByte * (mapCount + 1)
  BY <1>1
<1>4. coded[mapCount + 1] = DebugByte
  BY <1>1
<1> HIDE DEF first
<1>5. new = [j \in 1..PointsPerByte |->
               Data((DebugByte \div 4 ^ (j - 1)) % 4, first + j - 1)]
  BY <1>4 DEF PointsOf
<1>6. ASSUME NEW j \in 1..PointsPerByte
      PROVE  new[j] \in Points /\ new[j].kind = "data"
  <2>1. first + j - 1 \in Nat
    BY <1>3
  <2>2. (DebugByte \div 4 ^ (j - 1)) % 4 \in PointBits
    BY DEF PointBits
  <2> HIDE DEF new
  <2> QED BY <1>5, <2>1, <2>2 DEF Data, Points
<1> HIDE DEF new
<1>7. new \in Seq(Points) /\ Len(new) = PointsPerByte
  BY <1>5, <1>6
<1>8. /\ modulated' \in Seq(Points)
      /\ Len(modulated') = PointsPerByte * (mapCount + 1)
      /\ \A k \in 1..Len(modulated') :
           modulated'[k] = IF k <= first THEN modulated[k] ELSE new[k - first]
      /\ Len(modulated') = first + PointsPerByte
  <2>1. /\ modulated \o new \in Seq(Points)
        /\ Len(modulated \o new) = Len(modulated) + Len(new)
        /\ \A k \in 1..(Len(modulated) + Len(new)) :
             (modulated \o new)[k] = IF k <= Len(modulated) THEN modulated[k]
                                     ELSE new[k - Len(modulated)]
    BY <1>1, <1>7, ConcatProperties
  <2> QED BY <1>1, <1>2, <1>3, <1>7, <2>1
<1>9. ASSUME NEW k \in 1..Len(modulated') PROVE modulated'[k].kind = "data"
  <2>1. CASE k <= first
    BY <1>1, <1>3, <1>8, <2>1
  <2>2. CASE k > first
    <3>1. k - first \in 1..PointsPerByte /\ ~(k <= first)
      BY <1>3, <1>8, <2>2
    <3>2. modulated'[k] = new[k - first]
      BY <1>8, <3>1
    <3> QED BY <1>6, <3>1, <3>2
  <2> QED BY <1>3, <2>1, <2>2
<1>10. MapperTypes'
  <2>1. mapCount' \in Nat
    BY <1>1, <1>2
  <2>2. mapped \in Seq(Points) /\ samps \in Seq(Points)
    BY DEF MapperInv, MapperTypes
  <2> QED BY <1>1, <1>2, <1>8, <1>9, <2>1, <2>2 DEF MapperTypes
<1>11. mapCount + 1 = CodedBytes => PointsPerByte * (mapCount + 1) = NumPoints
  <2>1. PointsPerByte * CodedBytes = NumPoints
    BY DEF NumPoints
  <2> QED BY <2>1
<1>12. Behind(Len(mapped) % NFft, pilotIdx)'
  <2>1. 0 % NFft = 0
    BY DivUnique, 0 = NFft * 0 + 0
  <2>2. Len(mapped') = 0 /\ pilotIdx' = 0 /\ pilots' = pilots
    BY <1>1, <1>2
  <2>3. Behind(0, 0)
    <3>1. Len(pilots) \in Nat /\ \A p \in 1..Len(pilots) : pilots[p] \in 0..(NFft - 1)
      BY <1>1, PilotsOrdered
    <3>2. \A p \in (0 + 1)..Len(pilots) : pilots[p] >= 0
      BY <3>1
    <3> QED BY <3>2 DEF Behind
  <2> QED BY <2>1, <2>2, <2>3 DEF Behind
<1>13. PilotsInPlace' /\ SymbolsWithPrefix'
  BY <1>1, <1>2 DEF PilotsInPlace, SymbolsWithPrefix
<1> QED BY <1>1, <1>2, <1>8, <1>10, <1>11, <1>12, <1>13 DEF MapperInv

\* Where a pilot is due it is the next one, and one place on the next is due
\* or still to come again.
LEMMA BehindNext ==
  ASSUME pilots \in PilotLayouts \cup {<<>>}, NEW o \in 0..(NFft - 1), NEW next \in Nat,
         Behind(o, next)
  PROVE  LET here == next < Len(pilots) /\ pilots[next + 1] = o
             then == IF ~here THEN next ELSE IF next + 1 >= Len(pilots) THEN 0 ELSE next + 1
         IN /\ \A p \in 1..Len(pilots) : pilots[p] = o <=> here /\ p = next + 1
            /\ Behind(IF o + 1 = NFft THEN 0 ELSE o + 1, then)
<1> USE Dimensions
<1> DEFINE n == Len(pilots)
           here == next < n /\ pilots[next + 1] = o
           then == IF ~here THEN next ELSE IF next + 1 >= n THEN 0 ELSE next + 1
           o2 == IF o + 1 = NFft THEN 0 ELSE o + 1
<1>1. /\ n \in Nat
      /\ \A p \in 1..n : pilots[p] \in 0..(NFft - 1)
      /\ \A p, r \in 1..n : p < r => pilots[p] < pilots[r]
  BY PilotsOrdered
<1>2. \/ /\ \A p \in 1..next : pilots[p] < o
         /\ \A p \in (next + 1)..n : pilots[p] >= o
         /\ next < n \/ next = 0
      \/ next = 0 /\ \A p \in 1..n : pilots[p] < o
  BY DEF Behind
<1> HIDE DEF n
<1>3. ASSUME NEW p \in 1..n, p > next + 1, pilots[next + 1] >= o PROVE pilots[p] > o
  <2>1. next + 1 \in 1..n
    BY <1>1, <1>3
  <2>2. pilots[next + 1] < pilots[p]
    BY <1>1, <1>3, <2>1
  <2> QED BY <1>1, <1>3, <2>1, <2>2
<1>4. ASSUME NEW p \in 1..n PROVE pilots[p] = o <=> here /\ p = next + 1
  <2>1. CASE p <= next
    BY <1>1, <1>2, <2>1
  <2>2. CASE p = next + 1
    BY <1>1, <1>2, <2>2
  <2>3. CASE p > next + 1
    <3>1. next + 1 \in 1..n
      BY <1>1, <2>3
    <3>2. CASE pilots[next + 1] >= o
      BY <1>1, <1>3, <2>3, <3>2
    <3>3. CASE ~(pilots[next + 1] >= o)
      BY <1>1, <1>2, <2>3, <3>1, <3>3
    <3> QED BY <3>2, <3>3
  <2> QED BY <2>1, <2>2, <2>3
<1>5. CASE here
  <2>1. /\ \A p \in 1..(next + 1) : pilots[p] <= o
        /\ \A p \in (next + 2)..n : pilots[p] > o
    <3>1. ASSUME NEW p \in 1..(next + 1) PROVE pilots[p] <= o
      <4>1. CASE p = next + 1
        BY <1>5, <4>1
      <4>2. CASE p # next + 1
        <5>1. p \in 1..n /\ next + 1 \in 1..n /\ p < next + 1
          BY <1>1, <1>5, <3>1, <4>2
        <5>2. pilots[p] < pilots[next + 1] /\ pilots[p] \in Nat
          BY <1>1, <5>1
        <5> QED BY <1>5, <5>2
      <4> QED BY <4>1, <4>2
    <3>2. ASSUME NEW p \in (next + 2)..n PROVE pilots[p] > o
      BY <1>1, <1>3, <1>5, <3>2
    <3> QED BY <3>1, <3>2
  <2>2. o + 1 = NFft => next + 1 >= n
    <3> SUFFICES ASSUME o + 1 = NFft, next + 2 <= n PROVE FALSE
      BY <1>1
    <3>1. pilots[next + 2] > o /\ pilots[next + 2] \in 0..(NFft - 1)
      BY <1>1, <2>1
    <3> QED BY <3>1
  <2>3. CASE o + 1 = NFft
    <3>1. o2 = 0 /\ then = 0
      BY <1>5, <2>2, <2>3
    <3>2. \A p \in 1..n : pilots[p] >= 0
      BY <1>1
    <3>3. Behind(0, 0)
      BY <1>1, <3>2 DEF Behind, n
    <3> QED BY <3>1, <3>3, <1>4 DEF n
  <2>4. CASE o + 1 # NFft /\ next + 1 >= n
    <3>1. o2 = o + 1 /\ then = 0
      BY <1>5, <2>4
    <3>2. \A p \in 1..n : pilots[p] < o + 1
      BY <1>1, <2>1, <2>4
    <3>3. Behind(o + 1, 0)
      BY <1>1, <3>2 DEF Behind, n
    <3> QED BY <3>1, <3>3, <1>4 DEF n
  <2>5. CASE o + 1 # NFft /\ next + 1 < n
    <3>1. o2 = o + 1 /\ then = next + 1
      BY <1>1, <1>5, <2>5
    <3>2. /\ \A p \in 1..(next + 1) : pilots[p] < o + 1
          /\ \A p \in (next + 2)..n : pilots[p] >= o + 1
      <4>1. 1..(next + 1) \subseteq 1..n /\ (next + 2)..n \subseteq 1..n
        BY <1>1, <2>5
      <4>2. \A p \in 1..n : pilots[p] \in Nat
        BY <1>1
      <4> QED BY <2>1, <4>1, <4>2
    <3>3. Behind(o + 1, next + 1)
      BY <1>1, <2>5, <3>2 DEF Behind, n
    <3> QED BY <3>1, <3>3, <1>4 DEF n
  <2> QED BY <1>1, <2>3, <2>4, <2>5
<1>6. CASE ~here
  <2>0. then = next
    BY <1>6
  <2>1. \A p \in 1..n : pilots[p] # o
    BY <1>4, <1>6
  <2>2. CASE o + 1 = NFft
    <3>1. \A p \in 1..n : pilots[p] < o
      BY <1>1, <2>1, <2>2
    <3>2. next = 0
      BY <1>1, <1>2, <3>1
    <3>3. Behind(0, 0)
      BY <1>1 DEF Behind, n
    <3> QED BY <2>0, <2>2, <3>2, <3>3, <1>4 DEF n
  <2>3. CASE o + 1 # NFft
    <3>1. \A p \in 1..n : (pilots[p] < o => pilots[p] < o + 1)
                           /\ (pilots[p] >= o => pilots[p] >= o + 1)
      BY <1>1, <2>1
    <3>2. Behind(o + 1, next)
      BY <1>1, <1>2, <3>1 DEF Behind, n
    <3> QED BY <2>0, <2>3, <3>2, <1>4 DEF n
  <2> QED BY <2>2, <2>3
<1> QED BY <1>5, <1>6

\* A place is filled with the next pilot exactly where one is due.
LEMMA AddPilotsKeeps == MapperInv /\ AddPilots => MapperInv'
<1> SUFFICES ASSUME MapperInv, AddPilots PROVE MapperInv' OBVIOUS
<1> USE Dimensions
<1> DEFINE n == Len(mapped)
           o == n % NFft
           then == IF ~PilotHere THEN pilotIdx
                   ELSE IF pilotIdx + 1 >= Len(pilots) THEN 0 ELSE pilotIdx + 1
<1>1. /\ mapPc = "pilots" /\ mapCount = 0 /\ samps = <<>>
      /\ Len(modulated) = NumPoints /\ n < NOut /\ Behind(o, pilotIdx)
      /\ MapperTypes /\ PilotsInPlace
  BY DEF MapperInv, AddPilots
<1>2. /\ mapPc' = IF n + 1 = NOut THEN "fft" ELSE "pilots"
      /\ UNCHANGED <<coded, pilots, mapCount, modulated, samps>>
  BY DEF AddPilots
<1>3. /\ n \in Nat /\ pilotIdx \in Nat /\ inIdx \in Nat /\ mapped \in Seq(Points)
      /\ pilots \in PilotLayouts \cup {<<>>}
  BY <1>1 DEF MapperTypes
<1>4. /\ Len(pilots) \in Nat
      /\ then \in Nat
  BY <1>3, PilotsOrdered
<1>5. PilotHere <=> pilotIdx < Len(pilots) /\ pilots[pilotIdx + 1] = o
  BY DEF PilotHere
<1>6. PICK w \in Points :
        /\ mapped' = Append(mapped, w)
        /\ IF PilotHere THEN w = Pilot(pilotIdx) ELSE w.kind \in {"data", "zero"}
        /\ inIdx' \in Nat
        /\ pilotIdx' = then
  <2>1. CASE PutPilot
    BY <1>3, <2>1, SampleTypes DEF PutPilot, PutPilotThen
  <2>2. CASE PutData
    <3>1. inIdx + 1 \in 1..Len(modulated)
      BY <1>1, <1>3, <2>2 DEF PutData, PutDataFrom, NumPoints
    <3>2. modulated[inIdx + 1] \in Points /\ modulated[inIdx + 1].kind = "data"
      BY <1>1, <3>1 DEF MapperTypes
    <3> QED BY <1>3, <2>2, <3>2 DEF PutData, PutDataFrom
  <2>3. CASE PutZero
    BY <1>3, <2>3, SampleTypes DEF PutZero
  <2> QED BY <2>1, <2>2, <2>3 DEF AddPilots
<1>7. /\ Len(mapped') = n + 1 /\ mapped' \in Seq(Points) /\ mapped'[n + 1] = w
      /\ \A k \in 1..n : mapped'[k] = mapped[k]
  BY <1>3, <1>6
<1> HIDE DEF n
<1>8. /\ o \in 0..(NFft - 1)
      /\ (n + 1) % NFft = IF o + 1 = NFft THEN 0 ELSE o + 1
  BY <1>3, NextPlace
<1> HIDE DEF o
<1>9. /\ \A p \in 1..Len(pilots) : pilots[p] = o <=> PilotHere /\ p = pilotIdx + 1
      /\ Behind((n + 1) % NFft, then)
  <2>1. LET here == pilotIdx < Len(pilots) /\ pilots[pilotIdx + 1] = o
            after == IF ~here THEN pilotIdx
                     ELSE IF pilotIdx + 1 >= Len(pilots) THEN 0 ELSE pilotIdx + 1
        IN /\ \A p \in 1..Len(pilots) : pilots[p] = o <=> here /\ p = pilotIdx + 1
           /\ Behind(IF o + 1 = NFft THEN 0 ELSE o + 1, after)
    BY <1>1, <1>3, <1>8, BehindNext
  <2> QED BY <1>5, <1>8, <2>1
<1> HIDE DEF then
<1>10. PilotsInPlace'
  <2> SUFFICES ASSUME NEW k \in 1..(n + 1), mapped'[k].kind # "time",
                      NEW p \in 1..Len(pilots)
               PROVE  mapped'[k] = Pilot(p - 1) <=> (k - 1) % NFft = pilots[p]
    BY <1>2, <1>7 DEF PilotsInPlace
  <2>1. CASE k = n + 1
    <3>1. (k - 1) % NFft = o /\ mapped'[k] = w
      <4>1. k - 1 = n
        BY <1>3, <2>1
      <4> QED BY <1>7, <2>1, <4>1 DEF o
    <3>2. p \in Nat /\ p - 1 \in Nat /\ (p - 1 = pilotIdx <=> p = pilotIdx + 1)
      BY <1>3, <1>4
    <3>3. CASE PilotHere
      <4>1. w = Pilot(pilotIdx)
        BY <1>6, <3>3
      <4>2. w = Pilot(p - 1) <=> p - 1 = pilotIdx
        BY <1>3, <3>2, <4>1, SampleTypes
      <4>3. pilots[p] = o <=> p = pilotIdx + 1
        BY <1>9, <3>3
      <4> QED BY <3>1, <3>2, <4>2, <4>3
    <3>4. CASE ~PilotHere
      <4>1. w # Pilot(p - 1)
        BY <1>6, <3>2, <3>4, SampleTypes
      <4> QED BY <1>9, <3>1, <3>4, <4>1
    <3> QED BY <3>3, <3>4
  <2>2. CASE k # n + 1
    <3>1. k \in 1..n
      BY <1>3, <2>2
    <3>2. mapped'[k] = mapped[k]
      BY <1>7, <3>1
    <3> QED BY <1>1, <2>2, <3>1, <3>2 DEF PilotsInPlace, n
  <2> QED BY <2>1, <2>2
<1>11. MapperTypes'
  <2>1. pilotIdx' \in Nat
    BY <1>4, <1>6
  <2> QED BY <1>1, <1>2, <1>6, <1>7, <2>1 DEF MapperTypes
<1>12. SymbolsWithPrefix'
  BY <1>1, <1>2 DEF SymbolsWithPrefix
<1>13. CASE n + 1 = NOut
  <2>1. \A k \in 1..NOut : ~((k - 1) \div NFft < 0)
    <3> SUFFICES ASSUME NEW k \in 1..NOut, (k - 1) \div NFft < 0 PROVE FALSE
      OBVIOUS
    <3>1. k - 1 \in Nat /\ NFft * 0 = 0
      OBVIOUS
    <3>2. k - 1 < 0
      BY <3>1, SymbolsFill
    <3> QED BY <3>1, <3>2
  <2>2. mapPc' = "fft" /\ mapCount' = 0 /\ 0 < NSym /\ Len(mapped') = NOut
    BY <1>1, <1>2, <1>7, <1>13
  <2> QED BY <1>1, <1>2, <1>10, <1>11, <1>12, <2>1, <2>2 DEF MapperInv
<1>14. CASE n + 1 # NOut
  <2>1. mapPc' = "pilots" /\ mapCount' = 0 /\ Len(mapped') < NOut
    BY <1>1, <1>2, <1>3, <1>7, <1>14 DEF n
  <2>2. Behind(Len(mapped) % NFft, pilotIdx)'
    BY <1>2, <1>6, <1>7, <1>9 DEF Behind
  <2> QED BY <1>1, <1>2, <1>10, <1>11, <1>12, <2>1, <2>2 DEF MapperInv
<1> QED BY <1>13, <1>14

\* Transforming a symbol leaves the others alone.
LEMMA TransformKeeps == MapperInv /\ Transform => MapperInv'
<1> SUFFICES ASSUME MapperInv, Transform PROVE MapperInv' OBVIOUS
<1> USE Dimensions
<1>1. /\ mapPc = "fft" /\ mapCount \in Nat /\ mapCount < NSym /\ Len(mapped) = NOut
      /\ samps = <<>> /\ MapperTypes /\ PilotsInPlace /\ mapped \in Seq(Points)
      /\ \A k \in 1..NOut : (k - 1) \div NFft < mapCount => mapped[k] = Time(k - 1)
  BY DEF MapperInv, MapperTypes, Transform, CountTo
<1>2. /\ mapCount' = IF mapCount + 1 = NSym THEN 0 ELSE mapCount + 1
      /\ mapPc' = IF mapCount + 1 = NSym THEN "prefix" ELSE "fft"
      /\ mapped' = [k \in 1..NOut |->
                    IF (k - 1) \div NFft = mapCount THEN Time(k - 1) ELSE mapped[k]]
      /\ UNCHANGED <<coded, pilots, modulated, inIdx, pilotIdx, samps>>
  BY DEF Transform, CountTo
<1>3. ASSUME NEW k \in 1..NOut
      PROVE  /\ mapped'[k] \in Points
             /\ mapped'[k].kind # "time" => mapped'[k] = mapped[k]
             /\ (k - 1) \div NFft < mapCount + 1 => mapped'[k] = Time(k - 1)
  <2>1. k - 1 \in Nat /\ (k - 1) \div NFft \in Int
    OBVIOUS
  <2>2. mapped[k] \in Points /\ Time(k - 1) \in Points /\ Time(k - 1).kind = "time"
    BY <1>1, <2>1, SampleTypes
  <2>3. mapped'[k] = IF (k - 1) \div NFft = mapCount THEN Time(k - 1) ELSE mapped[k]
    BY <1>2
  <2> QED BY <1>1, <2>1, <2>2, <2>3
<1>4. mapped' \in Seq(Points) /\ Len(mapped') = NOut
  BY <1>2, <1>3
<1>5. PilotsInPlace'
  <2> SUFFICES ASSUME NEW k \in 1..NOut, mapped'[k].kind # "time",
                      NEW p \in 1..Len(pilots)
               PROVE  mapped'[k] = Pilot(p - 1) <=> (k - 1) % NFft = pilots[p]
    <3>1. Len(mapped') = NOut /\ pilots' = pilots
      BY <1>2, <1>4
    <3> QED BY <3>1 DEF PilotsInPlace
  <2>1. \A j \in 1..NOut : mapped[j].kind # "time" =>
          \A t \in 1..Len(pilots) : mapped[j] = Pilot(t - 1) <=> (j - 1) % NFft = pilots[t]
    BY <1>1 DEF PilotsInPlace
  <2>2. mapped'[k] = mapped[k] /\ mapped[k].kind # "time"
    BY <1>3
  <2> QED BY <2>1, <2>2
<1>6. MapperTypes'
  <2>1. mapCount' \in Nat
    BY <1>1, <1>2
  <2> QED BY <1>1, <1>2, <1>4, <2>1 DEF MapperTypes
<1>7. SymbolsWithPrefix'
  BY <1>1, <1>2 DEF SymbolsWithPrefix
<1>8. CASE mapCount + 1 = NSym
  <2>1. ASSUME NEW k \in 1..(NFft * NSym) PROVE mapped'[k] = Time(k - 1)
    <3>1. k \in 1..NOut /\ k - 1 \in Nat /\ k - 1 < NFft * NSym
      OBVIOUS
    <3>2. (k - 1) \div NFft < NSym
      BY <3>1, SymbolsFill
    <3> QED BY <1>3, <1>8, <3>1, <3>2
  <2>2. /\ mapPc' = "prefix" /\ mapCount' = 0 /\ mapCount' < NSym
        /\ samps' = <<>> /\ Len(samps') = 0 /\ (NFft + NCp) * mapCount' = 0
    BY <1>1, <1>2, <1>8
  <2>3. Len(samps') = (NFft + NCp) * mapCount'
    BY <2>2
  <2> QED BY <1>4, <1>5, <1>6, <1>7, <2>1, <2>2, <2>3 DEF MapperInv
<1>9. CASE mapCount + 1 # NSym
  <2>1. mapPc' = "fft" /\ mapCount' = mapCount + 1 /\ mapCount' < NSym /\ samps' = <<>>
    BY <1>1, <1>2, <1>9
  <2>2. \A k \in 1..NOut : (k - 1) \div NFft < mapCount' => mapped'[k] = Time(k - 1)
    BY <1>3, <2>1
  <2> QED BY <1>4, <1>5, <1>6, <1>7, <2>1, <2>2 DEF MapperInv
<1> QED BY <1>8, <1>9

\* A symbol goes out behind a copy of its end.
LEMMA AddPrefixKeeps == MapperInv /\ AddPrefix => MapperInv'
<1> SUFFICES ASSUME MapperInv, AddPrefix PROVE MapperInv' OBVIOUS
<1> USE Dimensions
<1> DEFINE c == mapCount
           base == c * NFft
           all == NFft * NSym
           size == NFft + NCp
           sent == size * c
           first == (c + 1) * NFft - NCp
           prefix == SubSeq(mapped, first + 1, first + NCp)
           symbol == SubSeq(mapped, base + 1, base + NFft)
<1>1. /\ mapPc = "prefix" /\ c \in Nat /\ c < NSym /\ Len(mapped) = NOut
      /\ mapped \in Seq(Points) /\ samps \in Seq(Points) /\ Len(samps) = sent
      /\ MapperTypes /\ PilotsInPlace /\ SymbolsWithPrefix
  BY DEF MapperInv, MapperTypes, AddPrefix, PrefixFrom, CountTo
<1>2. \A k \in 1..all : mapped[k] = Time(k - 1)
  BY <1>1 DEF MapperInv
<1>3. /\ mapCount' = IF c + 1 = NSym THEN 0 ELSE c + 1
      /\ mapPc' = IF c + 1 = NSym THEN "sent" ELSE "prefix"
      /\ samps' = samps \o prefix \o symbol
      /\ UNCHANGED <<coded, pilots, modulated, inIdx, pilotIdx, mapped>>
  BY DEF AddPrefix, PrefixFrom, CountTo
<1>4. /\ base \in Nat /\ (c + 1) * NFft = base + NFft
      /\ all \in Nat /\ base + NFft <= all /\ all <= NOut
      /\ size \in Nat \ {0} /\ sent \in Nat /\ size * (c + 1) = sent + size
  <2>1. (c + 1) * NFft <= NFft * NSym
    <3>1. NFft * NSym - (c + 1) * NFft = NFft * (NSym - (c + 1))
      BY <1>1
    <3>2. NFft * (NSym - (c + 1)) >= 0
      BY <1>1
    <3>3. (c + 1) * NFft \in Int
      BY <1>1
    <3> QED BY <3>1, <3>2, <3>3
  <2>2. base \in Nat /\ (c + 1) * NFft = base + NFft
    BY <1>1
  <2>3. size \in Nat \ {0} /\ sent \in Nat
    BY <1>1
  <2>4. size * (c + 1) = sent + size
    <3>1. \A x \in Nat : x * (c + 1) = x * c + x
      BY <1>1
    <3> HIDE DEF size
    <3> QED BY <2>3, <3>1
  <2> QED BY <2>1, <2>2, <2>3, <2>4
<1>5. first = base + (NFft - NCp) /\ first \in Nat /\ first + NCp = base + NFft
  BY <1>4
<1> HIDE DEF all, base, size, sent, first
<1>6. /\ prefix \in Seq(Points) /\ Len(prefix) = NCp
      /\ \A j \in 1..NCp : prefix[j] = Time(first + j - 1)
  <2>1. /\ prefix \in Seq(Points) /\ Len(prefix) = NCp
        /\ \A j \in 1..NCp : prefix[j] = mapped[first + j]
    <3> DEFINE a == first + 1
               b == first + NCp
    <3>1. /\ a \in 1..(Len(mapped) + 1) /\ b \in (a - 1)..Len(mapped)
          /\ mapped \in Seq(Points) /\ b - a + 1 = NCp
          /\ \A j \in 1..NCp : a + j - 1 = first + j
      BY <1>1, <1>4, <1>5
    <3>2. prefix = SubSeq(mapped, a, b)
      OBVIOUS
    <3> HIDE DEF a, b, prefix
    <3>3. /\ prefix \in Seq(Points) /\ Len(prefix) = b - a + 1
          /\ \A j \in 1..(b - a + 1) : prefix[j] = mapped[a + j - 1]
      BY <3>1, <3>2, SubSeqProperties
    <3> QED BY <3>1, <3>3
  <2>2. ASSUME NEW j \in 1..NCp PROVE mapped[first + j] = Time(first + j - 1)
    <3>1. first + j \in 1..all /\ (first + j) - 1 = first + j - 1
      BY <1>4, <1>5
    <3>2. mapped[first + j] = Time((first + j) - 1)
      BY <1>2, <3>1
    <3> QED BY <3>1, <3>2
  <2> QED BY <2>1, <2>2
<1>7. /\ symbol \in Seq(Points) /\ Len(symbol) = NFft
      /\ \A j \in 1..NFft : symbol[j] = Time(base + j - 1)
  <2>1. /\ symbol \in Seq(Points) /\ Len(symbol) = NFft
        /\ \A j \in 1..NFft : symbol[j] = mapped[base + j]
    <3> DEFINE a == base + 1
               b == base + NFft
    <3>1. /\ a \in 1..(Len(mapped) + 1) /\ b \in (a - 1)..Len(mapped)
          /\ mapped \in Seq(Points) /\ b - a + 1 = NFft
          /\ \A j \in 1..NFft : a + j - 1 = base + j
      BY <1>1, <1>4
    <3>2. symbol = SubSeq(mapped, a, b)
      OBVIOUS
    <3> HIDE DEF a, b, symbol
    <3>3. /\ symbol \in Seq(Points) /\ Len(symbol) = b - a + 1
          /\ \A j \in 1..(b - a + 1) : symbol[j] = mapped[a + j - 1]
      BY <3>1, <3>2, SubSeqProperties
    <3> QED BY <3>1, <3>3
  <2>2. ASSUME NEW j \in 1..NFft PROVE mapped[base + j] = Time(base + j - 1)
    <3>1. base + j \in 1..all /\ (base + j) - 1 = base + j - 1
      BY <1>4
    <3>2. mapped[base + j] = Time((base + j) - 1)
      BY <1>2, <3>1
    <3> QED BY <3>1, <3>2
  <2> QED BY <2>1, <2>2
<1> HIDE DEF prefix, symbol
<1>8. /\ samps \o prefix \in Seq(Points) /\ Len(samps \o prefix) = sent + NCp
      /\ \A k \in 1..(sent + NCp) :
           (samps \o prefix)[k] = IF k <= sent THEN samps[k] ELSE prefix[k - sent]
  <2>1. samps \in Seq(Points) /\ Len(samps) = sent /\ sent \in Nat /\ NCp \in Nat
    BY <1>1, <1>4
  <2>2. /\ samps \o prefix \in Seq(Points)
        /\ Len(samps \o prefix) = Len(samps) + Len(prefix)
        /\ \A k \in 1..(Len(samps) + Len(prefix)) :
             (samps \o prefix)[k] = IF k <= Len(samps) THEN samps[k]
                                    ELSE prefix[k - Len(samps)]
    BY <1>6, <2>1, ConcatProperties
  <2> QED BY <1>6, <2>1, <2>2
<1>9. /\ samps' \in Seq(Points) /\ Len(samps') = sent + size
      /\ \A k \in 1..(sent + size) :
           samps'[k] = IF k <= sent + NCp THEN (samps \o prefix)[k]
                       ELSE symbol[k - (sent + NCp)]
  <2> DEFINE head == samps \o prefix
  <2>1. samps' = head \o symbol
    BY <1>3
  <2>2. head \in Seq(Points) /\ Len(head) = sent + NCp
    BY <1>8
  <2> HIDE DEF head
  <2>3. /\ samps' \in Seq(Points) /\ Len(samps') = sent + NCp + NFft
        /\ \A k \in 1..(sent + NCp + NFft) :
             samps'[k] = IF k <= sent + NCp THEN head[k] ELSE symbol[k - (sent + NCp)]
    <3>1. /\ head \o symbol \in Seq(Points)
          /\ Len(head \o symbol) = Len(head) + Len(symbol)
          /\ \A k \in 1..(Len(head) + Len(symbol)) :
               (head \o symbol)[k] = IF k <= Len(head) THEN head[k]
                                     ELSE symbol[k - Len(head)]
      <4>1. head \in Seq(Points) /\ symbol \in Seq(Points)
        BY <1>7, <2>2
      <4> QED BY <4>1, ConcatProperties
    <3> QED BY <1>7, <2>1, <2>2, <3>1
  <2>4. sent + NCp + NFft = sent + size
    BY <1>4 DEF size
  <2> QED BY <2>3, <2>4 DEF head
<1>10. SymbolsWithPrefix'
  <2> SUFFICES ASSUME NEW k \in 1..(sent + size)
               PROVE  LET place == (k - 1) % size
                          sample == IF place < NCp THEN NFft - NCp + place ELSE place - NCp
                      IN samps'[k] = Time(((k - 1) \div size) * NFft + sample)
    BY <1>9 DEF SymbolsWithPrefix, size
  <2>1. CASE k <= sent
    <3>1. k \in 1..sent
      BY <1>4, <2>1
    <3>2. k <= sent + NCp /\ k \in 1..(sent + NCp)
      BY <1>4, <3>1
    <3>3. samps'[k] = samps[k]
      BY <1>8, <1>9, <2>1, <3>2
    <3> QED BY <1>1, <3>1, <3>3 DEF SymbolsWithPrefix, size
  <2>2. CASE k > sent
    <3> DEFINE q == k - 1 - sent
    <3>1. q \in 0..(size - 1) /\ k - 1 \in Nat /\ k - 1 = size * c + q
      BY <1>4, <2>2 DEF sent
    <3>2. (k - 1) \div size = c /\ (k - 1) % size = q
      <4>1. \A a \in Nat, e \in 0..(size - 1) :
              a = size * c + e => a \div size = c /\ a % size = e
        <5>1. size \in Nat \ {0} /\ c \in Int
          BY <1>1, <1>4
        <5> QED BY <5>1, DivUnique
      <4> QED BY <3>1, <4>1
    <3>3. CASE q < NCp
      <4>1. /\ k - sent \in 1..NCp /\ k <= sent + NCp /\ k \in 1..(sent + NCp)
            /\ ~(k <= sent)
        BY <1>4, <2>2, <3>3
      <4>2. samps'[k] = prefix[k - sent]
        BY <1>8, <1>9, <4>1
      <4>3. prefix[k - sent] = Time(base + (NFft - NCp) + (k - sent) - 1)
        BY <1>5, <1>6, <4>1
      <4>4. base + (NFft - NCp) + (k - sent) - 1 = base + (NFft - NCp + q)
        BY <1>4
      <4> HIDE DEF q
      <4> QED BY <3>2, <3>3, <4>2, <4>3, <4>4 DEF base
    <3>4. CASE ~(q < NCp)
      <4>1. /\ k - (sent + NCp) \in 1..NFft /\ ~(k <= sent + NCp)
        BY <1>4, <2>2, <3>1, <3>4 DEF size
      <4>2. samps'[k] = symbol[k - (sent + NCp)]
        BY <1>9, <4>1
      <4>3. symbol[k - (sent + NCp)] = Time(base + (k - (sent + NCp)) - 1)
        BY <1>7, <4>1
      <4>4. base + (k - (sent + NCp)) - 1 = base + (q - NCp)
        BY <1>4
      <4> HIDE DEF q
      <4> QED BY <3>2, <3>4, <4>2, <4>3, <4>4 DEF base
    <3> QED BY <3>3, <3>4
  <2> QED BY <1>4, <2>1, <2>2
<1>11. PilotsInPlace'
  BY <1>1, <1>3 DEF PilotsInPlace
<1>12. MapperTypes'
  <2>1. mapCount' \in Nat
    BY <1>1, <1>3
  <2> QED BY <1>1, <1>3, <1>9, <2>1 DEF MapperTypes
<1>13. CASE c + 1 = NSym
  <2>1. mapPc' = "sent" /\ samps' \in Seq(Points)
    BY <1>3, <1>9, <1>13
  <2>2. Len(samps') = size * NSym
    BY <1>4, <1>9, <1>13
  <2> QED BY <1>3, <1>10, <1>11, <1>12, <2>1, <2>2 DEF MapperInv, size
<1>14. CASE c + 1 # NSym
  <2>1. mapPc' = "prefix" /\ mapCount' = c + 1 /\ mapCount' < NSym
    BY <1>1, <1>3, <1>14
  <2>2. Len(samps') = size * mapCount'
    BY <1>4, <1>9, <2>1
  <2> QED BY <1>1, <1>3, <1>10, <1>11, <1>12, <2>1, <2>2 DEF MapperInv, size
<1> QED BY <1>13, <1>14

----------------------------------------------------------------------------
(* The frame.                                                              *)

LEMMA InitMapperInv == Init => MapperInv
<1> SUFFICES ASSUME Init PROVE MapperInv OBVIOUS
<1>1. /\ mapPc = "off" /\ pilots = <<>> /\ mapCount = 0 /\ modulated = <<>>
      /\ inIdx = 0 /\ pilotIdx = 0 /\ mapped = <<>> /\ samps = <<>>
  BY DEF Init, MapperOff
<1>2. MapperTypes
  BY <1>1 DEF MapperTypes
<1> QED BY <1>1, <1>2 DEF MapperInv, PilotsInPlace, SymbolsWithPrefix

\* The coded bytes handed to the mapper are the debug bytes (tx.c:324).
LEMMA OverwriteKeeps == MapperInv /\ Overwrite => MapperInv'
<1> SUFFICES ASSUME MapperInv, Overwrite PROVE MapperInv' OBVIOUS
<1> USE Dimensions
<1>1. /\ mapPc = "off" /\ mapCount = 0 /\ modulated = <<>> /\ mapped = <<>>
      /\ samps = <<>> /\ inIdx = 0 /\ pilotIdx = 0 /\ MapperTypes
  BY DEF MapperInv, Overwrite, StartMapper
<1>2. /\ mapPc' = "modulate" /\ coded' = [k \in 1..CodedBytes |-> DebugByte]
      /\ pilots' \in PilotLayouts
      /\ UNCHANGED <<mapCount, modulated, inIdx, pilotIdx, mapped, samps>>
  BY DEF Overwrite, StartMapper
<1>3. MapperTypes'
  BY <1>1, <1>2 DEF MapperTypes
<1>4. mapCount' = 0 /\ 0 < CodedBytes /\ PointsPerByte * 0 = 0 /\ Len(modulated') = 0
  BY <1>1, <1>2
<1>5. PilotsInPlace' /\ SymbolsWithPrefix'
  BY <1>1, <1>2 DEF PilotsInPlace, SymbolsWithPrefix
<1> QED BY <1>1, <1>2, <1>3, <1>4, <1>5 DEF MapperInv

LEMMA NextMapperInv == MapperInv /\ [Next]_vars => MapperInv'
<1> SUFFICES ASSUME MapperInv, [Next]_vars PROVE MapperInv' OBVIOUS
<1>1. CASE UNCHANGED mapVars
  BY <1>1 DEF MapperInv, MapperTypes, PilotsInPlace, SymbolsWithPrefix, Behind, mapVars
<1>2. CASE Overwrite
  BY <1>2, OverwriteKeeps
<1>3. CASE MapSymbols
  BY <1>3, ModulateKeeps, AddPilotsKeeps, TransformKeeps, AddPrefixKeeps
     DEF MapSymbols, MapperStep
<1> QED BY <1>1, <1>2, <1>3 DEF Next, BuildFrame, Encode, Finished, vars

LEMMA MapperInvariant == Spec => []MapperInv
<1> QED BY InitMapperInv, NextMapperInv, PTL DEF Spec

\* Until its symbol is transformed, each pilot is at its position in every
\* symbol and nowhere else, for any layout in order (add_pilots, tx.c:206).
THEOREM PilotsPlaced == Spec => []PilotsInPlace
<1>1. MapperInv => PilotsInPlace
  BY DEF MapperInv
<1> QED BY <1>1, MapperInvariant, PTL

\* What is sent is whole symbols in order, each behind a copy of its end, for
\* any length of the prefix (double_to_fixed_with_cp, tx.c:258).
THEOREM PrefixesPlaced == Spec => []SymbolsWithPrefix
<1>1. MapperInv => SymbolsWithPrefix
  BY DEF MapperInv
<1> QED BY <1>1, MapperInvariant, PTL

----------------------------------------------------------------------------
(* Bits of numbers.                                                        *)

Pow(k) == 2 ^ k

LEMMA Powers ==
  /\ Pow(0) = 1 /\ Pow(1) = 2 /\ Pow(2) = 4 /\ Pow(3) = 8 /\ Pow(4) = 16
  /\ Pow(5) = 32 /\ Pow(6) = 64 /\ Pow(7) = 128 /\ Pow(8) = 256 /\ Pow(9) = 512
  /\ Pow(10) = 1024 /\ Pow(11) = 2048 /\ Pow(12) = 4096 /\ Pow(13) = 8192
  /\ Pow(14) = 16384 /\ Pow(15) = 32768 /\ Pow(16) = 65536
BY DEF Pow

LEMMA PowersDouble ==
  ASSUME NEW k \in 0..15 PROVE Pow(k) \in Nat \ {0} /\ Pow(k + 1) = 2 * Pow(k)
<1> DEFINE P(j) == Pow(j) \in Nat \ {0} /\ Pow(j + 1) = 2 * Pow(j)
<1>1. P(0) /\ P(1) /\ P(2) /\ P(3)
  BY Powers
<1>2. P(4) /\ P(5) /\ P(6) /\ P(7)
  BY Powers
<1>3. P(8) /\ P(9) /\ P(10) /\ P(11)
  BY Powers
<1>4. P(12) /\ P(13) /\ P(14) /\ P(15)
  BY Powers
<1> HIDE DEF P
<1>5. P(k)
  BY <1>1, <1>2, <1>3, <1>4
<1> QED BY <1>5 DEF P

LEMMA PowersSplit ==
  /\ \A k \in 0..6 : Pow(k) * (2 * Pow(6 - k)) = 128
  /\ \A k \in 0..14 : Pow(k) * (2 * Pow(14 - k)) = 32768
<1>1. ASSUME NEW k \in 0..6 PROVE Pow(k) * (2 * Pow(6 - k)) = 128
  BY Powers
<1>2. ASSUME NEW k \in 0..14 PROVE Pow(k) * (2 * Pow(14 - k)) = 32768
  <2>1. CASE k \in 0..7
    BY <2>1, Powers
  <2>2. CASE k \in 8..14
    BY <2>2, Powers
  <2> QED BY <2>1, <2>2
<1> QED BY <1>1, <1>2

\* Halving before or after.
LEMMA DivTwice ==
  ASSUME NEW n \in Nat, NEW p \in Nat \ {0}
  PROVE  n \div (2 * p) = (n \div 2) \div p /\ n \div (2 * p) = (n \div p) \div 2
<1> DEFINE q == n \div p
           r == n % p
           h == q \div 2
           b == q % 2
<1>1. q \in Nat /\ r \in 0..(p - 1) /\ n = p * q + r
  OBVIOUS
<1> HIDE DEF q, r
<1>2. h \in Nat /\ b \in {0, 1} /\ q = 2 * h + b
  BY <1>1
<1> HIDE DEF h, b
<1>3. p * q = 2 * p * h + p * b
  <2>1. p * (2 * h + b) = 2 * p * h + p * b
    BY <1>2
  <2> QED BY <1>2, <2>1
<1>4. p * b + r \in 0..(2 * p - 1)
  <2>1. CASE b = 0
    <3>1. p * b = 0
      BY <2>1
    <3> QED BY <1>1, <3>1
  <2>2. CASE b = 1
    <3>1. p * b = p
      BY <2>2
    <3> QED BY <1>1, <3>1
  <2> QED BY <1>2, <2>1, <2>2
<1>5. n \div (2 * p) = h
  <2>1. 2 * p \in Nat \ {0}
    OBVIOUS
  <2>2. n = (2 * p) * h + (p * b + r)
    BY <1>1, <1>2, <1>3, <1>4
  <2> QED BY <1>2, <1>4, <2>1, <2>2, DivUnique
<1> DEFINE a == n \div 2
           c == n % 2
           d == a \div p
           e == a % p
<1>6. a \in Nat /\ c \in {0, 1} /\ n = 2 * a + c
  OBVIOUS
<1> HIDE DEF a, c
<1>7. d \in Nat /\ e \in 0..(p - 1) /\ a = p * d + e
  BY <1>6
<1> HIDE DEF d, e
<1>8. n \div (2 * p) = d
  <2>1. 2 * p \in Nat \ {0}
    OBVIOUS
  <2>2. 2 * (p * d + e) = (2 * p) * d + 2 * e
    BY <1>7
  <2>3. 2 * e + c \in 0..(2 * p - 1)
    BY <1>6, <1>7
  <2>4. n = (2 * p) * d + (2 * e + c)
    <3>1. (2 * p) * d \in Int
      BY <1>7
    <3> QED BY <1>6, <1>7, <2>2, <3>1
  <2> QED BY <1>7, <2>1, <2>3, <2>4, DivUnique
<1> QED BY <1>5, <1>8 DEF a, d, h, q

\* A multiple of twice p does not change the bit that p selects.
Above(p, f, h, l) == (p * (2 * f)) * h + l
Unmoved(p, f, h, l) == (Above(p, f, h, l) \div p) % 2 = (l \div p) % 2

LEMMA HighBits ==
  ASSUME NEW p \in Nat \ {0}, NEW f \in Nat, NEW h \in Nat, NEW l \in Nat
  PROVE  Unmoved(p, f, h, l)
<1> DEFINE q == l \div p
           r == l % p
           g == f * h
           n == Above(p, f, h, l)
<1>1. q \in Nat /\ r \in 0..(p - 1) /\ l = p * q + r
  OBVIOUS
<1>2. g \in Nat /\ (p * (2 * f)) * h = p * (2 * g)
  OBVIOUS
<1>3. n \in Nat /\ n = p * (2 * g) + l
  BY <1>2 DEF Above
<1> HIDE DEF q, r, g, n
<1>4. p * (2 * g + q) = p * (2 * g) + p * q
  BY <1>1, <1>2
<1>5. n = p * (2 * g + q) + r
  <2>1. p * (2 * g) \in Int /\ p * q \in Int
    BY <1>1, <1>2
  <2> QED BY <1>1, <1>3, <1>4, <2>1
<1>6. n \div p = 2 * g + q
  BY <1>1, <1>2, <1>3, <1>5, DivUnique
<1>7. (2 * g + q) % 2 = q % 2
  BY <1>1, <1>2
<1> QED BY <1>6, <1>7 DEF Unmoved, n, q

LEMMA BitAtPow ==
  \A n, k : BitAt(n, k) = (n \div Pow(k)) % 2
BY DEF BitAt, Pow

LEMMA BitAtHalf ==
  ASSUME NEW n \in Nat, NEW k \in 0..15
  PROVE  BitAt(n, k) \in Bit /\ BitAt(n \div 2, k) = BitAt(n, k + 1)
<1> DEFINE p == Pow(k)
<1>1. p \in Nat \ {0} /\ Pow(k + 1) = 2 * p
  BY PowersDouble
<1>2. /\ BitAt(n, k) = (n \div p) % 2 /\ BitAt(n \div 2, k) = ((n \div 2) \div p) % 2
      /\ BitAt(n, k + 1) = (n \div (2 * p)) % 2
  BY <1>1, BitAtPow
<1> HIDE DEF p
<1>3. n \div (2 * p) = (n \div 2) \div p
  BY <1>1, DivTwice
<1>4. (n \div p) % 2 \in {0, 1}
  BY <1>1
<1> QED BY <1>2, <1>3, <1>4 DEF Bit

LEMMA Moduli == StateMod = 65536 /\ ByteMod = 256
<1>1. StateMod = Pow(16)
  <2>1. StateBits = 16
    BY EncoderAssumption
  <2> QED BY <2>1 DEF StateMod, Pow
<1>2. ByteMod = Pow(8)
  <2>1. ByteBits = 8
    BY EncoderAssumption
  <2> QED BY <2>1 DEF ByteMod, Pow
<1> QED BY <1>1, <1>2, Powers

LEMMA ModuliNat == StateMod \in Nat \ {0} /\ ByteMod \in Nat \ {0}
BY Moduli

LEMMA InByteRange == \A n : n \in Byte <=> n \in Nat /\ n < ByteMod
BY ModuliNat DEF Byte

\* What the shift register holds.
Word == 0..(StateMod - 1)

LEMMA InStateRange == \A n : n \in Word <=> n \in Nat /\ n < StateMod
BY ModuliNat DEF Word

\* The lowest bit moves in, the others up ...
LEMMA UpdateBits ==
  ASSUME NEW s \in Word, NEW x \in Nat
  PROVE  /\ UpdateState(s, x) \in Word
         /\ BitAt(UpdateState(s, x), 0) = x % 2
         /\ \A k \in 0..14 : BitAt(UpdateState(s, x), k + 1) = BitAt(s, k)
<1> DEFINE h == s \div 32768
           l == s % 32768
           b == x % 2
           new == UpdateState(s, x)
<1>1. h \in {0, 1} /\ l \in Nat /\ l < 32768 /\ s = 32768 * h + l
  <2>1. s \in Nat /\ s < StateMod
    BY InStateRange
  <2>2. s < 65536
    BY <2>1, Moduli
  <2> QED BY <2>1, <2>2
<1>2. b \in {0, 1}
  OBVIOUS
<1>3. new = ((2 * s) % 65536) + b
  BY Moduli DEF UpdateState
<1> HIDE DEF h, l, b, new
<1>4. (2 * s) % 65536 = 2 * l
  <2>1. 2 * s = 65536 * h + 2 * l /\ 2 * l \in Nat /\ 2 * l < 65536
    BY <1>1
  <2> QED BY <1>1, <2>1
<1>5. new = 2 * l + b /\ new \in Nat /\ new < 65536
  BY <1>1, <1>2, <1>3, <1>4
<1>6. new \div 2 = l /\ new % 2 = b
  BY <1>1, <1>2, <1>5
<1>7. BitAt(new, 0) = b
  <2>1. new \div 1 = new
    BY <1>5
  <2> QED BY <1>6, <2>1, BitAtPow, Powers
<1>8. ASSUME NEW k \in 0..14 PROVE BitAt(new, k + 1) = BitAt(s, k)
  <2> DEFINE p == Pow(k)
             f == Pow(14 - k)
  <2>1. BitAt(new, k + 1) = BitAt(l, k)
    <3>1. k \in 0..15
      OBVIOUS
    <3> QED BY <1>5, <1>6, <3>1, BitAtHalf
  <2>2. p \in Nat \ {0} /\ f \in Nat /\ p * (2 * f) = 32768
    <3>1. k \in 0..15 /\ 14 - k \in 0..15
      OBVIOUS
    <3> QED BY <3>1, PowersDouble, PowersSplit
  <2>3. BitAt(l, k) = (l \div p) % 2 /\ BitAt(s, k) = (s \div p) % 2
    BY BitAtPow
  <2> HIDE DEF p, f
  <2>4. Unmoved(p, f, h, l)
    <3>1. h \in Nat /\ l \in Nat /\ p \in Nat \ {0} /\ f \in Nat
      BY <1>1, <2>2
    <3> QED BY <3>1, HighBits
  <2>5. s = Above(p, f, h, l)
    <3> DEFINE c == p * (2 * f)
    <3>1. c = 32768
      BY <2>2
    <3>2. Above(p, f, h, l) = c * h + l
      BY DEF Above
    <3> HIDE DEF c
    <3> QED BY <1>1, <3>1, <3>2
  <2> QED BY <2>1, <2>3, <2>4, <2>5 DEF Unmoved
<1>9. new \in Word
  <2>1. new < StateMod
    BY <1>5, Moduli
  <2> QED BY <1>5, <2>1, InStateRange
<1> QED BY <1>7, <1>8, <1>9 DEF new, b

\* ... or the highest moves in, the others down.
LEMMA PushBits ==
  ASSUME NEW byte \in Byte, NEW bit \in Bit
  PROVE  /\ PushBit(byte, bit) \in Byte
         /\ BitAt(PushBit(byte, bit), 7) = bit
         /\ \A k \in 0..6 : BitAt(PushBit(byte, bit), k) = BitAt(byte, k + 1)
<1> DEFINE l == byte \div 2
           new == PushBit(byte, bit)
<1>0. byte \in Nat /\ byte < 256
  <2>1. byte \in Nat /\ byte < ByteMod
    BY InByteRange
  <2> QED BY <2>1, Moduli
<1>1. l \in Nat /\ l < 128 /\ bit \in {0, 1}
  BY <1>0 DEF Bit
<1>2. new = 128 * bit + l
  <2>1. 2 ^ (ByteBits - 1) = Pow(7)
    <3>1. ByteBits - 1 = 7
      BY EncoderAssumption
    <3> QED BY <3>1 DEF Pow
  <2> QED BY <1>1, <2>1, Powers DEF PushBit
<1>3. \A k \in 0..6 : BitAt(l, k) = BitAt(byte, k + 1)
  <2>1. \A k \in 0..6 : k \in 0..15
    OBVIOUS
  <2> QED BY <1>0, <2>1, BitAtHalf
<1> HIDE DEF l, new
<1>4. new \in Nat /\ new < 256
  BY <1>1, <1>2
<1>5. BitAt(new, 7) = bit
  <2>1. (new \div 128) % 2 = bit
    BY <1>1, <1>2
  <2> QED BY <2>1, BitAtPow, Powers
<1>6. ASSUME NEW k \in 0..6 PROVE BitAt(new, k) = BitAt(byte, k + 1)
  <2> DEFINE p == Pow(k)
             f == Pow(6 - k)
  <2>1. p \in Nat \ {0} /\ f \in Nat /\ p * (2 * f) = 128
    <3>1. k \in 0..15 /\ 6 - k \in 0..15
      OBVIOUS
    <3> QED BY <3>1, PowersDouble, PowersSplit
  <2>2. BitAt(l, k) = (l \div p) % 2 /\ BitAt(new, k) = (new \div p) % 2
    BY BitAtPow
  <2> HIDE DEF p, f
  <2>3. Unmoved(p, f, bit, l)
    <3>1. bit \in Nat /\ l \in Nat /\ p \in Nat \ {0} /\ f \in Nat
      BY <1>1, <2>1
    <3> QED BY <3>1, HighBits
  <2>4. new = Above(p, f, bit, l)
    <3> DEFINE c == p * (2 * f)
    <3>1. c = 128
      BY <2>1
    <3>2. Above(p, f, bit, l) = c * bit + l
      BY DEF Above
    <3> HIDE DEF c
    <3> QED BY <1>1, <1>2, <3>1, <3>2
  <2> QED BY <1>3, <2>2, <2>3, <2>4 DEF Unmoved
<1>7. new \in Byte
  <2>1. new < ByteMod
    BY <1>4, Moduli
  <2> QED BY <1>4, <2>1, InByteRange
<1> QED BY <1>5, <1>6, <1>7 DEF new

----------------------------------------------------------------------------
(* The code: what has been read and what goes out, bit by bit.             *)

BitOf(bytes, k) == BitAt(bytes[k \div 8 + 1], k % 8)

LEMMA InBitOf == \A k : InBit(k) = BitOf(frame, k) /\ OutBit(k) = BitOf(encoded, k)
BY Sizes DEF InBit, OutBit, BitOf

\* The bits of the current byte still to be read are those of the frame, and
\* the state holds the last ones read, the latest lowest.
SourceInv ==
  ccPc \in {"seed", "body"} =>
    /\ inByte = frame[inPos + 1] \div Pow(inBit)
    /\ \A j \in 0..15 : j < BitsIn => BitAt(ccState, j) = BitOf(frame, BitsIn - 1 - j)

\* Bit k of the output, in a complete byte or in the one being filled.
OutBitOf(bytes, byte, count, k) ==
  IF k < 8 * Len(bytes) THEN BitOf(bytes, k)
  ELSE BitAt(byte, 8 - count + (k - 8 * Len(bytes)))
BitOut(k) ==
  OutBitOf(encoded, outByte, outBit, k)

CodeInv ==
  \A n \in Nat, c \in 1..2 :
    n < FrameBits - CcLength /\ 2 * n + c - 1 < BitsOut =>
      BitOut(2 * n + c - 1) = CodeBit(CcConstr[c], CcLength + n)

BytesInv ==
  /\ frame \in [1..FrameBytes -> Byte] /\ inByte \in Byte
  /\ ccState \in Word /\ initState \in Word
  /\ encoded \in Seq(Byte) /\ outByte \in Byte

\* The parity a generator sees is the code of the bits in the state.
LEMMA ParityIsCode ==
  ASSUME NEW g, NEW s, NEW k \in Nat, CcLength <= k, k < FrameBits,
         \A j \in 0..15 : j <= k => BitAt(s, j) = InBit(k - j)
  PROVE  Parity(g, s) = CodeBit(g, k)
<1>1. CcLength \in 1..16
  BY CoderAssumption, EncoderAssumption
<1>2. FrameBits \in Nat
  BY Sizes
<1>3. ASSUME NEW j \in 0..(CcLength - 1)
      PROVE  BitAt(s, j) = InBit((k + FrameBits - j) % FrameBits)
  <2> DEFINE r == k - j
             q == k + FrameBits - j
  <2>1. j \in 0..15 /\ j <= k
    BY <1>1
  <2>2. r \in 0..(FrameBits - 1) /\ q = FrameBits * 1 + r /\ q \in Nat
    BY <1>2, <2>1
  <2>3. FrameBits \in Nat \ {0} /\ 1 \in Int
    BY <1>2
  <2>4. BitAt(s, j) = InBit(r)
    BY <2>1
  <2> HIDE DEF r, q
  <2>5. q % FrameBits = r
    BY <2>2, <2>3, DivUnique
  <2> QED BY <2>4, <2>5 DEF q
<1>4. {j \in 0..(CcLength - 1) : BitAt(g, j) = 1 /\ BitAt(s, j) = 1}
        = {j \in 0..(CcLength - 1) :
             BitAt(g, j) = 1 /\ InBit((k + FrameBits - j) % FrameBits) = 1}
  BY <1>3
<1> QED BY <1>4 DEF Parity, CodeBit

\* The bit the coder takes in is the next of the frame.
LEMMA NextBit ==
  ASSUME CoderInv, SourceInv, BytesInv, ccPc \in {"seed", "body"}
  PROVE  inByte \in Nat /\ inByte % 2 = InBit(BitsIn) /\ inPos + 1 \in 1..FrameBytes
<1>1. inPos \in Nat /\ inBit \in 0..7 /\ BitsIn < FrameBits
  BY Sizes DEF CoderInv
<1>2. inPos + 1 \in 1..FrameBytes
  BY <1>1, Sizes DEF BitsIn
<1>3. frame[inPos + 1] \in Byte
  BY <1>2 DEF BytesInv
<1> DEFINE f == frame[inPos + 1]
           p == Pow(inBit)
<1>4. f \in Nat
  BY <1>3, InByteRange
<1>5. p \in Nat \ {0}
  <2>1. inBit \in 0..15
    BY <1>1
  <2> QED BY <2>1, PowersDouble
<1>6. inByte = f \div p
  BY DEF SourceInv
<1>7. BitsIn \div 8 = inPos /\ BitsIn % 8 = inBit
  BY <1>1 DEF BitsIn
<1>8. InBit(BitsIn) = (f \div p) % 2
  BY <1>7, Sizes, BitAtPow DEF InBit
<1> HIDE DEF f, p
<1> QED BY <1>2, <1>4, <1>5, <1>6, <1>8

LEMMA WindowMoves ==
  ASSUME CoderInv, SourceInv, BytesInv, ccPc \in {"seed", "body"}
  PROVE  /\ UpdateState(ccState, inByte) \in Word
         /\ \A j \in 0..15 : j <= BitsIn =>
              BitAt(UpdateState(ccState, inByte), j) = InBit(BitsIn - j)
<1> DEFINE new == UpdateState(ccState, inByte)
<1>1. inByte \in Nat /\ inByte % 2 = InBit(BitsIn)
  BY NextBit
<1>2. ccState \in Word
  BY DEF BytesInv
<1>3. /\ new \in Word /\ BitAt(new, 0) = inByte % 2
      /\ \A k \in 0..14 : BitAt(new, k + 1) = BitAt(ccState, k)
  BY <1>1, <1>2, UpdateBits
<1>4. \A j \in 0..15 : j < BitsIn => BitAt(ccState, j) = InBit(BitsIn - 1 - j)
  BY InBitOf DEF SourceInv
<1>5. BitsIn \in Nat
  BY DEF CoderInv, BitsIn
<1> HIDE DEF new
<1>6. ASSUME NEW j \in 0..15, j <= BitsIn PROVE BitAt(new, j) = InBit(BitsIn - j)
  <2>1. CASE j = 0
    <3>1. BitsIn - 0 = BitsIn
      BY <1>5
    <3> QED BY <1>1, <1>3, <2>1, <3>1
  <2>2. CASE j # 0
    <3> DEFINE k == j - 1
    <3>1. /\ k \in 0..14 /\ k \in 0..15 /\ k < BitsIn /\ j = k + 1
          /\ BitsIn - 1 - k = BitsIn - j
      BY <1>5, <1>6, <2>2
    <3> HIDE DEF k
    <3>2. BitAt(new, k + 1) = BitAt(ccState, k) /\ BitAt(ccState, k) = InBit(BitsIn - 1 - k)
      BY <1>3, <1>4, <3>1
    <3> QED BY <3>1, <3>2
  <2> QED BY <2>1, <2>2
<1> QED BY <1>3, <1>6 DEF new

\* Reading a bit keeps SourceInv as long as the loop goes on.
LEMMA SourceMoves ==
  ASSUME CoderInv, SourceInv, BytesInv, ccPc \in {"seed", "body"},
         ccState' = UpdateState(ccState, inByte), NextInBit, frame' = frame,
         ccPc' \in {"seed", "body"} => BitsIn + 1 < FrameBits
  PROVE  SourceInv'
<1> SUFFICES ASSUME ccPc' \in {"seed", "body"}
             PROVE  /\ inByte' = frame'[inPos' + 1] \div Pow(inBit')
                    /\ \A j \in 0..15 :
                         j < BitsIn' => BitAt(ccState', j) = BitOf(frame', BitsIn' - 1 - j)
  BY DEF SourceInv
<1>1. BitsIn' = BitsIn + 1 /\ BitsIn + 1 < FrameBits /\ BitsIn \in Nat
  BY InCount DEF CoderInv, BitsIn
<1>2. inPos \in Nat /\ inBit \in 0..7 /\ inByte = frame[inPos + 1] \div Pow(inBit)
  BY DEF CoderInv, SourceInv
<1>3. inByte' = frame'[inPos' + 1] \div Pow(inBit')
  <2>1. CASE inBit + 1 >= 8
    <3>1. inPos' = inPos + 1 /\ inByte' \in ReadByte(inPos + 1) /\ inBit' = 0
      BY <2>1, Sizes DEF NextInBit
    <3>2. inPos + 1 < FrameBytes
      <4>1. 8 * inPos + inBit + 1 < 8 * FrameBytes /\ FrameBytes \in Nat
        BY <1>1, Sizes DEF BitsIn
      <4> QED BY <1>2, <2>1, <4>1
    <3>3. inByte' = frame[(inPos + 1) + 1]
      BY <3>1, <3>2 DEF ReadByte
    <3>4. (inPos + 1) + 1 \in 1..FrameBytes /\ FrameBytes \in Nat
      BY <1>2, <3>2, Sizes
    <3>5. frame[(inPos + 1) + 1] \in Byte
      BY <3>4 DEF BytesInv
    <3>6. inByte' \in Nat
      BY <3>3, <3>5, InByteRange
    <3>7. inByte' = inByte' \div 1
      <4>1. \A x \in Nat : x = x \div 1
        OBVIOUS
      <4> QED BY <3>6, <4>1
    <3> QED BY <3>1, <3>3, <3>7, Powers
  <2>2. CASE ~(inBit + 1 >= 8)
    <3>1. inPos' = inPos /\ inByte' = inByte \div 2 /\ inBit' = inBit + 1
      BY <2>2, Sizes DEF NextInBit
    <3> DEFINE f == frame[inPos + 1]
               p == Pow(inBit)
    <3>2. f \in Nat
      <4>1. inPos + 1 \in 1..FrameBytes
        BY NextBit
      <4>2. f \in Byte
        BY <4>1 DEF BytesInv
      <4> QED BY <4>2, InByteRange
    <3>3. p \in Nat \ {0} /\ Pow(inBit + 1) = 2 * p
      <4>1. inBit \in 0..15
        BY <1>2
      <4> QED BY <4>1, PowersDouble
    <3>4. inByte = f \div p
      BY <1>2
    <3> HIDE DEF f, p
    <3>5. (f \div p) \div 2 = f \div (2 * p)
      BY <3>2, <3>3, DivTwice
    <3> QED BY <3>1, <3>3, <3>4, <3>5 DEF f
  <2> QED BY <2>1, <2>2
<1>4. /\ UpdateState(ccState, inByte) \in Word
      /\ \A j \in 0..15 : j <= BitsIn =>
           BitAt(UpdateState(ccState, inByte), j) = InBit(BitsIn - j)
  BY WindowMoves
<1>5. ASSUME NEW j \in 0..15, j < BitsIn'
      PROVE  BitAt(ccState', j) = BitOf(frame', BitsIn' - 1 - j)
  <2>1. j <= BitsIn /\ BitsIn' - 1 - j = BitsIn - j
    BY <1>1, <1>5
  <2>2. BitAt(UpdateState(ccState, inByte), j) = InBit(BitsIn - j)
    BY <1>4, <2>1
  <2> QED BY <2>1, <2>2, InBitOf
<1> QED BY <1>3, <1>4, <1>5

LEMMA ZeroInByte == 0 \in Byte /\ 0 \in Word
BY ModuliNat, InByteRange, InStateRange

\* The bits of the output stay, and the next two are the parities.
LEMMA OutStep ==
  ASSUME CoderInv, BytesInv, NEW s, NextOutBits(s)
  PROVE  /\ encoded' \in Seq(Byte) /\ outByte' \in Byte
         /\ \A k \in 0..(BitsOut - 1) : OutBitOf(encoded', outByte', outBit', k) = BitOut(k)
         /\ OutBitOf(encoded', outByte', outBit', BitsOut) = Parity(CcConstr[1], s)
         /\ OutBitOf(encoded', outByte', outBit', BitsOut + 1) = Parity(CcConstr[2], s)
<1> DEFINE x1 == Parity(CcConstr[1], s)
           x2 == Parity(CcConstr[2], s)
           mid == PushBit(outByte, x1)
           byte == PushBit(mid, x2)
           n == Len(encoded)
<1>1. x1 \in Bit /\ x2 \in Bit /\ outByte \in Byte
  BY ParityBit DEF BytesInv
<1>2. IF outBit + 2 >= 8
      THEN encoded' = Append(encoded, byte) /\ outByte' = 0 /\ outBit' = 0
      ELSE outByte' = byte /\ outBit' = outBit + 2 /\ UNCHANGED encoded
  BY Sizes DEF NextOutBits
<1>3. n \in Nat /\ encoded \in Seq(Byte) /\ outBit \in {0, 2, 4, 6} /\ BitsOut = 8 * n + outBit
  BY DEF BytesInv, CoderInv, BitsOut
<1> HIDE DEF x1, x2, n
<1>4. /\ mid \in Byte /\ BitAt(mid, 7) = x1
      /\ \A k \in 0..6 : BitAt(mid, k) = BitAt(outByte, k + 1)
  BY <1>1, PushBits
<1> HIDE DEF mid
<1>5. /\ byte \in Byte /\ BitAt(byte, 7) = x2
      /\ \A k \in 0..6 : BitAt(byte, k) = BitAt(mid, k + 1)
  BY <1>1, <1>4, PushBits
<1> HIDE DEF byte
<1>6. /\ BitAt(byte, 6) = x1
      /\ \A k \in 0..5 : BitAt(byte, k) = BitAt(outByte, k + 2)
  <2>1. BitAt(byte, 6) = BitAt(mid, 6 + 1)
    BY <1>5
  <2>2. ASSUME NEW k \in 0..5 PROVE BitAt(byte, k) = BitAt(outByte, k + 2)
    <3>1. k \in 0..6 /\ k + 1 \in 0..6 /\ (k + 1) + 1 = k + 2
      OBVIOUS
    <3> QED BY <1>4, <1>5, <3>1
  <2>3. 6 + 1 = 7
    OBVIOUS
  <2> QED BY <1>4, <2>1, <2>2, <2>3
<1>7. CASE outBit = 6
  <2>1. encoded' = Append(encoded, byte) /\ outByte' = 0 /\ outBit' = 0
    BY <1>2, <1>7
  <2>2. /\ encoded' \in Seq(Byte) /\ Len(encoded') = n + 1
        /\ encoded'[n + 1] = byte /\ \A k \in 1..n : encoded'[k] = encoded[k]
    BY <1>3, <1>5, <2>1, AppendProperties DEF n
  <2>3. outByte' \in Byte
    BY <2>1, ZeroInByte
  <2>4. ASSUME NEW k \in 0..(8 * n - 1)
        PROVE  OutBitOf(encoded', outByte', outBit', k) = BitOut(k)
    <3>1. k \div 8 + 1 \in 1..n /\ k < 8 * (n + 1) /\ k < 8 * n
      BY <1>3
    <3> QED BY <2>2, <3>1 DEF OutBitOf, BitOut, BitOf, n
  <2>5. ASSUME NEW j \in 0..7
        PROVE  OutBitOf(encoded', outByte', outBit', 8 * n + j) = BitAt(byte, j)
    <3>1. /\ (8 * n + j) \div 8 + 1 = n + 1 /\ (8 * n + j) % 8 = j
          /\ 8 * n + j < 8 * (n + 1)
      BY <1>3
    <3> QED BY <2>2, <3>1 DEF OutBitOf, BitOf
  <2>6. ASSUME NEW k \in 0..(BitsOut - 1), ~(k < 8 * n)
        PROVE  OutBitOf(encoded', outByte', outBit', k) = BitOut(k)
    <3> DEFINE j == k - 8 * n
    <3>1. j \in 0..5 /\ j \in 0..7 /\ k = 8 * n + j /\ 8 - outBit + j = j + 2
      BY <1>3, <1>7, <2>6
    <3>2. BitOut(k) = BitAt(outByte, 8 - outBit + j)
      BY <2>6 DEF BitOut, OutBitOf, n
    <3> HIDE DEF j
    <3> QED BY <1>6, <2>5, <3>1, <3>2
  <2>7. \A k \in 0..(BitsOut - 1) : k < 8 * n => k \in 0..(8 * n - 1)
    BY <1>3
  <2>8. BitsOut = 8 * n + 6 /\ BitsOut + 1 = 8 * n + 7
    BY <1>3, <1>7
  <2>9. 6 \in 0..7 /\ 7 \in 0..7
    OBVIOUS
  <2> QED BY <1>5, <1>6, <2>2, <2>3, <2>4, <2>5, <2>6, <2>7, <2>8, <2>9 DEF x1, x2
<1>8. CASE outBit # 6
  <2>1. outByte' = byte /\ outBit' = outBit + 2 /\ encoded' = encoded /\ outBit \in {0, 2, 4}
    BY <1>2, <1>3, <1>8
  <2>2. ASSUME NEW k \in 0..(BitsOut + 1), ~(k < 8 * n)
        PROVE  /\ OutBitOf(encoded', outByte', outBit', k)
                    = BitAt(byte, 6 - outBit + (k - 8 * n))
               /\ BitOut(k) = BitAt(outByte, 8 - outBit + (k - 8 * n))
    <3>1. 8 - outBit' + (k - 8 * n) = 6 - outBit + (k - 8 * n)
      BY <1>3, <2>1
    <3> QED BY <2>1, <2>2, <3>1 DEF BitOut, OutBitOf, n
  <2>3. ASSUME NEW k \in 0..(BitsOut - 1)
        PROVE  OutBitOf(encoded', outByte', outBit', k) = BitOut(k)
    <3>1. CASE k < 8 * n
      BY <2>1, <3>1 DEF OutBitOf, BitOut, n
    <3>2. CASE ~(k < 8 * n)
      <4> DEFINE j == 6 - outBit + (k - 8 * n)
      <4>1. j \in 0..5 /\ k \in 0..(BitsOut + 1) /\ 8 - outBit + (k - 8 * n) = j + 2
        BY <1>3, <2>1, <3>2
      <4>2. /\ OutBitOf(encoded', outByte', outBit', k) = BitAt(byte, j)
            /\ BitOut(k) = BitAt(outByte, 8 - outBit + (k - 8 * n))
        BY <2>2, <3>2, <4>1
      <4> HIDE DEF j
      <4> QED BY <1>6, <4>1, <4>2
    <3> QED BY <3>1, <3>2
  <2>4. /\ BitsOut \in 0..(BitsOut + 1) /\ ~(BitsOut < 8 * n)
        /\ BitsOut + 1 \in 0..(BitsOut + 1) /\ ~(BitsOut + 1 < 8 * n)
        /\ 6 - outBit + (BitsOut - 8 * n) = 6
        /\ 6 - outBit + ((BitsOut + 1) - 8 * n) = 7
    BY <1>3
  <2>5. /\ OutBitOf(encoded', outByte', outBit', BitsOut) = BitAt(byte, 6)
        /\ OutBitOf(encoded', outByte', outBit', BitsOut + 1) = BitAt(byte, 7)
    BY <2>2, <2>4
  <2> QED BY <1>3, <1>5, <1>6, <2>1, <2>3, <2>5 DEF x1, x2
<1> QED BY <1>7, <1>8

\* What memory holds behind the frame is a byte, and so is half of one.
LEMMA InStep ==
  ASSUME CoderInv, BytesInv, NextInBit
  PROVE  inByte' \in Byte
<1>1. CASE inBit + 1 >= 8
  <2>1. inByte' \in ReadByte(inPos + 1)
    BY <1>1, Sizes DEF NextInBit
  <2>2. inPos \in Nat /\ FrameBytes \in Nat
    BY Sizes DEF CoderInv
  <2>3. CASE inPos + 1 < FrameBytes
    <3>1. (inPos + 1) + 1 \in 1..FrameBytes
      BY <2>2, <2>3
    <3> QED BY <2>1, <2>3, <3>1 DEF ReadByte, BytesInv
  <2>4. CASE ~(inPos + 1 < FrameBytes)
    BY <2>1, <2>4, CoderAssumption, Zenon DEF ReadByte
  <2> QED BY <2>3, <2>4
<1>2. CASE ~(inBit + 1 >= 8)
  <2>1. inByte' = inByte \div 2
    BY <1>2, Sizes DEF NextInBit
  <2>2. inByte \in Nat /\ inByte < ByteMod
    BY InByteRange DEF BytesInv
  <2>3. inByte' \in Nat /\ inByte' < ByteMod
    BY <2>1, <2>2, ModuliNat
  <2> QED BY <2>3, InByteRange
<1> QED BY <1>1, <1>2

LEMMA StateMoves ==
  ASSUME BytesInv
  PROVE  UpdateState(ccState, inByte) \in Word
<1>1. inByte \in Nat /\ ccState \in Word
  BY InByteRange DEF BytesInv
<1> QED BY <1>1, UpdateBits

LEMMA BiteTailBytes == CoderInv /\ BytesInv /\ BiteTail => BytesInv'
<1> SUFFICES ASSUME CoderInv, BytesInv, BiteTail PROVE BytesInv' OBVIOUS
<1>1. encoded' \in Seq(Byte) /\ outByte' \in Byte
  BY OutStep DEF BiteTail
<1>2. frame' = frame /\ ccState' = UpdateState(ccState, inByte)
  BY DEF BiteTail
<1>3. /\ initState \in Nat /\ initState < StateMod
      /\ inByte \in Nat /\ inByte < ByteMod
  BY InByteRange, InStateRange DEF BytesInv
<1>4. /\ inByte' \in {initState % ByteMod, inByte \div 2}
      /\ initState' \in {initState \div ByteMod, initState}
  BY DEF BiteTail
<1>5. ByteMod \in Nat \ {0} /\ StateMod \in Nat
  BY ModuliNat
<1>6. inByte' \in Nat /\ inByte' < ByteMod
  BY <1>3, <1>4, <1>5
<1>7. initState' \in Nat /\ initState' < StateMod
  <2>1. initState \div ByteMod \in Nat /\ initState \div ByteMod <= initState
    <3>1. initState \div 256 \in Nat /\ initState \div 256 <= initState
      BY <1>3
    <3> QED BY <3>1, Moduli
  <2> QED BY <1>3, <1>4, <1>5, <2>1
<1>8. inByte' \in Byte /\ initState' \in Word
  BY <1>6, <1>7, InByteRange, InStateRange
<1> QED BY <1>1, <1>2, <1>8, StateMoves DEF BytesInv

----------------------------------------------------------------------------
(* The header: bits of fields, and bits of fields put side by side.        *)

LEMMA PowersAdd ==
  ASSUME NEW i \in 0..7, NEW j \in 0..7
  PROVE  Pow(i + j) = Pow(i) * Pow(j)
<1> DEFINE P(a) == \A b \in 0..7 : Pow(a + b) = Pow(a) * Pow(b)
<1>1. P(0) /\ P(1)
  BY Powers
<1>2. P(2) /\ P(3)
  BY Powers
<1>3. P(4) /\ P(5)
  BY Powers
<1>4. P(6) /\ P(7)
  BY Powers
<1> HIDE DEF P
<1>5. P(i)
  BY <1>1, <1>2, <1>3, <1>4
<1> QED BY <1>5 DEF P

LEMMA DivDiv ==
  ASSUME NEW n \in Nat, NEW p \in Nat \ {0}, NEW f \in Nat \ {0}
  PROVE  (n \div p) \div f = n \div (p * f)
<1> DEFINE a == n \div p
           r == n % p
           b == a \div f
           t == a % f
<1>1. a \in Nat /\ r \in 0..(p - 1) /\ n = p * a + r
  OBVIOUS
<1> HIDE DEF a, r
<1>2. b \in Nat /\ t \in 0..(f - 1) /\ a = f * b + t
  BY <1>1
<1> HIDE DEF b, t
<1>3. p * f \in Nat \ {0}
  OBVIOUS
<1>4. p * t + r \in 0..(p * f - 1)
  <2>1. p * t <= p * (f - 1)
    BY <1>2
  <2>2. p * (f - 1) = p * f - p
    OBVIOUS
  <2>3. p * t \in Nat /\ p * f \in Nat
    BY <1>2
  <2> QED BY <1>1, <2>1, <2>2, <2>3
<1>5. n = (p * f) * b + (p * t + r)
  <2>1. p * (f * b + t) = (p * f) * b + p * t
    BY <1>2
  <2>2. (p * f) * b \in Nat /\ p * t \in Nat
    BY <1>2
  <2> QED BY <1>1, <1>2, <2>1, <2>2
<1> DEFINE pf == p * f
           l == p * t + r
<1>6. pf \in Nat \ {0} /\ l \in 0..(pf - 1) /\ n = pf * b + l /\ b \in Int
  BY <1>2, <1>3, <1>4, <1>5
<1> HIDE DEF pf, l
<1>7. n \div pf = b
  BY <1>6, DivUnique
<1> QED BY <1>7 DEF pf, b, a

LEMMA BitAtShift ==
  ASSUME NEW n \in Nat, NEW lo \in 0..7, NEW k \in 0..7
  PROVE  n \div Pow(lo) \in Nat /\ BitAt(n \div Pow(lo), k) = BitAt(n, lo + k)
<1> DEFINE p == Pow(lo)
           f == Pow(k)
<1>1. p \in Nat \ {0} /\ f \in Nat \ {0}
  <2>1. lo \in 0..15 /\ k \in 0..15
    OBVIOUS
  <2> QED BY <2>1, PowersDouble
<1>2. Pow(lo + k) = p * f
  BY PowersAdd
<1>3. /\ BitAt(n \div Pow(lo), k) = ((n \div p) \div f) % 2
      /\ BitAt(n, lo + k) = (n \div (p * f)) % 2
  BY <1>2, BitAtPow
<1>4. n \div p \in Nat
  BY <1>1
<1> HIDE DEF p, f
<1>5. (n \div p) \div f = n \div (p * f)
  BY <1>1, DivDiv
<1> QED BY <1>3, <1>4, <1>5 DEF p

\* Adding a multiple of Pow(w) leaves the bits below w alone.
LEMMA LowBits ==
  ASSUME NEW a \in Nat, NEW b \in Nat, NEW w \in 0..7, NEW k \in 0..7, k < w
  PROVE  BitAt(Pow(w) * a + b, k) = BitAt(b, k)
<1> DEFINE p == Pow(k)
           f == Pow(w - k - 1)
<1>1. p \in Nat \ {0} /\ f \in Nat
  <2>1. k \in 0..15 /\ w - k - 1 \in 0..15
    OBVIOUS
  <2> QED BY <2>1, PowersDouble
<1>2. Pow(w) = p * (2 * f)
  <2> DEFINE j == w - k
  <2>1. j \in 0..7 /\ k + j = w /\ j = (j - 1) + 1 /\ j - 1 \in 0..15 /\ j - 1 = w - k - 1
    OBVIOUS
  <2> HIDE DEF j
  <2>2. Pow(k + j) = Pow(k) * Pow(j)
    BY <2>1, PowersAdd
  <2>3. Pow((j - 1) + 1) = 2 * Pow(j - 1)
    BY <2>1, PowersDouble
  <2> QED BY <2>1, <2>2, <2>3
<1>3. /\ BitAt(b, k) = (b \div p) % 2
      /\ BitAt(Pow(w) * a + b, k) = (Above(p, f, a, b) \div p) % 2
  BY <1>2, BitAtPow DEF Above
<1> HIDE DEF p, f
<1>4. Unmoved(p, f, a, b)
  BY <1>1, HighBits
<1> QED BY <1>3, <1>4 DEF Unmoved

LEMMA JoinBits ==
  ASSUME NEW a \in Nat, NEW b \in Nat, NEW w \in 0..7, b < Pow(w), NEW k \in 0..7
  PROVE  BitAt(Pow(w) * a + b, k) = IF k < w THEN BitAt(b, k) ELSE BitAt(a, k - w)
<1>1. CASE k < w
  BY <1>1, LowBits
<1>2. CASE ~(k < w)
  <2> DEFINE P == Pow(w)
             n == P * a + b
             j == k - w
  <2>1. P \in Nat \ {0} /\ n \in Nat
    <3>1. w \in 0..15
      OBVIOUS
    <3>2. P \in Nat \ {0}
      BY <3>1, PowersDouble
    <3> QED BY <3>2
  <2>2. j \in 0..7 /\ k = w + j
    BY <1>2
  <2>3. n \div P = a
    <3>1. b \in 0..(P - 1)
      BY <2>1
    <3> HIDE DEF P
    <3> QED BY <2>1, <3>1, DivUnique
  <2> HIDE DEF n, j
  <2>4. BitAt(n \div Pow(w), j) = BitAt(n, w + j)
    BY <2>1, <2>2, BitAtShift
  <2>5. BitAt(n, k) = BitAt(a, j)
    BY <2>2, <2>3, <2>4
  <2> QED BY <1>2, <2>5 DEF n, j
<1> QED BY <1>1, <1>2

\* A field holds the bits its mask selects.
FieldOf(f, n, lo, w) ==
  /\ f \in Nat /\ f < Pow(w)
  /\ \A k \in 0..(w - 1) : BitAt(f, k) = BitAt(n, lo + k)

LEMMA FieldBits ==
  ASSUME NEW n \in Nat, NEW lo \in 0..7, NEW w \in 0..7
  PROVE  FieldOf(Field(n, lo, w), n, lo, w)
<1> DEFINE P == Pow(w)
           q == n \div Pow(lo)
           h == q \div P
           l == q % P
<1>1. q \in Nat
  BY BitAtShift, 0 \in 0..7
<1>2. P \in Nat \ {0}
  <2>1. w \in 0..15
    OBVIOUS
  <2> QED BY <2>1, PowersDouble
<1>3. Field(n, lo, w) = l
  BY DEF Field, Pow
<1> HIDE DEF P
<1> HIDE DEF q
<1>5. h \in Nat /\ l \in 0..(P - 1) /\ q = P * h + l
  BY <1>1, <1>2
<1>6. ASSUME NEW k \in 0..(w - 1) PROVE BitAt(l, k) = BitAt(n, lo + k)
  <2>1. k \in 0..7 /\ k < w /\ k \in Int
    OBVIOUS
  <2>2. BitAt(q, k) = BitAt(n, lo + k)
    BY <2>1, BitAtShift DEF q
  <2> HIDE DEF h, l
  <2>3. BitAt(Pow(w) * h + l, k) = BitAt(l, k)
    <3>1. l \in Nat
      BY <1>5
    <3> QED BY <1>5, <2>1, <3>1, LowBits
  <2> QED BY <1>5, <2>2, <2>3 DEF P
<1> HIDE DEF h, l
<1>7. l \in Nat /\ l < P
  BY <1>2, <1>5
<1> QED BY <1>3, <1>6, <1>7 DEF FieldOf, P

LEMMA ByteFromBits ==
  ASSUME NEW a \in Nat, NEW b \in Nat, NEW w \in 0..7, b < Pow(w), a < Pow(8 - w)
  PROVE  Pow(w) * a + b \in Byte
<1> DEFINE p == Pow(w)
           f == Pow(8 - w)
<1>1. p \in Nat \ {0} /\ f \in Nat \ {0}
  <2>1. w \in 0..15 /\ 8 - w \in 0..15
    OBVIOUS
  <2> QED BY <2>1, PowersDouble
<1>2. p * f = ByteMod
  <2>1. p * f = 256
    BY Powers
  <2> QED BY <2>1, Moduli
<1> HIDE DEF p, f
<1>3. p * a <= p * (f - 1) /\ p * (f - 1) = p * f - p /\ p * a \in Nat /\ p * f \in Nat
  <2>1. a \in 0..(f - 1)
    BY <1>1 DEF f
  <2> QED BY <1>1, <2>1
<1>4. p * a + b \in Nat /\ p * a + b < ByteMod
  BY <1>1, <1>2, <1>3 DEF p
<1> QED BY <1>4, InByteRange DEF p

\* The bytes of a header, bit by bit.
LEMMA HeaderBytesBits ==
  ASSUME NEW i \in Infos
  PROVE  /\ Header(i) \in Seq(Byte) /\ Len(Header(i)) = 4
         /\ \A k \in 0..7 : BitAt(Header(i)[1], k) =
              IF k < 3 THEN BitAt(i.dst, 2 + k) ELSE BitAt(i.src, k - 3)
         /\ \A k \in 0..7 : BitAt(Header(i)[2], k) =
              IF k < 1 THEN BitAt(i.r1, 4)
              ELSE IF k < 6 THEN BitAt(i.r0, k - 1) ELSE BitAt(i.dst, k - 6)
         /\ \A k \in 0..7 : BitAt(Header(i)[3], k) =
              IF k < 4 THEN BitAt(i.r2, 1 + k) ELSE BitAt(i.r1, k - 4)
         /\ \A k \in 0..7 : BitAt(Header(i)[4], k) =
              IF k < 7 THEN 0 ELSE BitAt(i.r2, k - 7)
<1>1. i.src \in Nat /\ i.dst \in Nat /\ i.r0 \in Nat /\ i.r1 \in Nat /\ i.r2 \in Nat
  <2>1. i \in [src : Byte, dst : Byte, r0 : Byte, r1 : Byte, r2 : Byte]
    BY EncoderAssumption, Zenon
  <2> QED BY <2>1, InByteRange
<1> DEFINE src == Field(i.src, 0, 5)
           dstHigh == Field(i.dst, 2, 3)
           dstLow == Field(i.dst, 0, 2)
           r0 == Field(i.r0, 0, 5)
           r1High == Field(i.r1, 4, 1)
           r1Low == Field(i.r1, 0, 4)
           r2High == Field(i.r2, 1, 4)
           r2Low == Field(i.r2, 0, 1)
<1>2. /\ 0 \in 0..7 /\ 1 \in 0..7 /\ 2 \in 0..7 /\ 3 \in 0..7
      /\ 4 \in 0..7 /\ 5 \in 0..7 /\ 6 \in 0..7 /\ 7 \in 0..7
  OBVIOUS
<1>3. /\ src \in Nat /\ src < Pow(5)
      /\ \A k \in 0..(5 - 1) : BitAt(src, k) = BitAt(i.src, 0 + k)
  <2>1. FieldOf(src, i.src, 0, 5)
    BY <1>1, <1>2, FieldBits
  <2> QED BY <2>1 DEF FieldOf
<1>4. /\ dstHigh \in Nat /\ dstHigh < Pow(3)
      /\ \A k \in 0..(3 - 1) : BitAt(dstHigh, k) = BitAt(i.dst, 2 + k)
  <2>1. FieldOf(dstHigh, i.dst, 2, 3)
    BY <1>1, <1>2, FieldBits
  <2> QED BY <2>1 DEF FieldOf
<1>5. /\ dstLow \in Nat /\ dstLow < Pow(2)
      /\ \A k \in 0..(2 - 1) : BitAt(dstLow, k) = BitAt(i.dst, 0 + k)
  <2>1. FieldOf(dstLow, i.dst, 0, 2)
    BY <1>1, <1>2, FieldBits
  <2> QED BY <2>1 DEF FieldOf
<1>6. /\ r0 \in Nat /\ r0 < Pow(5)
      /\ \A k \in 0..(5 - 1) : BitAt(r0, k) = BitAt(i.r0, 0 + k)
  <2>1. FieldOf(r0, i.r0, 0, 5)
    BY <1>1, <1>2, FieldBits
  <2> QED BY <2>1 DEF FieldOf
<1>7. /\ r1High \in Nat /\ r1High < Pow(1)
      /\ \A k \in 0..(1 - 1) : BitAt(r1High, k) = BitAt(i.r1, 4 + k)
  <2>1. FieldOf(r1High, i.r1, 4, 1)
    BY <1>1, <1>2, FieldBits
  <2> QED BY <2>1 DEF FieldOf
<1>8. /\ r1Low \in Nat /\ r1Low < Pow(4)
      /\ \A k \in 0..(4 - 1) : BitAt(r1Low, k) = BitAt(i.r1, 0 + k)
  <2>1. FieldOf(r1Low, i.r1, 0, 4)
    BY <1>1, <1>2, FieldBits
  <2> QED BY <2>1 DEF FieldOf
<1>9. /\ r2High \in Nat /\ r2High < Pow(4)
      /\ \A k \in 0..(4 - 1) : BitAt(r2High, k) = BitAt(i.r2, 1 + k)
  <2>1. FieldOf(r2High, i.r2, 1, 4)
    BY <1>1, <1>2, FieldBits
  <2> QED BY <2>1 DEF FieldOf
<1>10. /\ r2Low \in Nat /\ r2Low < Pow(1)
       /\ \A k \in 0..(1 - 1) : BitAt(r2Low, k) = BitAt(i.r2, 0 + k)
  <2>1. FieldOf(r2Low, i.r2, 0, 1)
    BY <1>1, <1>2, FieldBits
  <2> QED BY <2>1 DEF FieldOf
<1> DEFINE low == Pow(1) * r0 + r1High
           b1 == Pow(3) * src + dstHigh
           b2 == Pow(6) * dstLow + low
           b3 == Pow(4) * r1Low + r2High
           b4 == Pow(7) * r2Low + 0
<1>11. Header(i) = <<b1, b2, b3, b4>>
  <2>1. Header(i) = <<src * 8 + dstHigh, dstLow * 64 + r0 * 2 + r1High,
                      r1Low * 16 + r2High, r2Low * 128>>
    BY DEF Header, HeaderSplitting
  <2>2. /\ src * 8 + dstHigh = Pow(3) * src + dstHigh
        /\ r1Low * 16 + r2High = Pow(4) * r1Low + r2High
        /\ r2Low * 128 = Pow(7) * r2Low + 0
    <3> HIDE DEF src, dstHigh, r1Low, r2High, r2Low
    <3> QED BY <1>3, <1>4, <1>8, <1>9, <1>10, Powers
  <2>3. dstLow * 64 + r0 * 2 + r1High = Pow(6) * dstLow + (Pow(1) * r0 + r1High)
    <3> HIDE DEF dstLow, r0, r1High
    <3> QED BY <1>5, <1>6, <1>7, Powers
  <2> QED BY <2>1, <2>2, <2>3
<1> HIDE DEF src, dstHigh, dstLow, r0, r1High, r1Low, r2High, r2Low
<1>12. low \in Nat /\ low < Pow(6)
  BY <1>6, <1>7, Powers
<1>13. ASSUME NEW k \in 0..5
       PROVE  BitAt(low, k) = IF k < 1 THEN BitAt(i.r1, 4) ELSE BitAt(i.r0, k - 1)
  <2>1. k \in 0..7
    OBVIOUS
  <2>2. BitAt(low, k) = IF k < 1 THEN BitAt(r1High, k) ELSE BitAt(r0, k - 1)
    BY <1>2, <1>6, <1>7, <2>1, JoinBits
  <2>3. k < 1 => k \in 0..(1 - 1) /\ 4 + k = 4
    OBVIOUS
  <2>4. ~(k < 1) => k - 1 \in 0..(5 - 1) /\ 0 + (k - 1) = k - 1
    OBVIOUS
  <2> HIDE DEF low
  <2> QED BY <1>6, <1>7, <2>2, <2>3, <2>4
<1> HIDE DEF low
<1>14. ASSUME NEW k \in 0..7
       PROVE  BitAt(b1, k) = IF k < 3 THEN BitAt(i.dst, 2 + k) ELSE BitAt(i.src, k - 3)
  <2>1. BitAt(b1, k) = IF k < 3 THEN BitAt(dstHigh, k) ELSE BitAt(src, k - 3)
    BY <1>2, <1>3, <1>4, JoinBits
  <2>2. k < 3 => k \in 0..(3 - 1)
    OBVIOUS
  <2>3. ~(k < 3) => k - 3 \in 0..(5 - 1) /\ 0 + (k - 3) = k - 3
    OBVIOUS
  <2> HIDE DEF b1
  <2> QED BY <1>3, <1>4, <2>1, <2>2, <2>3
<1>15. ASSUME NEW k \in 0..7
       PROVE  BitAt(b2, k) = IF k < 1 THEN BitAt(i.r1, 4)
                             ELSE IF k < 6 THEN BitAt(i.r0, k - 1) ELSE BitAt(i.dst, k - 6)
  <2>1. BitAt(b2, k) = IF k < 6 THEN BitAt(low, k) ELSE BitAt(dstLow, k - 6)
    BY <1>2, <1>5, <1>12, JoinBits
  <2>2. k < 6 => k \in 0..5
    OBVIOUS
  <2>3. ~(k < 6) => ~(k < 1) /\ k - 6 \in 0..(2 - 1) /\ 0 + (k - 6) = k - 6
    OBVIOUS
  <2> HIDE DEF b2
  <2> QED BY <1>5, <1>13, <2>1, <2>2, <2>3
<1>16. ASSUME NEW k \in 0..7
       PROVE  BitAt(b3, k) = IF k < 4 THEN BitAt(i.r2, 1 + k) ELSE BitAt(i.r1, k - 4)
  <2>1. BitAt(b3, k) = IF k < 4 THEN BitAt(r2High, k) ELSE BitAt(r1Low, k - 4)
    BY <1>2, <1>8, <1>9, JoinBits
  <2>2. k < 4 => k \in 0..(4 - 1)
    OBVIOUS
  <2>3. ~(k < 4) => k - 4 \in 0..(4 - 1) /\ 0 + (k - 4) = k - 4
    OBVIOUS
  <2> HIDE DEF b3
  <2> QED BY <1>8, <1>9, <2>1, <2>2, <2>3
<1>17. ASSUME NEW k \in 0..7
       PROVE  BitAt(b4, k) = IF k < 7 THEN 0 ELSE BitAt(i.r2, k - 7)
  <2>1. BitAt(b4, k) = IF k < 7 THEN BitAt(0, k) ELSE BitAt(r2Low, k - 7)
    <3>1. 0 \in Nat /\ 0 < Pow(7)
      BY Powers
    <3> QED BY <1>2, <1>10, <3>1, JoinBits
  <2>2. BitAt(0, k) = 0
    <3>1. Pow(k) \in Nat \ {0}
      <4>1. k \in 0..15
        OBVIOUS
      <4> QED BY <4>1, PowersDouble
    <3>2. \A p \in Nat \ {0} : (0 \div p) % 2 = 0
      OBVIOUS
    <3> QED BY <3>1, <3>2, BitAtPow
  <2>3. ~(k < 7) => k - 7 \in 0..(1 - 1) /\ 0 + (k - 7) = k - 7
    OBVIOUS
  <2> HIDE DEF b4
  <2> QED BY <1>10, <2>1, <2>2, <2>3
<1>18. b1 \in Byte /\ b2 \in Byte /\ b3 \in Byte /\ b4 \in Byte
  <2>1. 8 - 3 = 5 /\ 8 - 6 = 2 /\ 8 - 4 = 4 /\ 8 - 7 = 1
    OBVIOUS
  <2>2. b1 \in Byte
    BY <1>2, <1>3, <1>4, <2>1, ByteFromBits
  <2>3. b2 \in Byte
    BY <1>2, <1>5, <1>12, <2>1, ByteFromBits
  <2>4. b3 \in Byte
    BY <1>2, <1>8, <1>9, <2>1, ByteFromBits
  <2>5. b4 \in Byte
    <3>1. 0 \in Nat /\ 0 < Pow(7)
      BY Powers
    <3> QED BY <1>2, <1>10, <2>1, <3>1, ByteFromBits
  <2> QED BY <2>2, <2>3, <2>4, <2>5
<1> HIDE DEF b1, b2, b3, b4
<1>19. /\ Header(i)[1] = b1 /\ Header(i)[2] = b2 /\ Header(i)[3] = b3 /\ Header(i)[4] = b4
       /\ Header(i) \in Seq(Byte) /\ Len(Header(i)) = 4
  BY <1>11, <1>18
<1> QED BY <1>14, <1>15, <1>16, <1>17, <1>19

----------------------------------------------------------------------------
(* The frame that is encoded and the code of it.                           *)

FrameInv ==
  ccPc # "off" =>
    info \in Infos /\ \A k \in 1..4 : frame[k] = Header(info)[k]

LEMMA FrameBuilt ==
  ASSUME NEW i \in Infos, NEW data \in Payloads
  PROVE  /\ Header(i) \o data \in [1..FrameBytes -> Byte]
         /\ \A k \in 1..4 : (Header(i) \o data)[k] = Header(i)[k]
<1>1. Header(i) \in Seq(Byte) /\ Len(Header(i)) = 4
  BY HeaderBytesBits
<1>2. data \in [1..(FrameBytes - 4) -> Byte] /\ FrameBytes - 4 \in Nat
  BY EncoderAssumption, Sizes DEF HeaderBytes
<1>3. data \in Seq(Byte) /\ Len(data) = FrameBytes - 4
  BY <1>2
<1> DEFINE h == Header(i)
<1> HIDE DEF h
<1>4. /\ h \o data \in Seq(Byte)
      /\ Len(h \o data) = Len(h) + Len(data)
      /\ \A k \in 1..(Len(h) + Len(data)) :
           (h \o data)[k] = IF k <= Len(h) THEN h[k] ELSE data[k - Len(h)]
  BY <1>1, <1>3, ConcatProperties DEF h
<1>5. Len(h \o data) = FrameBytes /\ FrameBytes \in Nat /\ 4 <= FrameBytes
  BY <1>1, <1>2, <1>3, <1>4, Sizes DEF h
<1>6. \A k \in 1..4 : (h \o data)[k] = h[k]
  BY <1>1, <1>3, <1>4, <1>5 DEF h
<1>7. h \o data \in [1..FrameBytes -> Byte]
  BY <1>4, <1>5, LenProperties
<1> QED BY <1>6, <1>7 DEF h

EncodeInv == CoderInv /\ BytesInv /\ SourceInv /\ CodeInv /\ FrameInv

\* Output pair ccCount of the body is a code, and the ones before it stay.
LEMMA CodeStep ==
  ASSUME CoderInv, BytesInv, CodeInv, NEW s, NextOutBits(s), frame' = frame,
         NEW n \in Nat, BitsOut = 2 * n,
         n < FrameBits - CcLength =>
           \A c \in 1..2 : Parity(CcConstr[c], s) = CodeBit(CcConstr[c], CcLength + n)
  PROVE  CodeInv'
<1>1. /\ \A k \in 0..(BitsOut - 1) : OutBitOf(encoded', outByte', outBit', k) = BitOut(k)
      /\ OutBitOf(encoded', outByte', outBit', BitsOut) = Parity(CcConstr[1], s)
      /\ OutBitOf(encoded', outByte', outBit', BitsOut + 1) = Parity(CcConstr[2], s)
  BY OutStep
<1>2. BitsOut' = BitsOut + 2
  BY OutCount
<1>3. \A g, k : CodeBit(g, k)' = CodeBit(g, k)
  BY DEF CodeBit, InBit, BitAt
<1>4. \A k : BitOut(k)' = OutBitOf(encoded', outByte', outBit', k)
  BY DEF BitOut
<1> SUFFICES ASSUME NEW m \in Nat, NEW c \in 1..2,
                    m < FrameBits - CcLength, 2 * m + c - 1 < BitsOut'
             PROVE  OutBitOf(encoded', outByte', outBit', 2 * m + c - 1)
                      = CodeBit(CcConstr[c], CcLength + m)
  BY <1>3, <1>4 DEF CodeInv
<1>5. CASE m < n
  <2>1. 2 * m + c - 1 < BitsOut /\ 2 * m + c - 1 \in 0..(BitsOut - 1)
    BY <1>5
  <2> QED BY <1>1, <2>1 DEF CodeInv
<1>6. CASE ~(m < n)
  <2>1. m = n
    BY <1>2, <1>6
  <2>2. c = 1 \/ c = 2
    OBVIOUS
  <2>3. 2 * n + 1 - 1 = BitsOut /\ 2 * n + 2 - 1 = BitsOut + 1
    OBVIOUS
  <2> QED BY <1>1, <2>1, <2>2, <2>3
<1> QED BY <1>5, <1>6

LEMMA InitEncodeInv == Init => EncodeInv
<1> SUFFICES ASSUME Init PROVE EncodeInv OBVIOUS
<1>1. /\ ccPc = "off" /\ frame = [k \in 1..FrameBytes |-> 0] /\ inByte = 0
      /\ ccState = 0 /\ initState = 0 /\ encoded = <<>> /\ outByte = 0 /\ outBit = 0
  BY DEF Init, CoderOff
<1>2. BytesInv
  BY <1>1, ZeroInByte DEF BytesInv
<1>3. BitsOut = 0
  BY <1>1 DEF BitsOut
<1>4. CodeInv
  BY <1>3 DEF CodeInv
<1> QED BY <1>1, <1>2, <1>4, InitCoderInv DEF EncodeInv, SourceInv, FrameInv

LEMMA StartEncode ==
  ASSUME EncodeInv, NEW i \in Infos, NEW data \in Payloads, BuildFrame(i, data)
  PROVE  BytesInv' /\ SourceInv' /\ CodeInv' /\ FrameInv'
<1> DEFINE bytes == Header(i) \o data
<1>1. bytes \in [1..FrameBytes -> Byte] /\ \A k \in 1..4 : bytes[k] = Header(i)[k]
  BY FrameBuilt
<1> HIDE DEF bytes
<1>2. /\ ccPc = "off" /\ ccPc' = "seed" /\ frame' = bytes /\ inByte' = bytes[1] /\ info' = i
      /\ UNCHANGED <<ccCount, inPos, inBit, ccState, initState, encoded, outByte, outBit>>
  BY DEF BuildFrame, StartCoder, bytes
<1>3. 1 \in 1..FrameBytes
  BY Sizes
<1>4. BytesInv'
  BY <1>1, <1>2, <1>3 DEF BytesInv, EncodeInv
<1>5. inPos = 0 /\ inBit = 0 /\ BitsIn = 0 /\ BitsOut = 0
  BY <1>2 DEF EncodeInv, CoderInv, BitsIn
<1>6. BitsIn' = 0 /\ BitsOut' = 0
  BY <1>2, <1>5 DEF BitsIn, BitsOut
<1>7. CodeInv'
  BY <1>6 DEF CodeInv
<1>8. inByte' = bytes[0 + 1] \div Pow(0)
  <2>1. bytes[1] \in Nat
    BY <1>1, <1>3, InByteRange
  <2>2. \A x \in Nat : x = x \div 1
    OBVIOUS
  <2> QED BY <1>2, <2>1, <2>2, Powers
<1>9. SourceInv'
  BY <1>2, <1>5, <1>6, <1>8 DEF SourceInv
<1>10. FrameInv'
  BY <1>1, <1>2 DEF FrameInv, Header, HeaderSplitting, Field
<1> QED BY <1>4, <1>7, <1>9, <1>10

LEMMA StepEncode ==
  ASSUME EncodeInv, Encode
  PROVE  BytesInv' /\ SourceInv' /\ CodeInv' /\ FrameInv'
<1> USE DEF EncodeInv
<1>1. frame' = frame /\ info' = info /\ ccPc # "off"
  BY DEF Encode, CoderStep, Seed, Body, BodyWith, BiteTail, LoopStep
<1>2. FrameInv'
  BY <1>1 DEF FrameInv, Header, HeaderSplitting, Field
<1>3. CASE Seed
  <2>1. /\ ccPc = "seed" /\ ccState' = UpdateState(ccState, inByte) /\ NextInBit
        /\ UNCHANGED <<encoded, outByte, outBit>>
        /\ initState' = ccState' \/ initState' = initState
    BY <1>3 DEF Seed, LoopStep
  <2>2. BytesInv'
    BY <1>1, <2>1, InStep, StateMoves DEF BytesInv
  <2>3. BitsIn + 1 < FrameBits
    BY <2>1, Sizes DEF CoderInv
  <2>4. SourceInv'
    BY <1>1, <2>1, <2>3, SourceMoves
  <2>5. BitsOut = 0 /\ BitsOut' = BitsOut
    BY <2>1 DEF CoderInv, BitsOut
  <2>6. CodeInv'
    BY <2>5 DEF CodeInv
  <2> QED BY <1>2, <2>2, <2>4, <2>6
<1>4. CASE Body
  <2> DEFINE s == UpdateState(ccState, inByte)
  <2>1. /\ ccPc = "body" /\ ccState' = s /\ NextInBit /\ NextOutBits(s)
        /\ initState' = initState
        /\ ccCount' = IF ccCount + 1 = FrameBits - CcLength THEN 0 ELSE ccCount + 1
        /\ ccPc' = IF ccCount + 1 = FrameBits - CcLength THEN "tail" ELSE "body"
    BY <1>4 DEF Body, BodyWith, LoopStep
  <2>2. encoded' \in Seq(Byte) /\ outByte' \in Byte
    BY <2>1, OutStep
  <2>3. BytesInv'
    BY <1>1, <2>1, <2>2, InStep, StateMoves DEF BytesInv
  <2>4. /\ ccCount \in Nat /\ BitsIn = CcLength + ccCount /\ BitsOut = 2 * ccCount
        /\ ccCount < FrameBits - CcLength
    BY <2>1 DEF CoderInv
  <2>5. ccPc' \in {"seed", "body"} => BitsIn + 1 < FrameBits
    BY <2>1, <2>4, Sizes
  <2>6. SourceInv'
    BY <1>1, <2>1, <2>5, SourceMoves
  <2>7. \A j \in 0..15 : j <= BitsIn => BitAt(s, j) = InBit(BitsIn - j)
    BY <2>1, WindowMoves
  <2> HIDE DEF s
  <2>8. \A c \in 1..2 : Parity(CcConstr[c], s) = CodeBit(CcConstr[c], CcLength + ccCount)
    <3>1. BitsIn \in Nat /\ CcLength <= BitsIn /\ BitsIn < FrameBits
      BY <2>4, Sizes
    <3>2. \A g : Parity(g, s) = CodeBit(g, BitsIn)
      BY <2>7, <3>1, ParityIsCode
    <3> QED BY <2>4, <3>2
  <2>9. CodeInv'
    BY <1>1, <2>1, <2>4, <2>8, CodeStep
  <2> QED BY <1>2, <2>3, <2>6, <2>9
<1>5. CASE BiteTail
  <2>1. ccPc = "tail" /\ NextOutBits(ccState) /\ ccPc' \in {"tail", "coded"}
    BY <1>5 DEF BiteTail, LoopStep
  <2>2. BytesInv'
    BY <1>5, BiteTailBytes
  <2>3. SourceInv'
    BY <2>1 DEF SourceInv
  <2> DEFINE n == FrameBits - CcLength + ccCount
  <2>4. n \in Nat /\ BitsOut = 2 * n /\ ~(n < FrameBits - CcLength)
    BY <2>1, Sizes DEF CoderInv
  <2> HIDE DEF n
  <2>5. CodeInv'
    BY <1>1, <2>1, <2>4, CodeStep
  <2> QED BY <1>2, <2>2, <2>3, <2>5
<1> QED BY <1>3, <1>4, <1>5 DEF Encode, CoderStep

LEMMA NextEncodeInv == EncodeInv /\ [Next]_vars => EncodeInv'
<1> SUFFICES ASSUME EncodeInv, [Next]_vars PROVE EncodeInv' OBVIOUS
<1>1. CoderInv'
  BY NextCoderInv DEF EncodeInv
<1>2. CASE UNCHANGED <<ccVars, info>>
  <2>1. /\ UNCHANGED <<ccPc, frame, ccCount, inPos, inByte, inBit, ccState, initState,
                       encoded, outByte, outBit, info>>
    BY <1>2 DEF ccVars
  <2>2. BitsIn' = BitsIn /\ BitsOut' = BitsOut
    BY <2>1 DEF BitsIn, BitsOut
  <2>3. BytesInv' /\ SourceInv'
    BY <2>1, <2>2 DEF EncodeInv, BytesInv, SourceInv
  <2>4. CodeInv'
    BY <2>1, <2>2 DEF EncodeInv, CodeInv, BitOut, CodeBit, InBit, BitAt
  <2>5. FrameInv'
    BY <2>1 DEF EncodeInv, FrameInv, Header, HeaderSplitting, Field
  <2> QED BY <1>1, <2>3, <2>4, <2>5 DEF EncodeInv
<1>3. ASSUME NEW i \in Infos, NEW data \in Payloads, BuildFrame(i, data) PROVE EncodeInv'
  BY <1>1, <1>3, StartEncode DEF EncodeInv
<1>4. CASE Encode
  BY <1>1, <1>4, StepEncode DEF EncodeInv
<1> QED BY <1>2, <1>3, <1>4 DEF Next, Overwrite, MapSymbols, Finished, vars

LEMMA EncodeInvariant == Spec => []EncodeInv
BY InitEncodeInv, NextEncodeInv, PTL DEF Spec

\* Every pair of output bits before the tail is the code of the bits of the
\* frame that end with the one it goes out for, whatever the frame, its
\* length and the two generators are (cc_encode_tb, tx.c:134).
THEOREM CodeIsConvolution == Spec => []BodyIsCode
<1>1. EncodeInv => BodyIsCode
  <2> SUFFICES ASSUME EncodeInv, NEW n \in 0..(PairsOut - 1), NEW c \in 1..2,
                      n < FrameBits - CcLength
               PROVE  OutBit(2 * n + c - 1) = CodeBit(CcConstr[c], CcLength + n)
    BY DEF BodyIsCode
  <2>1. Len(encoded) \in Nat /\ outBit \in Nat
    BY DEF EncodeInv, CoderInv
  <2>2. PairsOut = 4 * Len(encoded)
    BY <2>1, Sizes DEF PairsOut
  <2>3. n \in Nat /\ 2 * n + c - 1 < 8 * Len(encoded)
    BY <2>1, <2>2
  <2>4. 2 * n + c - 1 < BitsOut
    BY <2>1, <2>3 DEF BitsOut
  <2>5. BitOut(2 * n + c - 1) = CodeBit(CcConstr[c], CcLength + n)
    BY <2>3, <2>4 DEF EncodeInv, CodeInv
  <2> QED BY <2>3, <2>5, InBitOf DEF BitOut, OutBitOf
<1> QED BY <1>1, EncodeInvariant, PTL

\* The header in the frame is the one asked for, bit by bit, for every
\* source, destination and route (encode, tx.c:291).
THEOREM HeadersWhole == Spec => []HeaderWhole
<1>1. EncodeInv => HeaderWhole
  <2> SUFFICES ASSUME EncodeInv, ccPc # "off"
               PROVE  LET fields == <<info.src, info.dst, info.r0, info.r1, info.r2>>
                      IN /\ \A k \in 0..24 :
                              HeaderBit(k) = BitAt(fields[k \div 5 + 1], 4 - (k % 5))
                         /\ \A k \in 25..31 : HeaderBit(k) = 0
    BY DEF HeaderWhole
  <2> DEFINE h == Header(info)
  <2>1. info \in Infos /\ \A k \in 1..4 : frame[k] = h[k]
    BY DEF EncodeInv, FrameInv
  <2>2. /\ \A k \in 0..7 : BitAt(h[1], k) =
             IF k < 3 THEN BitAt(info.dst, 2 + k) ELSE BitAt(info.src, k - 3)
        /\ \A k \in 0..7 : BitAt(h[2], k) =
             IF k < 1 THEN BitAt(info.r1, 4)
             ELSE IF k < 6 THEN BitAt(info.r0, k - 1) ELSE BitAt(info.dst, k - 6)
        /\ \A k \in 0..7 : BitAt(h[3], k) =
             IF k < 4 THEN BitAt(info.r2, 1 + k) ELSE BitAt(info.r1, k - 4)
        /\ \A k \in 0..7 : BitAt(h[4], k) =
             IF k < 7 THEN 0 ELSE BitAt(info.r2, k - 7)
    BY <2>1, HeaderBytesBits, Zenon
  <2> HIDE DEF h
  <2> DEFINE fields == <<info.src, info.dst, info.r0, info.r1, info.r2>>
             F(k) == HeaderBit(k) = BitAt(fields[k \div 5 + 1], 4 - (k % 5))
  <2>3. ASSUME NEW k \in 0..31
        PROVE  HeaderBit(k) = BitAt(h[k \div 8 + 1], 7 - (k % 8))
    <3>1. k \div 8 + 1 \in 1..4
      OBVIOUS
    <3> QED BY <2>1, <3>1 DEF HeaderBit
  <2>4. ASSUME NEW k \in 0..7 PROVE F(k)
    <3>1. k \div 8 + 1 = 1 /\ 7 - (k % 8) = 7 - k /\ 7 - k \in 0..7 /\ k \in 0..31
      OBVIOUS
    <3>2. HeaderBit(k) = IF 7 - k < 3 THEN BitAt(info.dst, 2 + (7 - k))
                         ELSE BitAt(info.src, (7 - k) - 3)
      BY <2>2, <2>3, <3>1
    <3>3. CASE k < 5
      <4>1. k \div 5 + 1 = 1 /\ 4 - (k % 5) = (7 - k) - 3 /\ ~(7 - k < 3)
        BY <3>3
      <4> QED BY <3>2, <4>1
    <3>4. CASE ~(k < 5)
      <4>1. k \div 5 + 1 = 2 /\ 4 - (k % 5) = 2 + (7 - k) /\ 7 - k < 3
        BY <3>4
      <4> QED BY <3>2, <4>1
    <3> QED BY <3>3, <3>4
  <2>5. ASSUME NEW k \in 8..15 PROVE F(k)
    <3>1. k \div 8 + 1 = 2 /\ 7 - (k % 8) = 15 - k /\ 15 - k \in 0..7 /\ k \in 0..31
      OBVIOUS
    <3>2. HeaderBit(k) = IF 15 - k < 1 THEN BitAt(info.r1, 4)
                         ELSE IF 15 - k < 6 THEN BitAt(info.r0, (15 - k) - 1)
                         ELSE BitAt(info.dst, (15 - k) - 6)
      BY <2>2, <2>3, <3>1
    <3>3. CASE k < 10
      <4>1. /\ k \div 5 + 1 = 2 /\ 4 - (k % 5) = (15 - k) - 6
            /\ ~(15 - k < 6) /\ ~(15 - k < 1)
        BY <3>3
      <4> QED BY <3>2, <4>1
    <3>4. CASE ~(k < 10) /\ k < 15
      <4>1. /\ k \div 5 + 1 = 3 /\ 4 - (k % 5) = (15 - k) - 1
            /\ 15 - k < 6 /\ ~(15 - k < 1)
        BY <3>4
      <4> QED BY <3>2, <4>1
    <3>5. CASE k = 15
      <4>1. k \div 5 + 1 = 4 /\ 4 - (k % 5) = 4 /\ 15 - k < 1
        BY <3>5
      <4> QED BY <3>2, <4>1
    <3> QED BY <3>3, <3>4, <3>5
  <2>6. ASSUME NEW k \in 16..23 PROVE F(k)
    <3>1. k \div 8 + 1 = 3 /\ 7 - (k % 8) = 23 - k /\ 23 - k \in 0..7 /\ k \in 0..31
      OBVIOUS
    <3>2. HeaderBit(k) = IF 23 - k < 4 THEN BitAt(info.r2, 1 + (23 - k))
                         ELSE BitAt(info.r1, (23 - k) - 4)
      BY <2>2, <2>3, <3>1
    <3>3. CASE k < 20
      <4>1. k \div 5 + 1 = 4 /\ 4 - (k % 5) = (23 - k) - 4 /\ ~(23 - k < 4)
        BY <3>3
      <4> QED BY <3>2, <4>1
    <3>4. CASE ~(k < 20)
      <4>1. k \div 5 + 1 = 5 /\ 4 - (k % 5) = 1 + (23 - k) /\ 23 - k < 4
        BY <3>4
      <4> QED BY <3>2, <4>1
    <3> QED BY <3>3, <3>4
  <2>7. ASSUME NEW k \in 24..31
        PROVE  HeaderBit(k) = IF k = 24 THEN BitAt(info.r2, 0) ELSE 0
    <3>1. k \div 8 + 1 = 4 /\ 7 - (k % 8) = 31 - k /\ 31 - k \in 0..7 /\ k \in 0..31
      OBVIOUS
    <3>2. HeaderBit(k) = IF 31 - k < 7 THEN 0 ELSE BitAt(info.r2, (31 - k) - 7)
      BY <2>2, <2>3, <3>1
    <3>3. 31 - k < 7 <=> k # 24
      OBVIOUS
    <3>4. k = 24 => (31 - k) - 7 = 0
      OBVIOUS
    <3> QED BY <3>2, <3>3, <3>4
  <2>8. F(24)
    <3>1. 24 \div 5 + 1 = 5 /\ 4 - (24 % 5) = 0 /\ 24 \in 24..31
      OBVIOUS
    <3> QED BY <2>7, <3>1
  <2> HIDE DEF F, fields
  <2>9. \A k \in 0..24 : F(k)
    BY <2>4, <2>5, <2>6, <2>8
  <2>10. \A k \in 25..31 : HeaderBit(k) = 0
    BY <2>7
  <2> QED BY <2>9, <2>10 DEF F, fields
<1> QED BY <1>1, EncodeInvariant, PTL

----------------------------------------------------------------------------
(* The points between the pilots, and the types.                           *)

LEMMA DataCount ==
  ASSUME NEW s, NEW k \in Nat
  PROVE  IsFiniteSet(DataPlaces(s, k)) /\ Cardinality(DataPlaces(s, k)) \in Nat
<1>1. IsFiniteSet(1..k)
  BY FS_Interval
<1>2. IsFiniteSet(DataPlaces(s, k))
  BY <1>1, FS_Subset DEF DataPlaces
<1> QED BY <1>2, FS_CardinalityType

LEMMA InitDataInOrder == Init => DataInOrder
BY DEF Init, MapperOff, DataInOrder

LEMMA AddPilotsInOrder == MapperInv /\ DataInOrder /\ AddPilots => DataInOrder'
<1> SUFFICES ASSUME MapperInv, DataInOrder, AddPilots PROVE DataInOrder' OBVIOUS
<1> DEFINE n == Len(mapped)
<1>1. /\ mapPc = "pilots" /\ n \in Nat /\ mapped \in Seq(Points) /\ inIdx \in Nat
      /\ Len(modulated) = NumPoints
      /\ \A k \in 1..Len(modulated) : modulated[k].kind = "data"
      /\ modulated' = modulated
  BY DEF MapperInv, MapperTypes, AddPilots
<1>2. PICK w :
        /\ mapped' = Append(mapped, w)
        /\ IF w.kind = "data" THEN inIdx' = inIdx + 1 /\ w = modulated[inIdx + 1]
                              ELSE inIdx' = inIdx
        /\ w \in Points
  <2>1. CASE PutPilot
    <3>1. pilotIdx \in Nat
      BY DEF MapperInv, MapperTypes
    <3>2. Pilot(pilotIdx) \in Points /\ Pilot(pilotIdx).kind # "data"
      BY <3>1, SampleTypes
    <3> QED BY <2>1, <3>2 DEF PutPilot, PutPilotThen
  <2>2. CASE PutData
    <3>1. inIdx + 1 \in 1..Len(modulated)
      <4>1. NumPoints \in Nat
        BY Dimensions DEF NumPoints
      <4> QED BY <1>1, <2>2, <4>1 DEF PutData, PutDataFrom
    <3>2. modulated[inIdx + 1] \in Points /\ modulated[inIdx + 1].kind = "data"
      BY <1>1, <3>1 DEF MapperInv, MapperTypes
    <3> QED BY <2>2, <3>2 DEF PutData, PutDataFrom
  <2>3. CASE PutZero
    <3>1. Zero \in Points /\ Zero.kind # "data"
      BY SampleTypes
    <3> QED BY <2>3, <3>1 DEF PutZero
  <2> QED BY <2>1, <2>2, <2>3 DEF AddPilots
<1>3. /\ Len(mapped') = n + 1 /\ mapped'[n + 1] = w
      /\ \A k \in 1..n : mapped'[k] = mapped[k]
  BY <1>1, <1>2
<1>4. /\ inIdx = Cardinality(DataPlaces(mapped, n))
      /\ \A k \in DataPlaces(mapped, n) :
           mapped[k] = modulated[Cardinality(DataPlaces(mapped, k))]
  BY <1>1 DEF DataInOrder
<1> HIDE DEF n
<1>5. ASSUME NEW k \in 0..n PROVE DataPlaces(mapped', k) = DataPlaces(mapped, k)
  <2>1. \A j \in 1..k : mapped'[j] = mapped[j]
    BY <1>1, <1>3
  <2> QED BY <2>1 DEF DataPlaces
<1>6. DataPlaces(mapped', n + 1) =
        IF w.kind = "data" THEN DataPlaces(mapped, n) \cup {n + 1} ELSE DataPlaces(mapped, n)
  <2>1. \A j : j \in 1..(n + 1) <=> j \in 1..n \/ j = n + 1
    BY <1>1
  <2> QED BY <1>3, <2>1 DEF DataPlaces
<1>7. /\ inIdx' = Cardinality(DataPlaces(mapped', n + 1))
      /\ w.kind = "data" => w = modulated[Cardinality(DataPlaces(mapped', n + 1))]
  <2>1. CASE w.kind = "data"
    <3>1. IsFiniteSet(DataPlaces(mapped, n))
      BY <1>1, DataCount
    <3>2. ~(n + 1 \in DataPlaces(mapped, n))
      BY <1>1 DEF DataPlaces
    <3>3. Cardinality(DataPlaces(mapped, n) \cup {n + 1})
            = Cardinality(DataPlaces(mapped, n)) + 1
      BY <3>1, <3>2, FS_AddElement
    <3> QED BY <1>2, <1>4, <1>6, <2>1, <3>3
  <2>2. CASE w.kind # "data"
    BY <1>2, <1>4, <1>6, <2>2
  <2> QED BY <2>1, <2>2
<1>8. ASSUME NEW k \in DataPlaces(mapped', n + 1)
      PROVE  mapped'[k] = modulated'[Cardinality(DataPlaces(mapped', k))]
  <2>1. k \in 1..(n + 1) /\ mapped'[k].kind = "data"
    BY DEF DataPlaces
  <2>2. CASE k = n + 1
    BY <1>1, <1>3, <1>7, <2>1, <2>2
  <2>3. CASE k # n + 1
    <3>1. k \in 1..n /\ k \in 0..n
      BY <1>1, <2>1, <2>3
    <3>2. k \in DataPlaces(mapped, n)
      BY <1>3, <2>1, <3>1 DEF DataPlaces
    <3> QED BY <1>1, <1>3, <1>4, <1>5, <3>1, <3>2
  <2> QED BY <2>2, <2>3
<1> QED BY <1>3, <1>7, <1>8 DEF DataInOrder

LEMMA NextDataInOrder == MapperInv /\ MapperInv' /\ DataInOrder /\ [Next]_vars => DataInOrder'
<1> SUFFICES ASSUME MapperInv, MapperInv', DataInOrder, [Next]_vars PROVE DataInOrder'
  OBVIOUS
<1>1. CASE UNCHANGED mapVars
  BY <1>1 DEF DataInOrder, DataPlaces, mapVars
<1>2. CASE Overwrite
  BY <1>2 DEF Overwrite, StartMapper, DataInOrder
<1>3. CASE MapSymbols
  <2>1. CASE Modulate
    <3>1. inIdx' = 0 /\ mapped' = <<>> /\ Len(mapped') = 0
      BY <2>1 DEF Modulate, CountTo, MapperInv
    <3>2. DataPlaces(mapped', Len(mapped')) = {}
      BY <3>1 DEF DataPlaces
    <3>3. Cardinality({}) = 0
      BY FS_EmptySet
    <3> QED BY <3>1, <3>2, <3>3 DEF DataInOrder
  <2>2. CASE AddPilots
    BY <2>2, AddPilotsInOrder
  <2>3. CASE Transform
    <3>1. mapCount \in Nat
      BY DEF MapperInv, MapperTypes
    <3>2. mapPc' \in {"fft", "prefix"} /\ (mapPc' = "fft" => mapCount' = mapCount + 1)
      BY <2>3 DEF Transform, CountTo
    <3> QED BY <3>1, <3>2 DEF DataInOrder
  <2>4. CASE AddPrefix
    BY <2>4 DEF AddPrefix, PrefixFrom, CountTo, DataInOrder
  <2> QED BY <1>3, <2>1, <2>2, <2>3, <2>4 DEF MapSymbols, MapperStep
<1> QED BY <1>1, <1>2, <1>3 DEF Next, BuildFrame, Encode, Finished, vars

\* Between the pilots add_pilots (tx.c:206) puts the points in order, none twice
\* and none skipped, for any layout of the pilots and any sizes.  The places
\* behind those that are transformed are never sent (tx.c:331, 353).
THEOREM DataStaysInOrder == Spec => []DataInOrder
<1>1. MapperInv /\ MapperInv' /\ DataInOrder /\ [Next]_vars => DataInOrder'
  BY NextDataInOrder
<1> QED BY <1>1, InitDataInOrder, MapperInvariant, PTL DEF Spec

----------------------------------------------------------------------------
LEMMA PointsAreSamples == \A s : s \in Seq(Points) => s \in Seq(Samples)
<1>1. DebugByte \in Nat
  BY EncoderAssumption, InByteRange
<1>2. PointBits \subseteq 0..3
  <2>1. ASSUME NEW j \in 1..PointsPerByte PROVE (DebugByte \div 4 ^ (j - 1)) % 4 \in 0..3
    <3>1. 4 ^ (j - 1) \in Nat \ {0}
      <4>1. j = 1 \/ j = 2 \/ j = 3 \/ j = 4
        BY EncoderAssumption
      <4>2. CASE j = 1
        BY <4>2
      <4>3. CASE j = 2
        BY <4>3
      <4>4. CASE j = 3
        BY <4>4
      <4>5. CASE j = 4
        BY <4>5
      <4> QED BY <4>1, <4>2, <4>3, <4>4, <4>5
    <3> DEFINE p == 4 ^ (j - 1)
    <3> HIDE DEF p
    <3>2. p \in Nat \ {0}
      BY <3>1 DEF p
    <3>3. (DebugByte \div p) % 4 \in 0..3
      BY <1>1, <3>2
    <3> QED BY <3>3 DEF p
  <2> QED BY <2>1 DEF PointBits
<1>3. Points \subseteq Samples
  BY <1>2 DEF Points, Samples
<1> QED BY <1>3

SizesInv ==
  /\ coded \in Seq(Nat)
  /\ mapCount \in 0..(CodedBytes - 1) \cup 0..(NSym - 1)
  /\ Len(modulated) <= NumPoints
  /\ inIdx <= NumPoints
  /\ pilotIdx <= Len(pilots)
  /\ Len(mapped) <= NOut

LEMMA InitSizesInv == Init => SizesInv
<1> SUFFICES ASSUME Init PROVE SizesInv OBVIOUS
<1>1. /\ coded = <<>> /\ pilots = <<>> /\ mapCount = 0 /\ modulated = <<>>
      /\ inIdx = 0 /\ pilotIdx = 0 /\ mapped = <<>>
  BY DEF Init, MapperOff
<1>2. NumPoints \in Nat
  BY Dimensions DEF NumPoints
<1> QED BY <1>1, <1>2, Dimensions DEF SizesInv

LEMMA NextSizesInv == MapperInv /\ MapperInv' /\ SizesInv /\ [Next]_vars => SizesInv'
<1> SUFFICES ASSUME MapperInv, MapperInv', SizesInv, [Next]_vars PROVE SizesInv'
  OBVIOUS
<1> USE Dimensions
<1>0. NumPoints \in Nat
  BY DEF NumPoints
<1>1. CASE UNCHANGED mapVars
  BY <1>1 DEF SizesInv, mapVars
<1>2. CASE Overwrite
  <2>1. coded' = [k \in 1..CodedBytes |-> DebugByte] /\ DebugByte \in Nat
    BY <1>2, EncoderAssumption, InByteRange DEF Overwrite, StartMapper
  <2>2. coded' \in Seq(Nat)
    BY <2>1
  <2>3. /\ pilots' \in PilotLayouts /\ pilotIdx' = 0 /\ Len(pilots') \in Nat
    <3>1. pilots' \in PilotLayouts /\ pilotIdx' = 0
      BY <1>2 DEF Overwrite, StartMapper, MapperInv
    <3>2. pilots' \in Seq(0..(NFft - 1))
      BY <3>1, MapperAssumption, Zenon
    <3> QED BY <3>1, <3>2, LenProperties
  <2>4. UNCHANGED <<mapCount, modulated, inIdx, mapped>>
    BY <1>2 DEF Overwrite, StartMapper
  <2> QED BY <2>2, <2>3, <2>4 DEF SizesInv
<1>3. CASE Modulate
  <2>1. /\ mapCount \in Nat /\ mapCount < CodedBytes
        /\ mapCount' = IF mapCount + 1 = CodedBytes THEN 0 ELSE mapCount + 1
        /\ mapPc' = IF mapCount + 1 = CodedBytes THEN "pilots" ELSE "modulate"
        /\ UNCHANGED <<coded, pilots, inIdx, pilotIdx, mapped>>
    BY <1>3 DEF Modulate, CountTo, MapperInv, MapperTypes
  <2>2. Len(modulated') <= NumPoints
    <3>1. CASE mapPc' = "pilots"
      BY <1>0, <3>1 DEF MapperInv
    <3>2. CASE mapPc' = "modulate"
      <4>1. mapCount' < CodedBytes /\ Len(modulated') = PointsPerByte * mapCount'
            /\ mapCount' \in Nat
        BY <2>1, <3>2 DEF MapperInv
      <4>2. PointsPerByte = 4
        BY EncoderAssumption
      <4>3. NumPoints = 4 * CodedBytes
        BY <4>2 DEF NumPoints
      <4> QED BY <2>1, <4>1, <4>2, <4>3
    <3> QED BY <2>1, <3>1, <3>2
  <2> QED BY <2>1, <2>2 DEF SizesInv
<1>4. CASE AddPilots
  <2>1. /\ Len(mapped) < NOut /\ mapped \in Seq(Points) /\ Len(mapped) \in Nat
        /\ pilotIdx \in Nat /\ inIdx \in Nat /\ Len(pilots) \in Nat
        /\ UNCHANGED <<coded, pilots, mapCount, modulated>>
    BY <1>4, PilotsOrdered DEF AddPilots, MapperInv, MapperTypes
  <2>2. \E w : mapped' = Append(mapped, w)
    BY <1>4 DEF AddPilots, PutPilot, PutPilotThen, PutData, PutDataFrom, PutZero
  <2>3. Len(mapped') = Len(mapped) + 1
    BY <2>1, <2>2
  <2>4. inIdx' <= NumPoints /\ pilotIdx' <= Len(pilots)
    <3>1. CASE PutPilot
      BY <2>1, <3>1 DEF PutPilot, PutPilotThen, SizesInv
    <3>2. CASE PutData
      BY <1>0, <2>1, <3>2 DEF PutData, PutDataFrom, SizesInv
    <3>3. CASE PutZero
      BY <3>3 DEF PutZero, SizesInv
    <3> QED BY <1>4, <3>1, <3>2, <3>3 DEF AddPilots
  <2> QED BY <2>1, <2>3, <2>4 DEF SizesInv
<1>5. CASE Transform
  <2>1. /\ mapCount \in Nat /\ mapCount < NSym
        /\ mapCount' = IF mapCount + 1 = NSym THEN 0 ELSE mapCount + 1
        /\ Len(mapped') = NOut
        /\ UNCHANGED <<coded, pilots, modulated, inIdx, pilotIdx>>
    <3>1. mapPc' \in {"fft", "prefix"}
      BY <1>5 DEF Transform, CountTo
    <3> QED BY <1>5, <3>1 DEF Transform, CountTo, MapperInv, MapperTypes
  <2> QED BY <2>1 DEF SizesInv
<1>6. CASE AddPrefix
  BY <1>6 DEF AddPrefix, PrefixFrom, CountTo, MapperInv, MapperTypes, SizesInv
<1> QED BY <1>1, <1>2, <1>3, <1>4, <1>5, <1>6
    DEF Next, BuildFrame, Encode, Finished, MapSymbols, MapperStep, vars

LEMMA InfoStays ==
  /\ Init => info = NoInfo
  /\ info \in Infos \cup {NoInfo} /\ [Next]_vars => info' \in Infos \cup {NoInfo}
BY DEF Init, Next, BuildFrame, Encode, Overwrite, MapSymbols, Finished, vars

\* Every variable keeps its type and its bound: a byte is a byte, the shift
\* register sixteen bits, and no array is written behind its end, for any
\* frame, code, layout and sizes.
THEOREM EncoderTypes == Spec => []TypeOK
<1>1. EncodeInv => CoderType
  <2> SUFFICES ASSUME EncodeInv PROVE CoderType OBVIOUS
  <2>1. /\ ccPc \in {"off", "seed", "body", "tail", "coded"} /\ ccCount \in Nat
        /\ inPos \in Nat /\ inBit \in 0..7 /\ outBit \in {0, 2, 4, 6}
    BY DEF EncodeInv, CoderInv
  <2>2. inPos <= FrameBytes
    BY <2>1, Sizes DEF EncodeInv, CoderInv, BitsIn
  <2>3. ccCount <= FrameBits
    BY <2>1, Sizes DEF EncodeInv, CoderInv
  <2> QED BY <2>1, <2>2, <2>3, Sizes DEF EncodeInv, BytesInv, CoderType, Word
<1>2. MapperInv /\ SizesInv => MapperType
  <2> SUFFICES ASSUME MapperInv, SizesInv PROVE MapperType OBVIOUS
  <2>1. /\ pilots \in PilotLayouts \cup {<<>>} /\ mapCount \in Nat /\ inIdx \in Nat
        /\ pilotIdx \in Nat /\ modulated \in Seq(Samples) /\ mapped \in Seq(Samples)
        /\ samps \in Seq(Samples) /\ Len(samps) \in Nat
    BY PointsAreSamples DEF MapperInv, MapperTypes
  <2>2. NumPoints \in Nat /\ Len(pilots) \in Nat
    BY <2>1, Dimensions, PilotsOrdered DEF NumPoints
  <2>3. Len(samps) <= NSym * (NFft + NCp)
    <3> DEFINE size == NFft + NCp
    <3>1. size \in Nat /\ NSym \in Nat
      BY Dimensions
    <3>2. CASE mapPc \in {"off", "modulate", "pilots", "fft"}
      <4>1. samps = <<>>
        BY <3>2 DEF MapperInv
      <4>2. NSym * size >= 0
        BY <3>1
      <4> QED BY <4>1, <4>2
    <3>3. CASE mapPc \in {"prefix", "sent"}
      <4>1. PICK c \in 0..NSym : Len(samps) = size * c
        BY <2>1, <3>1, <3>3 DEF MapperInv
      <4> HIDE DEF size
      <4>2. NSym * size - size * c = size * (NSym - c) /\ size * (NSym - c) >= 0
        BY <3>1
      <4>3. NSym * size \in Nat /\ size * c \in Nat
        BY <3>1
      <4> QED BY <4>1, <4>2, <4>3 DEF size
    <3> QED BY <3>2, <3>3 DEF MapperInv
  <2> QED BY <2>1, <2>2, <2>3 DEF MapperInv, SizesInv, MapperType
<1>3. MapperInv /\ MapperInv' /\ SizesInv /\ [Next]_vars => SizesInv'
  BY NextSizesInv
<1>4. Init => info \in Infos \cup {NoInfo}
  BY InfoStays
<1>5. info \in Infos \cup {NoInfo} /\ [Next]_vars => (info \in Infos \cup {NoInfo})'
  BY InfoStays DEF NoInfo
<1>6. CoderType /\ MapperType /\ info \in Infos \cup {NoInfo} => TypeOK
  BY DEF TypeOK
<1>7. Spec => []SizesInv
  BY <1>3, InitSizesInv, MapperInvariant, PTL DEF Spec
<1>8. Spec => [](info \in Infos \cup {NoInfo})
  BY <1>4, <1>5, PTL DEF Spec
<1> QED BY <1>1, <1>2, <1>6, <1>7, <1>8, EncodeInvariant, MapperInvariant, PTL
=============================================================================
