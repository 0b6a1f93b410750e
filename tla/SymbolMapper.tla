---------------------------- MODULE SymbolMapper ----------------------------
(***************************************************************************)
(* modulate, add_pilots and double_to_fixed_with_cp of sw/tx.c: coded bytes*)
(* become points of a constellation, pilots go between them, each symbol is*)
(* transformed to the time domain and sent behind a copy of its end.       *)
(*                                                                         *)
(* A sample is what it is made of: a data point keeps its two bits and its *)
(* number, a pilot its number, a time sample its symbol and its place.  The*)
(* transform itself and the conversion to fixed point are not interpreted. *)
(***************************************************************************)
EXTENDS Naturals, Sequences, FiniteSets

CONSTANTS
  CodedBytes,  \* 48
  PointsPerByte, \* 4
  NFft,        \* 64
  NSym,        \* 3
  NCp,         \* 10
  NOut,        \* 216: n_out
  PilotLayouts \* what pilots[].pos may be

NumPoints == CodedBytes * PointsPerByte

ASSUME MapperAssumption ==
  /\ CodedBytes \in Nat \ {0}
  /\ PointsPerByte \in Nat \ {0}
  /\ NFft \in Nat \ {0}
  /\ NSym \in Nat \ {0}
  /\ NCp \in 0..NFft
  /\ NOut \in Nat /\ NOut >= NSym * NFft
  \* tx.h:30, "must be in order of increasing pos"
  /\ \A pilots \in PilotLayouts :
       /\ pilots \in Seq(0..(NFft - 1))
       /\ \A i, j \in 1..Len(pilots) : i < j => pilots[i] < pilots[j]

VARIABLES
  mapPc,     \* "off", "modulate", "pilots", "fft", "prefix" or "sent"
  coded,     \* the bytes to modulate
  pilots,    \* pilots[].pos
  mapCount,  \* the loop variable of modulate, of the transforms, of the prefix
  modulated,
  inIdx,     \* add_pilots: in_idx
  pilotIdx,  \* add_pilots: pilots_idx
  mapped,    \* its length is add_pilots' out_idx
  samps

mapVars == <<mapPc, coded, pilots, mapCount, modulated, inIdx, pilotIdx, mapped, samps>>

Samples == [kind : {"data", "pilot", "zero", "time"}, bits : 0..3, nr : Nat]
Data(bits, k) == [kind |-> "data", bits |-> bits, nr |-> k]
Pilot(p) == [kind |-> "pilot", bits |-> 0, nr |-> p]
Zero == [kind |-> "zero", bits |-> 0, nr |-> 0]
Time(k) == [kind |-> "time", bits |-> 0, nr |-> k]

MapperType ==
  /\ mapPc \in {"off", "modulate", "pilots", "fft", "prefix", "sent"}
  /\ coded \in Seq(Nat)
  /\ pilots \in PilotLayouts \cup {<<>>}
  /\ mapCount \in 0..(CodedBytes - 1) \cup 0..(NSym - 1)
  /\ modulated \in Seq(Samples) /\ Len(modulated) <= NumPoints
  /\ inIdx \in 0..NumPoints
  /\ pilotIdx \in 0..Len(pilots)
  /\ mapped \in Seq(Samples) /\ Len(mapped) <= NOut
  /\ samps \in Seq(Samples) /\ Len(samps) <= NSym * (NFft + NCp)

MapperOff ==
  /\ mapPc = "off"
  /\ coded = <<>> /\ pilots = <<>> /\ mapCount = 0 /\ modulated = <<>>
  /\ inIdx = 0 /\ pilotIdx = 0 /\ mapped = <<>> /\ samps = <<>>

----------------------------------------------------------------------------
CountTo(from, n, to) ==
  /\ mapPc = from
  /\ mapCount' = IF mapCount + 1 = n THEN 0 ELSE mapCount + 1
  /\ mapPc' = IF mapCount + 1 = n THEN to ELSE from

StartMapper(bytes, layout) ==
  /\ mapPc = "off"
  /\ mapPc' = "modulate"
  /\ coded' = bytes
  /\ pilots' = layout
  /\ UNCHANGED <<mapCount, modulated, inIdx, pilotIdx, mapped, samps>>

\* One byte: its bits two by two, the lowest first.
PointsOf(byte, first) ==
  [j \in 1..PointsPerByte |-> Data((byte \div 4 ^ (j - 1)) % 4, first + j - 1)]

Modulate ==
  /\ CountTo("modulate", CodedBytes, "pilots")
  /\ modulated' = modulated \o PointsOf(coded[mapCount + 1], PointsPerByte * mapCount)
  /\ UNCHANGED <<coded, pilots, inIdx, pilotIdx, mapped, samps>>

PilotHere == pilotIdx < Len(pilots) /\ pilots[pilotIdx + 1] = Len(mapped) % NFft

PutPilotThen(next) ==
  /\ PilotHere
  /\ mapped' = Append(mapped, Pilot(pilotIdx))
  /\ pilotIdx' = next
  /\ UNCHANGED inIdx
PutPilotOnce == PutPilotThen(pilotIdx + 1)  \* a slip: no return to the first
PutPilot == PutPilotThen(IF pilotIdx + 1 >= Len(pilots) THEN 0 ELSE pilotIdx + 1)

PutDataFrom(k) ==
  /\ ~PilotHere
  /\ inIdx < NumPoints
  /\ mapped' = Append(mapped, modulated[k + 1])
  /\ inIdx' = inIdx + 1
  /\ UNCHANGED pilotIdx
PutDataInPlace == PutDataFrom(Len(mapped))  \* a slip: out_idx for in_idx
PutData == PutDataFrom(inIdx)

PutZero ==
  /\ ~PilotHere
  /\ inIdx >= NumPoints
  /\ mapped' = Append(mapped, Zero)
  /\ UNCHANGED <<inIdx, pilotIdx>>

AddPilots ==
  /\ mapPc = "pilots"
  /\ PutPilot \/ PutData \/ PutZero
  /\ mapPc' = IF Len(mapped) + 1 = NOut THEN "fft" ELSE "pilots"
  /\ UNCHANGED <<coded, pilots, mapCount, modulated, samps>>

\* Symbol mapCount, in place.
Transform ==
  /\ CountTo("fft", NSym, "prefix")
  /\ mapped' = [k \in 1..NOut |->
       IF (k - 1) \div NFft = mapCount THEN Time(k - 1) ELSE mapped[k]]
  /\ UNCHANGED <<coded, pilots, modulated, inIdx, pilotIdx, samps>>

\* Symbol mapCount behind its last NCp samples.
PrefixFrom(first) ==
  /\ CountTo("prefix", NSym, "sent")
  /\ samps' = samps \o SubSeq(mapped, first + 1, first + NCp)
                    \o SubSeq(mapped, mapCount * NFft + 1, mapCount * NFft + NFft)
  /\ UNCHANGED <<coded, pilots, modulated, inIdx, pilotIdx, mapped>>
PrefixOneEarly == PrefixFrom((mapCount + 1) * NFft - NCp - 1)  \* a slip: off by one
AddPrefix == PrefixFrom((mapCount + 1) * NFft - NCp)

MapperStep == Modulate \/ AddPilots \/ Transform \/ AddPrefix

----------------------------------------------------------------------------
(* Properties.                                                             *)

\* Before a symbol is transformed its pilots are where the receiver expects
\* them, each once, and nowhere else, however many pilots there are.
PilotsInPlace ==
  mapPc \in {"pilots", "fft"} =>
    \A k \in 1..Len(mapped) :
      mapped[k].kind # "time" =>
        \A p \in 1..Len(pilots) :
          mapped[k] = Pilot(p - 1) <=> (k - 1) % NFft = pilots[p]

\* Around the pilots add_pilots puts the points of the data in order, none twice
\* and none skipped: the n-th place that holds data holds point n.  Not every
\* point gets a place that is sent: with eight pilots a symbol carries 56 points,
\* so 24 of the 192 do not (the transform and the prefix stop at 192 places).
DataPlaces(s, k) == {j \in 1..k : s[j].kind = "data"}
DataInOrder ==
  mapPc = "pilots" \/ (mapPc = "fft" /\ mapCount = 0) =>
    LET places == DataPlaces(mapped, Len(mapped))
    IN /\ inIdx = Cardinality(places)
       /\ \A k \in places : mapped[k] = modulated[Cardinality(DataPlaces(mapped, k))]

\* What is sent: each symbol whole, in order, and behind a copy of its end.
SymbolsWithPrefix ==
  \A k \in 1..Len(samps) :
    LET symbol == (k - 1) \div (NFft + NCp)
        place == (k - 1) % (NFft + NCp)
        sample == IF place < NCp THEN NFft - NCp + place ELSE place - NCp
    IN samps[k] = Time(symbol * NFft + sample)
=============================================================================
