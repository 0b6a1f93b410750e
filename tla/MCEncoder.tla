------------------------------ MODULE MCEncoder ------------------------------
(***************************************************************************)
(* Instances of Encoder for TLC, at the size of the program.               *)
(***************************************************************************)
EXTENDS Encoder

\* sw/tx_test.c: eight pilots per symbol.
EightPilots == {<<4, 12, 20, 28, 36, 44, 52, 60>>}
\* sw/test/test_tx.cc: none; and one at either end of a symbol.
SomePilots == EightPilots \cup {<<>>, <<0, 63>>}

\* Generators of nine bits, so that the state spans two bytes.
NineTaps == <<369, 491>>

\* Every field with every bit of its own, and with more bits than it has.
FieldValues == <<1, 2, 4, 8, 16, 224>>
ValueAt(k) == FieldValues[1 + (k % 6)]
AllInfos ==
  {[src |-> ValueAt(k), dst |-> ValueAt(k + 1), r0 |-> ValueAt(k + 2),
    r1 |-> ValueAt(k + 3), r2 |-> ValueAt(k + 4)] : k \in 0..5}

Mixed == [k \in 1..20 |-> (37 * k + 11) % 256]
Alternating == [k \in 1..20 |-> IF k % 2 = 0 THEN 15 ELSE 51]
TwoPayloads == {Mixed, Alternating}
=============================================================================
