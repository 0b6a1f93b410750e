---------------------------- MODULE MessageLink ----------------------------
(***************************************************************************)
(* What two boards running xcomm2ip promise their operators: what one of   *)
(* them types is printed by the other once, in the order it was typed.     *)
(***************************************************************************)
EXTENDS Naturals, Sequences

CONSTANT Texts

VARIABLES
  typed,    \* per board: the messages its operator has entered
  printed   \* per board: the messages it has printed

vars == <<typed, printed>>

Boards == {1, 2}
Peer(b) == 3 - b

Init ==
  /\ typed = [b \in Boards |-> <<>>]
  /\ printed = [b \in Boards |-> <<>>]

Type(b, m) ==
  /\ typed' = [typed EXCEPT ![b] = Append(@, m)]
  /\ UNCHANGED printed

PrintNext(b) ==
  /\ Len(printed[b]) < Len(typed[Peer(b)])
  /\ printed' = [printed EXCEPT ![b] = Append(@, typed[Peer(b)][Len(@) + 1])]
  /\ UNCHANGED typed

Next == \E b \in Boards : (\E m \in Texts : Type(b, m)) \/ PrintNext(b)

Spec == Init /\ [][Next]_vars

FairSpec == Spec /\ \A b \in Boards : WF_vars(PrintNext(b))
============================================================================
