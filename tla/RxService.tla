----------------------------- MODULE RxService -----------------------------
(***************************************************************************)
(* What the receive interface of the driver promises its users: the path   *)
(* and the receiver's configuration each change in one step, as a whole,   *)
(* and neither changes while somebody captures samples.                    *)
(***************************************************************************)
CONSTANTS Users, Nobody, Paths, Regs, Words

VARIABLES
  path,       \* the path the DMA's samples take
  conf,       \* the receiver's configuration, register by register
  capturing   \* who is capturing samples

vars == <<path, conf, capturing>>

Init ==
  /\ path \in Paths
  /\ conf \in {[r \in Regs |-> w] : w \in Words}
  /\ capturing = Nobody

SetPath(p) == capturing = Nobody /\ path' = p /\ UNCHANGED <<conf, capturing>>

Configure(w) ==
  /\ capturing = Nobody
  /\ conf' = [r \in Regs |-> w]
  /\ UNCHANGED <<path, capturing>>

StartCapture(u) ==
  /\ capturing = Nobody
  /\ capturing' = u
  /\ UNCHANGED <<path, conf>>

EndCapture == capturing' = Nobody /\ UNCHANGED <<path, conf>>

Next ==
  \/ \E p \in Paths : SetPath(p)
  \/ \E w \in Words : Configure(w)
  \/ \E u \in Users : StartCapture(u)
  \/ EndCapture

Spec == Init /\ [][Next]_vars
============================================================================
