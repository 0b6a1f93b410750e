-------------------------- MODULE MCBasebandDriver --------------------------
(***************************************************************************)
(* Instances of BasebandDriver for TLC: the mux registers as they reset.   *)
(***************************************************************************)
EXTENDS BasebandDriver

\* All registers reset to 0, which leaves both splitter outputs enabled.
AllZeroSel == [r \in SelRegs |-> 0]

\* As sw/baseband_test.c would leave them with set_use_rx(fd, 0).
BypassSelected == BypassSel
=============================================================================
