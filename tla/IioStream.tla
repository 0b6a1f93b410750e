----------------------------- MODULE IioStream -----------------------------
(***************************************************************************)
(* The capture program sw/iiostream.c: main() acquires a libiio context,   *)
(* tunes the AD9361 through it, finds and enables two channels, creates a  *)
(* buffer, refills it, writes what came to a file, and shuts down.         *)
(*                                                                         *)
(* A step is one call of libiio.  Any of those that can fail may; main()   *)
(* answers some failures with abort(), others with shutdown(), from        *)
(* whatever point of the set-up they occur at.  SIGINT may come between    *)
(* any two steps.  The transmit half of the program is declared and never  *)
(* set up, so its handles stay NULL.                                       *)
(***************************************************************************)

VARIABLES
  at,        \* the call main() or shutdown() is about to make
  done,      \* the calls of the set-up that succeeded: their handles are set
  released,  \* the handles shutdown() has given back
  stop,      \* the flag the signal handler sets
  saved,     \* cap_0.dat has been written
  ended      \* how the process ended

vars == <<at, done, released, stop, saved, ended>>

\* The attributes of the AD9361 that must be set before a capture.
Attributes == {"rf_port_select", "rf_bandwidth", "sampling_frequency", "frequency"}

\* What each call is followed by.
SetUpOrder ==
  [context |-> "devices", devices |-> "stream_dev", stream_dev |-> "phy",
   phy |-> "rf_port_select", rf_port_select |-> "rf_bandwidth",
   rf_bandwidth |-> "sampling_frequency", sampling_frequency |-> "lo",
   lo |-> "frequency", frequency |-> "rx0_i", rx0_i |-> "rx0_q",
   rx0_q |-> "enable_i", enable_i |-> "enable_q", enable_q |-> "buffer",
   buffer |-> "loop"]
SetUp == DOMAIN SetUpOrder

ShutdownOrder ==
  [destroy_buffer |-> "disable_i", disable_i |-> "disable_q",
   disable_q |-> "destroy_context", destroy_context |-> "exit"]
Handle ==
  [destroy_buffer |-> "buffer", disable_i |-> "rx0_i", disable_q |-> "rx0_q",
   destroy_context |-> "context"]
Shutdown == DOMAIN ShutdownOrder

TypeOK ==
  /\ at \in SetUp \cup {"loop", "refill", "save"} \cup Shutdown \cup {"exit"}
  /\ done \subseteq SetUp
  /\ released \subseteq done \cap {"buffer", "rx0_i", "rx0_q", "context"}
  /\ stop \in BOOLEAN
  /\ saved \in BOOLEAN
  /\ ended \in {"no", "exit", "abort", "crash"}

Init ==
  /\ at = "context"
  /\ done = {}
  /\ released = {}
  /\ stop = FALSE
  /\ saved = FALSE
  /\ ended = "no"

----------------------------------------------------------------------------
Goto(next) == at' = next /\ UNCHANGED ended
End(how) == ended' = how /\ UNCHANGED at

Succeed ==
  /\ at \in SetUp
  /\ done' = done \cup {at}
  /\ Goto(SetUpOrder[at])
  /\ UNCHANGED <<released, stop, saved>>

\* ASSERT: no context, no device, no channel.
Asserted == {"context", "devices", "stream_dev", "phy", "lo", "rx0_i", "rx0_q"}
Abort ==
  /\ at \in Asserted
  /\ End("abort")
  /\ UNCHANGED <<done, released, stop, saved>>

\* Slips for the mutation checks: exit() in place of shutdown(), errchk()
\* without it, shutdown() without exit(), a loop that nothing stops, and a
\* handle given back unchecked.
ExitAtOnce == Goto("exit")
RefusalIgnored ==
  /\ at \in Attributes
  /\ Goto(SetUpOrder[at])
  /\ UNCHANGED <<done, released, stop, saved>>
ShutdownReturns ==
  /\ at = "exit"
  /\ Goto("loop")
  /\ UNCHANGED <<done, released, stop, saved>>
StopForgotten == UNCHANGED stop
HandleUnchecked == {Handle[at]}

\* errchk, and main() when it gets no buffer, call shutdown().
Unwind == Goto("destroy_buffer")
Refused ==
  /\ at \in Attributes \cup {"buffer"}
  /\ Unwind
  /\ UNCHANGED <<done, released, stop, saved>>

\* while (!stop)
Loop ==
  /\ at = "loop"
  /\ Goto(IF stop THEN "destroy_buffer" ELSE "refill")
  /\ UNCHANGED <<done, released, stop, saved>>

Refill ==
  /\ at = "refill"
  /\ Goto("save") \/ Unwind
  /\ UNCHANGED <<done, released, stop, saved>>

\* savecap writes to the file without a look at fopen's result; then the
\* loop is told to stop.
StopSet == stop' = TRUE
Save ==
  /\ at = "save"
  /\ \/ Goto("loop") /\ saved' = TRUE /\ StopSet
     \/ End("crash") /\ UNCHANGED <<saved, stop>>
  /\ UNCHANGED <<done, released>>

\* shutdown() gives back what is not NULL.
NotNull == {Handle[at]} \cap done
Release ==
  /\ at \in Shutdown
  /\ released' = released \cup NotNull
  /\ Goto(ShutdownOrder[at])
  /\ UNCHANGED <<done, stop, saved>>

Exit ==
  /\ at = "exit"
  /\ End("exit")
  /\ UNCHANGED <<done, released, stop, saved>>

Main == ended = "no" /\
  (Succeed \/ Abort \/ Refused \/ Loop \/ Refill \/ Save \/ Release \/ Exit)

\* handle_sig
Signal ==
  /\ ended = "no"
  /\ stop' = TRUE
  /\ UNCHANGED <<at, done, released, saved, ended>>

Next == Main \/ Signal

Spec == Init /\ [][Next]_vars

\* Every call of libiio returns (a refill fails when no samples come).
FairSpec == Spec /\ WF_vars(Main)

----------------------------------------------------------------------------
(* Properties.                                                             *)

\* What a call works on: only what was acquired and not given back.
Needs ==
  [context |-> {}, devices |-> {"context"}, stream_dev |-> {"context"},
   phy |-> {"context"}, rf_port_select |-> {"context", "phy"},
   rf_bandwidth |-> {"context", "phy"}, sampling_frequency |-> {"context", "phy"},
   lo |-> {"context"}, frequency |-> {"context", "lo"},
   rx0_i |-> {"context", "stream_dev"}, rx0_q |-> {"context", "stream_dev"},
   enable_i |-> {"context", "rx0_i"}, enable_q |-> {"context", "rx0_q"},
   buffer |-> {"context", "stream_dev", "enable_i", "enable_q"},
   refill |-> {"context", "buffer"}, save |-> {"context", "buffer", "rx0_i"}]

\* Whatever failed before, main() and shutdown() work only on handles that
\* are set and alive, no handle is given back twice, and the context goes
\* last because the others live in it.
UsedWhileLive ==
  ended = "no" =>
    /\ at \in DOMAIN Needs => Needs[at] \subseteq done \ released
    /\ at \in Shutdown /\ Handle[at] \in done =>
         {Handle[at], "context"} \subseteq done \ released

\* A process that exits, after a failure in the middle of the set-up too,
\* has given back all it acquired.
CleanExit ==
  ended = "exit" => done \cap {"buffer", "rx0_i", "rx0_q", "context"} \subseteq released

\* No capture is written that was taken before all four attributes were
\* accepted and both channels enabled.
CaptureTuned ==
  saved \/ at = "save" => Attributes \cup {"enable_i", "enable_q"} \subseteq done

\* The program ends, signal or not.
Terminates == <>(ended # "no")
============================================================================
