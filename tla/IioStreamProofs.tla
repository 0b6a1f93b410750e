-------------------------- MODULE IioStreamProofs --------------------------
(***************************************************************************)
(* Proofs about IioStream: wherever the set-up fails, nothing is used that *)
(* was not acquired, and what was acquired is given back in order.         *)
(*                                                                         *)
(* The invariant numbers the calls of the set-up: what is done is exactly  *)
(* what comes before the next call, and shutdown() has given back exactly  *)
(* what its earlier steps are for.                                         *)
(***************************************************************************)
EXTENDS IioStream, Naturals, TLAPS

Rank ==
  [context |-> 0, devices |-> 1, stream_dev |-> 2, phy |-> 3, rf_port_select |-> 4,
   rf_bandwidth |-> 5, sampling_frequency |-> 6, lo |-> 7, frequency |-> 8,
   rx0_i |-> 9, rx0_q |-> 10, enable_i |-> 11, enable_q |-> 12, buffer |-> 13,
   loop |-> 14]
GivenBack ==
  [destroy_buffer |-> {}, disable_i |-> {"buffer"}, disable_q |-> {"buffer", "rx0_i"},
   destroy_context |-> {"buffer", "rx0_i", "rx0_q"},
   exit |-> {"buffer", "rx0_i", "rx0_q", "context"}]
Before(r) == {t \in SetUp : Rank[t] < r}

SettingUp == at \in SetUp => done = Before(Rank[at]) /\ released = {} /\ ~saved
Capturing == at \in {"loop", "refill", "save"} => done = SetUp /\ released = {}
ShuttingDown ==
  at \in Shutdown \cup {"exit"} => released = done \cap GivenBack[at] /\ "context" \in done
SavedDone == saved => done = SetUp
Exited == ended = "exit" => at = "exit"

IInv == TypeOK /\ SettingUp /\ Capturing /\ ShuttingDown /\ SavedDone /\ Exited

\* The calls are made in the order of their numbers, and each after those
\* it needs.
LEMMA Ranks ==
  /\ \A t \in SetUp : Rank[t] \in Nat /\ Rank[SetUpOrder[t]] = Rank[t] + 1
  /\ \A t, u \in SetUp : Rank[t] = Rank[u] => t = u
  /\ \A t \in SetUp : SetUpOrder[t] \in SetUp \cup {"loop"}
  /\ \A t \in SetUp : Rank[t] < 14
  /\ Rank["loop"] = 14
BY DEF SetUp, SetUpOrder, Rank

LEMMA NeedsBefore ==
  \A t \in SetUp : Needs[t] \subseteq Before(Rank[t])
BY DEF SetUp, SetUpOrder, Rank, Needs, Before

LEMMA BeforeNext == ASSUME NEW t \in SetUp PROVE Before(Rank[t]) \cup {t} = Before(Rank[t] + 1)
BY Ranks DEF Before

LEMMA GivenNext ==
  /\ \A t \in Shutdown : GivenBack[t] \cup {Handle[t]} = GivenBack[ShutdownOrder[t]]
  /\ \A t \in Shutdown : Handle[t] \notin GivenBack[t] /\ "context" \notin GivenBack[t]
  /\ \A t \in Shutdown : ShutdownOrder[t] \in Shutdown \cup {"exit"}
  /\ \A t \in Shutdown : Handle[t] \in {"buffer", "rx0_i", "rx0_q", "context"}
BY DEF Shutdown, ShutdownOrder, Handle, GivenBack

\* No name stands for calls of two phases.
LEMMA Phases ==
  /\ SetUp \cap (Shutdown \cup {"loop", "refill", "save", "exit"}) = {}
  /\ Shutdown \cap {"loop", "refill", "save", "exit"} = {}
BY DEF SetUp, SetUpOrder, Shutdown, ShutdownOrder

LEMMA InitIInv == ASSUME Init PROVE IInv
<1>1. "context" \in SetUp
  BY DEF SetUp, SetUpOrder
<1>2. Before(Rank["context"]) = {}
  BY Ranks DEF Before, Rank
<1>3. TypeOK
  BY <1>1 DEF Init, TypeOK
<1>4. SettingUp
  BY <1>2 DEF Init, SettingUp
<1>5. Capturing /\ ShuttingDown /\ SavedDone /\ Exited
  BY <1>1, Phases DEF Init, Capturing, ShuttingDown, SavedDone, Exited
<1> QED BY <1>3, <1>4, <1>5 DEF IInv

\* From any point of the set-up after the context, and from the loop,
\* shutdown() begins with nothing given back.
LEMMA UnwindStep ==
  ASSUME IInv, Unwind, UNCHANGED <<done, released, stop, saved>>, ended = "no",
         released = {}, "context" \in done
  PROVE  IInv'
<1>1. /\ at' = "destroy_buffer" /\ ended' = "no"
      /\ done' = done /\ released' = {} /\ stop' = stop /\ saved' = saved
  BY DEF Unwind, Goto
<1>2. "destroy_buffer" \in Shutdown /\ GivenBack["destroy_buffer"] = {}
  BY DEF Shutdown, ShutdownOrder, GivenBack
<1>3. TypeOK'
  BY <1>1, <1>2 DEF IInv, TypeOK
<1>4. SettingUp' /\ Capturing'
  BY <1>1, <1>2, Phases DEF SettingUp, Capturing
<1>5. ShuttingDown' /\ SavedDone' /\ Exited'
  BY <1>1, <1>2 DEF IInv, ShuttingDown, SavedDone, Exited
<1> QED BY <1>3, <1>4, <1>5 DEF IInv

LEMMA SucceedStep == ASSUME IInv, ended = "no", Succeed PROVE IInv'
<1>1. at \in SetUp /\ done = Before(Rank[at]) /\ released = {} /\ ~saved
  BY DEF IInv, Succeed, SettingUp
<1>2. /\ at' = SetUpOrder[at] /\ done' = done \cup {at} /\ ended' = "no"
      /\ released' = {} /\ ~saved' /\ stop' = stop /\ saved' = saved
  BY <1>1 DEF Succeed, Goto
<1>3. done' = Before(Rank[at']) /\ at' \in SetUp \cup {"loop"}
  BY <1>1, <1>2, BeforeNext, Ranks
<1>4. TypeOK'
  BY <1>1, <1>2, <1>3 DEF IInv, TypeOK
<1>5. SettingUp'
  BY <1>2, <1>3 DEF SettingUp
<1>6. Capturing'
  <2>1. at' = "loop" => Before(Rank[at']) = SetUp
    BY Ranks DEF Before
  <2> QED BY <1>2, <1>3, <2>1, Phases DEF Capturing
<1>7. ShuttingDown' /\ SavedDone' /\ Exited'
  BY <1>2, <1>3, Phases DEF ShuttingDown, SavedDone, Exited
<1> QED BY <1>4, <1>5, <1>6, <1>7 DEF IInv

\* A step that stays where it is may end the process, though only exit()
\* ends it with success, or set the flag.
LEMMA StayStep ==
  ASSUME IInv, at' = at, UNCHANGED <<done, released, saved>>, stop' \in BOOLEAN,
         ended' \in {"no", "exit", "abort", "crash"}, ended' = "exit" => at = "exit"
  PROVE  IInv'
BY DEF IInv, TypeOK, SettingUp, Capturing, ShuttingDown, SavedDone, Exited

LEMMA LoopStep == ASSUME IInv, ended = "no", Loop \/ Refill \/ Save PROVE IInv'
<1>1. /\ at \in {"loop", "refill", "save"} /\ done = SetUp /\ released = {}
      /\ "context" \in done
  BY DEF IInv, Loop, Refill, Save, Capturing, SetUp, SetUpOrder
<1>2. CASE Unwind /\ UNCHANGED <<done, released, stop, saved>>
  BY <1>1, <1>2, UnwindStep
<1>3. CASE /\ at' \in {"loop", "refill", "save"} /\ ended' = ended
           /\ done' = done /\ released' = released
           /\ saved' \in BOOLEAN /\ stop' \in BOOLEAN
  <2>1. TypeOK' /\ Capturing' /\ SavedDone' /\ Exited'
    BY <1>1, <1>3 DEF IInv, TypeOK, Capturing, SavedDone, Exited
  <2>2. SettingUp' /\ ShuttingDown'
    BY <1>3, Phases DEF SettingUp, ShuttingDown
  <2> QED BY <2>1, <2>2 DEF IInv
<1>4. CASE End("crash") /\ UNCHANGED <<done, released, stop, saved>>
  <2>1. stop' \in BOOLEAN
    BY <1>4 DEF IInv, TypeOK
  <2> QED BY <1>4, <2>1, StayStep DEF End
<1>5. CASE Loop
  BY <1>2, <1>3, <1>5 DEF Loop, Goto, Unwind, IInv, TypeOK
<1>6. CASE Refill
  BY <1>2, <1>3, <1>6 DEF Refill, Goto, IInv, TypeOK
<1>7. CASE Save
  BY <1>3, <1>4, <1>7 DEF Save, Goto, StopSet, IInv, TypeOK
<1> QED BY <1>5, <1>6, <1>7

LEMMA RefusedStep == ASSUME IInv, ended = "no", Refused PROVE IInv'
<1>1. at \in SetUp /\ 0 < Rank[at]
  BY DEF Refused, Attributes, SetUp, SetUpOrder, Rank
<1>2. "context" \in done /\ released = {}
  BY <1>1 DEF IInv, SettingUp, Before, SetUp, SetUpOrder, Rank
<1> QED BY <1>2, UnwindStep DEF Refused

LEMMA ReleaseStep == ASSUME IInv, ended = "no", Release PROVE IInv'
<1>1. at \in Shutdown /\ released = done \cap GivenBack[at] /\ "context" \in done
  BY DEF IInv, Release, ShuttingDown
<1>2. /\ at' = ShutdownOrder[at] /\ ended' = "no" /\ done' = done
      /\ released' = released \cup ({Handle[at]} \cap done)
      /\ stop' = stop /\ saved' = saved
  BY DEF Release, Goto, NotNull
<1>3. at' \in Shutdown \cup {"exit"} /\ released' = done \cap GivenBack[at']
  BY <1>1, <1>2, GivenNext
<1>4. TypeOK'
  BY <1>1, <1>2, <1>3, GivenNext DEF IInv, TypeOK
<1>5. SettingUp' /\ Capturing'
  BY <1>3, Phases DEF SettingUp, Capturing
<1>6. ShuttingDown' /\ SavedDone' /\ Exited'
  BY <1>1, <1>2, <1>3 DEF IInv, ShuttingDown, SavedDone, Exited
<1> QED BY <1>4, <1>5, <1>6 DEF IInv

THEOREM Inductive == Spec => []IInv
<1>1. IInv /\ [Next]_vars => IInv'
  <2> SUFFICES ASSUME IInv, [Next]_vars PROVE IInv'
    OBVIOUS
  <2>1. TypeOK
    BY DEF IInv
  <2>2. ASSUME ended = "no", Abort \/ Exit PROVE IInv'
    BY <2>1, <2>2, StayStep DEF Abort, Exit, End, TypeOK
  <2>3. ASSUME Signal PROVE IInv'
    BY <2>1, <2>3, StayStep DEF Signal, TypeOK
  <2>4. CASE UNCHANGED vars
    BY <2>1, <2>4, StayStep DEF vars, TypeOK, IInv, Exited
  <2>5. ASSUME Main PROVE IInv'
    BY <2>2, <2>5, SucceedStep, RefusedStep, LoopStep, ReleaseStep DEF Main
  <2> QED BY <2>3, <2>4, <2>5 DEF Next
<1> QED BY <1>1, InitIInv, PTL DEF Spec

----------------------------------------------------------------------------
\* Every variable of the program keeps its type, and shutdown() gives back
\* nothing that was not acquired.
THEOREM IioTypeCorrect == Spec => []TypeOK
<1>1. IInv => TypeOK
  BY DEF IInv
<1> QED BY <1>1, Inductive, PTL

\* Whatever fails and whenever the signal comes, main() and shutdown() work
\* only on handles that are set and alive.
THEOREM IioUsedWhileLive == Spec => []UsedWhileLive
<1>1. IInv => UsedWhileLive
  <2> SUFFICES ASSUME IInv
               PROVE  /\ at \in DOMAIN Needs => Needs[at] \subseteq done \ released
                      /\ at \in Shutdown /\ Handle[at] \in done =>
                           {Handle[at], "context"} \subseteq done \ released
    BY DEF UsedWhileLive
  <2>1. CASE at \in SetUp
    BY <2>1, NeedsBefore, Phases DEF IInv, SettingUp
  <2>2. CASE at \in {"loop", "refill", "save"}
    <3>1. done = SetUp /\ released = {}
      BY <2>2 DEF IInv, Capturing
    <3>2. at \in DOMAIN Needs => Needs[at] \subseteq SetUp
      BY <2>2 DEF Needs, SetUp, SetUpOrder
    <3> QED BY <2>2, <3>1, <3>2, Phases
  <2>3. CASE at \in Shutdown
    <3>1. at \notin DOMAIN Needs
      BY <2>3 DEF Needs, Shutdown, ShutdownOrder
    <3> QED BY <2>3, <3>1, GivenNext DEF IInv, ShuttingDown
  <2>4. CASE at = "exit"
    <3>1. at \notin DOMAIN Needs
      BY <2>4 DEF Needs
    <3> QED BY <2>4, <3>1, Phases
  <2> QED BY <2>1, <2>2, <2>3, <2>4 DEF IInv, TypeOK
<1> QED BY <1>1, Inductive, PTL

\* A process that exits, after whatever failure, has given back all it
\* acquired.
THEOREM IioCleanExit == Spec => []CleanExit
<1>1. IInv => CleanExit
  BY DEF IInv, Exited, ShuttingDown, CleanExit, GivenBack
<1> QED BY <1>1, Inductive, PTL

\* No capture is taken with an attribute refused or a channel disabled.
THEOREM IioCaptureTuned == Spec => []CaptureTuned
<1>1. Attributes \cup {"enable_i", "enable_q"} \subseteq SetUp
  BY DEF Attributes, SetUp, SetUpOrder
<1>2. IInv => CaptureTuned
  BY <1>1 DEF IInv, SavedDone, Capturing, CaptureTuned
<1> QED BY <1>2, Inductive, PTL
============================================================================
