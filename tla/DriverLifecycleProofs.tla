----------------------- MODULE DriverLifecycleProofs -----------------------
(***************************************************************************)
(* Proofs about DriverLifecycle, for any number of processes.              *)
(*                                                                         *)
(* The invariant says, for every statement of probe, of its error labels   *)
(* and of remove, what may be held there; that only a bound driver has a   *)
(* character device; and that an open file that is not late is one of a    *)
(* driver that is bound and left alone.                                    *)
(***************************************************************************)
EXTENDS DriverLifecycle, TLAPS

\* What probe has acquired when it is about to acquire a thing, and what
\* the error labels and remove still have to release.
Acquired ==
  [region |-> {}, registers |-> {"region"}, chrdev |-> {"region", "registers"},
   class |-> {"region", "registers", "chrdev"},
   device |-> {"region", "registers", "chrdev", "class"},
   cdev |-> {"region", "registers", "chrdev", "class", "device"}]
ToUndo ==
  [chrdev |-> {"chrdev"}, class |-> {"class", "chrdev"},
   device |-> {"device", "class", "chrdev"}]
ToRemove ==
  [chrdev |-> {"chrdev"}, class |-> {"class", "chrdev"},
   device |-> {"device", "class", "chrdev"},
   cdev |-> {"cdev", "device", "class", "chrdev"},
   region |-> {"region", "cdev", "device", "class", "chrdev"},
   registers |-> Things]

HeldIdle == doing = "idle" => bound \/ held \subseteq Leak
HeldProbing == doing = "probe" => held \subseteq Acquired[at] \cup Leak
HeldUndoing ==
  doing = "undo" => at \in DOMAIN ToUndo /\ failed /\ held \subseteq ToUndo[at] \cup Leak
HeldRemoving == doing = "remove" => held \subseteq ToRemove[at]
HeldDead == doing = "dead" => "cdev" \notin held
Nested == "registers" \in held => "region" \in held
NothingTwice ==
  doing = "probe" /\ at = "registers" => "region" \in held /\ "registers" \notin held
WhenBound ==
  /\ bound => doing \in {"idle", "remove", "dead"}
  /\ doing = "remove" => bound
  /\ bound /\ doing = "idle" => baseband_registers
Mapped ==
  doing = "probe" /\ at \in {"chrdev", "class", "device", "cdev"} => baseband_registers
ModuleStates ==
  /\ module = "out" => doing = "idle" /\ ~bound
  /\ ~registered => doing = "idle" /\ ~bound
  /\ module = "coming" => doing # "remove"
Users ==
  \A p \in Procs : uses[p] # {} =>
    /\ module \in {"coming", "live"}
    /\ ~late[p] => bound /\ doing = "idle"

\* Everything but the processes' files.
DriverInv ==
  /\ TypeOK
  /\ HeldIdle /\ HeldProbing /\ HeldUndoing /\ HeldRemoving /\ HeldDead
  /\ Nested /\ NothingTwice
  /\ WhenBound /\ Mapped /\ ModuleStates

IInv == DriverInv /\ Users

\* The four orders map things to things, or to the end.
LEMMA Orders ==
  /\ \A t \in Things : ProbeOrder[t] \in Things \cup {"done"}
  /\ \A t \in Things : FailureLabel[t] \in DOMAIN ToUndo \cup {"done"}
  /\ \A t \in DOMAIN ToUndo : UndoOrder[t] \in DOMAIN ToUndo \cup {"done"}
  /\ \A t \in Things : RemoveOrder[t] \in Things \cup {"done"}
  /\ DOMAIN ToUndo \subseteq Things
BY DEF Things, ProbeOrder, FailureLabel, UndoOrder, RemoveOrder, ToUndo

\* What is released or acquired next is what the two tables say.
LEMMA Tables ==
  /\ \A t \in Things : ProbeOrder[t] # "done" =>
       Acquired[t] \cup {t} = Acquired[ProbeOrder[t]]
  /\ \A t \in {"class", "device"} : FailureLabel[t] # "done" /\
       Acquired[t] \subseteq ToUndo[FailureLabel[t]] \cup {"region", "registers"}
  /\ Acquired["cdev"] \subseteq ToUndo["device"] \cup {"region", "registers"}
  /\ Acquired["chrdev"] \subseteq {"region", "registers"}
  /\ \A t \in DOMAIN ToUndo : UndoOrder[t] # "done" =>
       ToUndo[t] \ {t} \subseteq ToUndo[UndoOrder[t]]
  /\ ToUndo["chrdev"] \ {"chrdev"} = {}
  /\ \A t \in Things : RemoveOrder[t] # "done" =>
       ToRemove[t] \ {t} \subseteq ToRemove[RemoveOrder[t]]
  /\ \A t \in Things : t \notin Acquired[t]
BY DEF Things, ProbeOrder, FailureLabel, UndoOrder, RemoveOrder, Acquired, ToUndo, ToRemove

LEMMA InitIInv == Init => IInv
BY DEF Init, IInv, DriverInv, TypeOK, HeldIdle, HeldProbing, HeldUndoing, HeldRemoving, HeldDead, Nested, NothingTwice, WhenBound, Mapped, ModuleStates, Leak, Users, Things

----------------------------------------------------------------------------
(* The steps of probe, of its error labels and of remove.                  *)

LEMMA AcquireStep == ASSUME DriverInv, Acquire PROVE DriverInv'
<1>1. at \in Things /\ doing = "probe" /\ held \subseteq Acquired[at] \cup Leak
  BY DEF DriverInv, Acquire, TypeOK, HeldProbing
<1>2. /\ at' = ProbeOrder[at]
      /\ doing' = IF at = "cdev" THEN "idle" ELSE "probe"
      /\ bound' = (at = "cdev")
      /\ held' = held \cup {at}
      /\ baseband_registers' = (baseband_registers \/ at = "registers")
      /\ UNCHANGED <<module, registered, failed, uses, late>>
  BY <1>1 DEF Acquire, ProbeOn, Continue, procVars, Things, ProbeOrder
<1>3. TypeOK'
  BY <1>1, <1>2 DEF DriverInv, TypeOK, Things, ProbeOrder
<1>4. HeldProbing'
  <2>1. Leak' = Leak
    BY <1>2 DEF Leak
  <2>2. SUFFICES ASSUME ProbeOrder[at] # "done"
                 PROVE held' \subseteq Acquired[ProbeOrder[at]] \cup Leak
    BY <1>1, <1>2, <2>1 DEF HeldProbing, Things, ProbeOrder
  <2> QED BY <1>1, <1>2, <2>2, Tables
<1>5. HeldIdle' /\ HeldUndoing' /\ HeldRemoving' /\ HeldDead'
  BY <1>2 DEF HeldIdle, HeldUndoing, HeldRemoving, HeldDead
<1>6. WhenBound'
  BY <1>1, <1>2 DEF DriverInv, WhenBound, Mapped
<1>7. Nested'
  BY <1>1, <1>2 DEF DriverInv, Nested, NothingTwice
<1>8. NothingTwice'
  BY <1>1, <1>2 DEF DriverInv, Acquire, Available, Nested, NothingTwice, Things, ProbeOrder
<1>9. Mapped'
  <2>1. CASE at \in {"region", "registers"}
    <3>1. at = "registers" => baseband_registers'
      BY <1>2, Zenon
    <3>2. at = "region" => at' = "registers"
      BY <1>2 DEF ProbeOrder
    <3> QED BY <2>1, <3>1, <3>2 DEF Mapped
  <2>2. CASE at \in {"chrdev", "class", "device", "cdev"}
    BY <1>1, <1>2, <2>2 DEF DriverInv, Mapped
  <2> QED BY <1>1, <2>1, <2>2 DEF Things
<1>10. ModuleStates'
  BY <1>1, <1>2 DEF DriverInv, ModuleStates
<1> QED BY <1>3, <1>4, <1>5, <1>6, <1>7, <1>8, <1>9, <1>10 DEF DriverInv

LEMMA FailUnnoticedStep == ASSUME DriverInv, FailUnnoticed PROVE DriverInv'
<1>1. /\ at \in {"class", "device", "cdev"}
      /\ doing = "probe" /\ held \subseteq Acquired[at] \cup Leak
  BY DEF DriverInv, FailUnnoticed, HeldProbing
<1>2. /\ at' = ProbeOrder[at]
      /\ at' \in {"device", "cdev", "done"}
      /\ doing' = IF at = "cdev" THEN "idle" ELSE "probe"
      /\ bound' = (at = "cdev")
      /\ UNCHANGED <<held, baseband_registers, module, registered, failed, uses, late>>
  BY <1>1 DEF FailUnnoticed, ProbeOn, Continue, procVars, ProbeOrder
<1>3. TypeOK'
  BY <1>1, <1>2 DEF DriverInv, TypeOK, Things, ProbeOrder
<1>4. HeldProbing'
  <2>1. Leak' = Leak
    BY <1>2 DEF Leak
  <2>2. SUFFICES ASSUME ProbeOrder[at] # "done"
                 PROVE held' \subseteq Acquired[ProbeOrder[at]] \cup Leak
    BY <1>1, <1>2, <2>1 DEF HeldProbing, ProbeOrder
  <2> QED BY <1>1, <1>2, <2>2, Tables DEF Things
<1>5. HeldIdle' /\ HeldUndoing' /\ HeldRemoving' /\ HeldDead'
  BY <1>2 DEF HeldIdle, HeldUndoing, HeldRemoving, HeldDead
<1>6. WhenBound' /\ Mapped'
  BY <1>1, <1>2 DEF DriverInv, WhenBound, Mapped
<1>7. Nested' /\ NothingTwice'
  BY <1>2 DEF DriverInv, Nested, NothingTwice
<1>8. ModuleStates'
  BY <1>1, <1>2 DEF DriverInv, ModuleStates
<1> QED BY <1>3, <1>4, <1>5, <1>6, <1>7, <1>8 DEF DriverInv

LEMMA FailNoticedStep == ASSUME DriverInv, FailNoticed PROVE DriverInv'
<1>1. /\ at \in Things /\ doing = "probe" /\ ~bound
      /\ held \subseteq Acquired[at] \cup Leak
  BY DEF DriverInv, FailNoticed, TypeOK, HeldProbing, WhenBound
<1>2. /\ at' = FailureLabel[at]
      /\ doing' = IF at \in {"region", "registers", "chrdev"} THEN "idle" ELSE "undo"
      /\ failed' = (failed \/ at # "region")
      /\ UNCHANGED <<held, bound, module, registered, uses, late>>
  BY <1>1 DEF FailNoticed, procVars, Things, FailureLabel
<1>3. TypeOK'
  BY <1>1, <1>2, Orders DEF DriverInv, TypeOK, FailNoticed, Things, FailureLabel
<1>4. HeldIdle'
  <2>1. CASE at = "region"
    <3>1. Leak' = Leak /\ held' \subseteq Leak
      BY <1>1, <1>2, <2>1 DEF Leak, Acquired
    <3> QED BY <3>1 DEF HeldIdle
  <2>2. CASE at \in {"registers", "chrdev"}
    <3>1. Leak' = {"region", "registers"} /\ Leak \subseteq Leak'
      BY <1>2, <2>2 DEF Leak
    <3>2. Acquired[at] \subseteq Leak'
      BY <2>2, <3>1 DEF Acquired
    <3> QED BY <1>1, <1>2, <3>1, <3>2 DEF HeldIdle
  <2> QED BY <1>1, <1>2, <2>1, <2>2 DEF HeldIdle, Things
<1>5. HeldUndoing'
  <2>1. CASE at \in {"class", "device", "cdev"}
    <3>1. Leak' = {"region", "registers"} /\ Leak \subseteq Leak' /\ failed'
      BY <1>2, <2>1 DEF Leak
    <3>2. at' \in DOMAIN ToUndo
      BY <1>2, <2>1 DEF FailureLabel, ToUndo
    <3>3. Acquired[at] \subseteq ToUndo[at'] \cup Leak'
      BY <1>2, <2>1, <3>1 DEF FailureLabel, ToUndo, Acquired
    <3> QED BY <1>1, <1>2, <3>1, <3>2, <3>3 DEF HeldUndoing
  <2> QED BY <1>1, <1>2, <2>1 DEF HeldUndoing, Things
<1>6. HeldProbing' /\ HeldRemoving' /\ HeldDead' /\ WhenBound' /\ Mapped' /\ NothingTwice'
  BY <1>1, <1>2 DEF HeldProbing, HeldRemoving, HeldDead, WhenBound, Mapped, NothingTwice
<1>7. Nested' /\ ModuleStates'
  BY <1>1, <1>2 DEF DriverInv, Nested, ModuleStates
<1> QED BY <1>3, <1>4, <1>5, <1>6, <1>7 DEF DriverInv

LEMMA UndoStep == ASSUME DriverInv, Undo PROVE DriverInv'
<1>1. /\ at \in DOMAIN ToUndo /\ doing = "undo" /\ failed /\ ~bound
      /\ held \subseteq ToUndo[at] \cup Leak
  BY DEF DriverInv, Undo, HeldUndoing, WhenBound
<1>2. /\ at' = UndoOrder[at]
      /\ doing' = IF at = "chrdev" THEN "idle" ELSE "undo"
      /\ held' = held \ {at}
      /\ UNCHANGED <<baseband_registers, failed, bound, module, registered, uses, late>>
  BY <1>1 DEF Undo, Continue, procVars, ToUndo, UndoOrder
<1>3. Leak' = Leak
  BY <1>2 DEF Leak
<1>4. TypeOK'
  BY <1>1, <1>2, Orders DEF DriverInv, TypeOK, Things, ToUndo, UndoOrder
<1>5. HeldIdle'
  BY <1>1, <1>2, <1>3, Tables DEF HeldIdle
<1>6. HeldUndoing'
  BY <1>1, <1>2, <1>3 DEF HeldUndoing, ToUndo, UndoOrder
<1>7. HeldProbing' /\ HeldRemoving' /\ HeldDead' /\ WhenBound' /\ Mapped' /\ NothingTwice'
  BY <1>1, <1>2 DEF HeldProbing, HeldRemoving, HeldDead, WhenBound, Mapped, NothingTwice
<1>8. Nested'
  BY <1>1, <1>2 DEF DriverInv, Nested, ToUndo
<1>9. ModuleStates'
  BY <1>1, <1>2 DEF DriverInv, ModuleStates
<1> QED BY <1>4, <1>5, <1>6, <1>7, <1>8, <1>9 DEF DriverInv

LEMMA RemoveStep == ASSUME DriverInv, Remove PROVE DriverInv'
<1>1. at \in Things /\ doing = "remove" /\ bound /\ held \subseteq ToRemove[at]
  BY DEF DriverInv, Remove, TypeOK, HeldRemoving, WhenBound
<1>2. /\ at' = RemoveOrder[at]
      /\ doing' = IF at = "chrdev" THEN "idle" ELSE "remove"
      /\ bound' = (at # "chrdev")
      /\ held' = held \ {at}
      /\ UNCHANGED <<failed, module, registered, uses, late>>
  BY <1>1 DEF Remove, Continue, procVars, Things, RemoveOrder
<1>3. TypeOK'
  BY <1>1, <1>2, Orders DEF DriverInv, TypeOK, Remove, Things, RemoveOrder
<1>4. HeldIdle'
  BY <1>1, <1>2 DEF HeldIdle, ToRemove
<1>5. HeldRemoving'
  BY <1>1, <1>2, Tables DEF HeldRemoving, Things, RemoveOrder
<1>6. HeldProbing' /\ HeldUndoing' /\ HeldDead' /\ WhenBound' /\ Mapped' /\ NothingTwice'
  BY <1>1, <1>2 DEF HeldProbing, HeldUndoing, HeldDead, WhenBound, Mapped, NothingTwice
<1>7. Nested'
  BY <1>1, <1>2 DEF DriverInv, Nested, ToRemove
<1>8. ModuleStates'
  BY <1>1, <1>2 DEF DriverInv, ModuleStates
<1> QED BY <1>3, <1>4, <1>5, <1>6, <1>7, <1>8 DEF DriverInv

LEMMA DieStep == ASSUME DriverInv, Die PROVE DriverInv'
<1>1. /\ at = "device" /\ doing \in {"undo", "remove"} /\ "cdev" \notin held
      /\ doing' = "dead" /\ at' = "done"
      /\ UNCHANGED <<held, bound, baseband_registers, failed, module, registered, uses, late>>
  BY DEF DriverInv, Die, Survives, Begin, procVars, HeldUndoing, HeldRemoving, ToUndo, ToRemove, Leak
<1>2. TypeOK'
  BY <1>1 DEF DriverInv, TypeOK, Things
<1>3. HeldIdle' /\ HeldProbing' /\ HeldUndoing' /\ HeldRemoving' /\ HeldDead'
  BY <1>1 DEF HeldIdle, HeldProbing, HeldUndoing, HeldRemoving, HeldDead
<1>4. Nested' /\ NothingTwice' /\ WhenBound' /\ Mapped' /\ ModuleStates'
  BY <1>1 DEF DriverInv, Nested, NothingTwice, WhenBound, Mapped, ModuleStates
<1> QED BY <1>2, <1>3, <1>4 DEF DriverInv

LEMMA DriverStep ==
  ASSUME DriverInv, Driver
  PROVE  DriverInv' /\ UNCHANGED <<module, uses, late>>
<1>1. DriverInv'
  BY AcquireStep, FailUnnoticedStep, FailNoticedStep, UndoStep, RemoveStep, DieStep DEF Driver
<1>2. UNCHANGED <<module, uses, late>>
  BY DEF Driver, Acquire, FailUnnoticed, FailNoticed, Undo, Remove, Die, ProbeOn, procVars
<1> QED BY <1>1, <1>2

----------------------------------------------------------------------------
(* The steps of the module and of the processes.                           *)

\* A step that begins a probe or a removal of a device left alone.
LEMMA BeginStep ==
  ASSUME DriverInv, doing = "idle", registered', module' \in {"coming", "live", "going"},
         UNCHANGED <<bound, held, baseband_registers, failed>>,
         registered' \in BOOLEAN, uses' \in [Procs -> SUBSET {"fd", "vma", "call"}],
         late' \in [Procs -> BOOLEAN],
         \/ ~bound /\ Begin("probe", "region")
         \/ bound /\ module' # "coming" /\ Begin("remove", "registers")
  PROVE  DriverInv'
<1>1. Leak' = Leak
  BY DEF Leak
<1>2. CASE ~bound /\ Begin("probe", "region")
  <2>1. TypeOK' /\ HeldProbing'
    BY <1>1, <1>2 DEF DriverInv, TypeOK, Begin, Things, HeldIdle, HeldProbing, Acquired
  <2>2. HeldIdle' /\ HeldUndoing' /\ HeldRemoving' /\ HeldDead' /\ NothingTwice' /\ Mapped'
    BY <1>2 DEF Begin, HeldIdle, HeldUndoing, HeldRemoving, HeldDead, NothingTwice, Mapped
  <2>3. Nested' /\ WhenBound' /\ ModuleStates'
    BY <1>2 DEF DriverInv, Begin, Nested, WhenBound, ModuleStates
  <2> QED BY <2>1, <2>2, <2>3 DEF DriverInv
<1>3. CASE bound /\ module' # "coming" /\ Begin("remove", "registers")
  <2>1. TypeOK' /\ HeldRemoving'
    BY <1>3 DEF DriverInv, TypeOK, Begin, Things, HeldRemoving, ToRemove
  <2>2. HeldIdle' /\ HeldProbing' /\ HeldUndoing' /\ HeldDead' /\ NothingTwice' /\ Mapped'
    BY <1>3 DEF Begin, HeldIdle, HeldProbing, HeldUndoing, HeldDead, NothingTwice, Mapped
  <2>3. Nested' /\ WhenBound' /\ ModuleStates'
    BY <1>3 DEF DriverInv, Begin, Nested, WhenBound, ModuleStates
  <2> QED BY <2>1, <2>2, <2>3 DEF DriverInv
<1> QED BY <1>2, <1>3

\* A step that leaves the device alone and loads no module.
LEMMA ApartStep ==
  ASSUME DriverInv, UNCHANGED driverVars,
         module' \in {"out", "coming", "live", "going"}, registered' \in BOOLEAN,
         uses' \in [Procs -> SUBSET {"fd", "vma", "call"}], late' \in [Procs -> BOOLEAN],
         ModuleStates'
  PROVE  DriverInv'
<1>1. Leak' = Leak
  BY DEF Leak, driverVars
<1>2. TypeOK' /\ HeldIdle' /\ HeldProbing' /\ HeldUndoing' /\ HeldRemoving'
  BY <1>1 DEF DriverInv, TypeOK, driverVars, HeldIdle, HeldProbing, HeldUndoing, HeldRemoving
<1>3. HeldDead' /\ Nested' /\ NothingTwice' /\ WhenBound' /\ Mapped'
  BY DEF DriverInv, driverVars, HeldDead, Nested, NothingTwice, WhenBound, Mapped
<1> QED BY <1>2, <1>3 DEF DriverInv

LEMMA InsmodStep == ASSUME DriverInv, Insmod PROVE DriverInv'
<1>1. doing = "idle" /\ ~bound /\ Leak' = Leak
  BY DEF DriverInv, Insmod, ModuleStates, Leak
<1>2. TypeOK' /\ HeldIdle'
  BY <1>1 DEF DriverInv, TypeOK, Insmod, procVars, HeldIdle
<1>3. /\ HeldProbing' /\ HeldUndoing' /\ HeldRemoving' /\ HeldDead'
      /\ NothingTwice' /\ WhenBound' /\ Mapped'
  BY <1>1 DEF Insmod, HeldProbing, HeldUndoing, HeldRemoving, HeldDead, NothingTwice, WhenBound, Mapped
<1>4. Nested' /\ ModuleStates'
  BY <1>1 DEF DriverInv, Insmod, Nested, ModuleStates
<1> QED BY <1>2, <1>3, <1>4 DEF DriverInv

LEMMA ModuleStep == ASSUME DriverInv, Module PROVE DriverInv'
<1>1. CASE Insmod
  BY <1>1, InsmodStep
<1>2. CASE Register \/ Bind \/ Unbind \/ Unregister
  <2>1. TypeOK /\ ModuleStates
    BY DEF DriverInv
  <2>2. CASE Register
    <3>1. doing = "idle" /\ ~bound
      BY <2>1, <2>2 DEF Register, ModuleStates
    <3> QED BY <2>1, <2>2, <3>1, BeginStep DEF Register, TypeOK, procVars
  <2>3. CASE Bind
    BY <2>1, <2>3, BeginStep DEF Bind, TypeOK, procVars
  <2>4. CASE Unbind
    <3>1. registered
      BY <2>1, <2>4 DEF Unbind, ModuleStates
    <3>2. late' \in [Procs -> BOOLEAN]
      BY <2>1, <2>4 DEF Unbind, TypeOK
    <3> QED BY <2>1, <2>4, <3>1, <3>2, BeginStep DEF Unbind, TypeOK
  <2>5. CASE Unregister
    <3>1. registered
      BY <2>1, <2>5 DEF Unregister, ModuleStates
    <3> QED BY <2>1, <2>5, <3>1, BeginStep DEF Unregister, TypeOK, procVars
  <2> QED BY <1>2, <2>2, <2>3, <2>4, <2>5
<1>3. CASE InitReturns \/ Rmmod \/ Unload
  <2>1. TypeOK /\ ModuleStates
    BY DEF DriverInv
  <2>2. /\ UNCHANGED <<driverVars, uses, late>>
        /\ module' \in {"out", "coming", "live", "going"} /\ registered' \in BOOLEAN
    BY <1>3, <2>1 DEF InitReturns, Rmmod, Unload, TypeOK, procVars
  <2>3. ModuleStates'
    BY <1>3, <2>1 DEF InitReturns, Rmmod, Unload, ModuleStates, driverVars
  <2> QED BY <2>1, <2>2, <2>3, ApartStep DEF TypeOK
<1> QED BY <1>1, <1>2, <1>3 DEF Module

LEMMA ProcessStep == ASSUME DriverInv, NEW p \in Procs, Process(p) PROVE DriverInv'
<1>1. TypeOK /\ ModuleStates
  BY DEF DriverInv
<1>2. UNCHANGED <<module, registered, driverVars>>
  BY DEF Process, Open, Call, Return, Oops, Close
<1>3. uses' \in [Procs -> SUBSET {"fd", "vma", "call"}]
  BY <1>1 DEF Process, Open, Call, Return, Oops, Close, Use, TypeOK
<1>4. late' \in [Procs -> BOOLEAN]
  <2>1. CASE Open(p)
    <3>1. ((late[p] /\ uses[p] # {}) \/ doing = "remove") \in BOOLEAN
      OBVIOUS
    <3> QED BY <1>1, <2>1, <3>1 DEF Open, TypeOK
  <2> QED BY <1>1, <2>1 DEF Process, Call, Return, Oops, Close, TypeOK
<1>5. ModuleStates'
  BY <1>1, <1>2 DEF ModuleStates, driverVars
<1> QED BY <1>1, <1>2, <1>3, <1>4, <1>5, ApartStep DEF TypeOK

----------------------------------------------------------------------------
(* Open files.                                                             *)

LEMMA CdevMeansBound ==
  ASSUME DriverInv, "cdev" \in held
  PROVE  bound /\ doing \in {"idle", "remove"} /\ module # "out"
<1>1. doing # "probe"
  BY DEF DriverInv, TypeOK, HeldProbing, Acquired, Leak, Things
<1>2. doing # "undo"
  BY DEF DriverInv, HeldUndoing, ToUndo, Leak
<1>3. doing # "dead"
  BY DEF DriverInv, HeldDead
<1>4. doing = "idle" => bound
  BY DEF DriverInv, HeldIdle, Leak
<1> QED BY <1>1, <1>2, <1>3, <1>4 DEF DriverInv, TypeOK, WhenBound, ModuleStates

\* A step that leaves the files as they are may end a probe, a removal or
\* the wait of InitReturns, but touches no bound device that has open files.
LEMMA UsersDriver ==
  ASSUME IInv, Driver PROVE Users'
<1>1. doing # "idle"
  BY DEF Driver, Acquire, FailUnnoticed, FailNoticed, Undo, Remove, Die
<1>2. UNCHANGED <<module, uses, late>>
  BY DriverStep DEF IInv
<1> QED BY <1>1, <1>2 DEF IInv, Users

LEMMA UsersModule ==
  ASSUME IInv, Module PROVE Users'
<1>1. Users /\ ModuleStates
  BY DEF IInv, DriverInv
<1>2. CASE Insmod \/ Unload \/ Unregister
  BY <1>1, <1>2 DEF Insmod, Unload, Unregister, procVars, Users
<1>3. CASE Register \/ Bind
  BY <1>1, <1>3 DEF Register, Bind, procVars, Users, ModuleStates
<1>4. CASE InitReturns
  BY <1>1, <1>4 DEF InitReturns, procVars, driverVars, Users
<1>5. CASE Rmmod
  BY <1>1, <1>5 DEF Rmmod, Pins, procVars, Users
<1>6. CASE Unbind
  BY <1>1, <1>6 DEF Unbind, Users
<1> QED BY <1>2, <1>3, <1>4, <1>5, <1>6 DEF Module

LEMMA UsersProcess ==
  ASSUME IInv, NEW p \in Procs, Process(p) PROVE Users'
<1>1. Users /\ TypeOK
  BY DEF IInv, DriverInv
<1>2. UNCHANGED <<module, bound, doing>>
  BY DEF Process, Open, Call, Return, Oops, Close, driverVars
<1>3. ASSUME NEW q \in Procs, uses'[q] # {}
      PROVE  module \in {"coming", "live"} /\ (~late'[q] => bound /\ doing = "idle")
  <2>1. CASE Open(p)
    <3>1. bound /\ doing \in {"idle", "remove"} /\ module \in {"coming", "live"}
      BY <1>1, <2>1, CdevMeansBound DEF IInv, Open, TypeOK
    <3>2. late'[p] = ((late[p] /\ uses[p] # {}) \/ doing = "remove")
      BY <1>1, <2>1 DEF Open, TypeOK
    <3>3. q # p => uses'[q] = uses[q] /\ late'[q] = late[q]
      BY <1>1, <2>1 DEF Open, Use, TypeOK
    <3>4. CASE q = p
      BY <3>1, <3>2, <3>4
    <3>5. CASE q # p
      BY <1>1, <1>3, <3>3, <3>5 DEF Users
    <3> QED BY <3>4, <3>5
  <2>2. CASE Call(p) \/ Return(p) \/ Oops(p) \/ Close(p)
    <3>1. late' = late /\ uses[q] # {}
      BY <1>1, <1>3, <2>2 DEF Call, Return, Oops, Close, Use, TypeOK
    <3> QED BY <1>1, <3>1 DEF Users
  <2> QED BY <2>1, <2>2 DEF Process
<1> QED BY <1>2, <1>3 DEF Users

LEMMA StutterStep ==
  ASSUME IInv, UNCHANGED vars PROVE IInv'
<1>1. /\ module' = module /\ registered' = registered /\ UNCHANGED driverVars
      /\ uses' = uses /\ late' = late
  BY DEF vars, procVars
<1>2. TypeOK /\ ModuleStates /\ Users
  BY DEF IInv, DriverInv
<1>3. DriverInv'
  BY <1>1, <1>2, ApartStep DEF IInv, TypeOK, ModuleStates, driverVars
<1>4. Users'
  BY <1>1, <1>2 DEF Users, driverVars
<1> QED BY <1>3, <1>4 DEF IInv

THEOREM Inductive == Spec => []IInv
<1>1. IInv /\ [Next]_vars => IInv'
  <2>1. ASSUME IInv, Driver PROVE IInv'
    BY <2>1, DriverStep, UsersDriver DEF IInv
  <2>2. ASSUME IInv, Module PROVE IInv'
    BY <2>2, ModuleStep, UsersModule DEF IInv
  <2>3. ASSUME IInv, NEW p \in Procs, Process(p) PROVE IInv'
    BY <2>3, ProcessStep, UsersProcess DEF IInv
  <2> QED BY <2>1, <2>2, <2>3, StutterStep DEF Next
<1> QED BY <1>1, InitIInv, PTL DEF Spec

----------------------------------------------------------------------------
\* Every variable of module, driver and processes keeps its type.
THEOREM LifecycleTypeCorrect == Spec => []TypeOK
<1>1. IInv => TypeOK
  BY DEF IInv, DriverInv
<1> QED BY <1>1, Inductive, PTL

\* However processes open, map and close the device while the module is
\* loaded, probed and unloaded, a call finds no registers only if the driver
\* was unbound by hand under its file.
THEOREM LifecycleRegistersMapped == Spec => []RegistersMapped
<1>1. IInv => RegistersMapped
  <2> SUFFICES ASSUME IInv, NEW p \in Procs, "call" \in uses[p], ~late[p]
               PROVE  baseband_registers
    BY DEF RegistersMapped
  <2>1. bound /\ doing = "idle"
    BY DEF IInv, Users
  <2> QED BY <2>1 DEF IInv, DriverInv, WhenBound
<1> QED BY <1>1, Inductive, PTL

\* No module is unloaded under a call, a file, a mapping, a probe or a
\* removal.
THEOREM LifecycleModuleInUse == Spec => []ModuleInUse
<1>1. IInv => ModuleInUse
  BY DEF IInv, DriverInv, ModuleStates, Users, ModuleInUse
<1> QED BY <1>1, Inductive, PTL

\* At whatever statements probes failed, noticed or not, an unbound device
\* holds at most the region and the mapping a failed probe leaves behind.
THEOREM LifecycleAllReleased == Spec => []AllReleased
<1>1. IInv => AllReleased
  BY DEF IInv, DriverInv, HeldIdle, AllReleased
<1> QED BY <1>1, Inductive, PTL

\* probe never overwrites the handle of something still held.
THEOREM LifecycleAcquiredOnce == Spec => []AcquiredOnce
<1>1. IInv => AcquiredOnce
  <2> SUFFICES ASSUME IInv, doing = "probe", at # "region"
               PROVE  at \notin held
    BY DEF AcquiredOnce
  <2>1. at \in Things /\ held \subseteq Acquired[at] \cup Leak
    BY DEF IInv, DriverInv, TypeOK, HeldProbing
  <2>2. at \notin Acquired[at]
    BY <2>1, Tables
  <2>3. CASE at = "registers"
    BY <2>3 DEF IInv, DriverInv, NothingTwice
  <2>4. CASE at # "registers"
    BY <2>1, <2>2, <2>4 DEF Leak
  <2> QED BY <2>3, <2>4
<1> QED BY <1>1, Inductive, PTL
============================================================================
