-------------------------- MODULE DriverLifecycle --------------------------
(***************************************************************************)
(* Loading, probing, removing and unloading the kernel driver              *)
(* boot/baseband/baseband.c, while processes open its device, call it, map *)
(* it and close it.                                                        *)
(*                                                                         *)
(* probe acquires six things one after the other, remove releases them,    *)
(* and probe's error labels release some of them; doing and at say which   *)
(* of the three is going on and which thing is its next.  The kernel does  *)
(* one of them at a time (the device is locked).  Everything the driver    *)
(* asks of the kernel may fail.                                            *)
(***************************************************************************)
CONSTANT Procs  \* processes that use /dev/baseband

Things == {"region", "registers", "chrdev", "class", "device", "cdev"}

VARIABLES
  module,              \* the module: not loaded, in its init, live, going
  registered,          \* platform_driver_register succeeded
  bound,               \* probe returned 0 and remove has not returned since
  doing,               \* what the driver is doing to the device
  at,                  \* the thing doing is about
  held,                \* the things acquired and not released
  baseband_registers,  \* the pointer to the registers is not NULL
  failed,              \* some probe failed after request_mem_region
  uses,                \* per process: its descriptor, mapping, call in progress
  late                 \* per process: unbound by hand under its open file

driverVars == <<bound, doing, at, held, baseband_registers, failed>>
procVars == <<uses, late>>
vars == <<module, registered, driverVars, procVars>>

TypeOK ==
  /\ module \in {"out", "coming", "live", "going"}
  /\ registered \in BOOLEAN
  /\ bound \in BOOLEAN
  /\ doing \in {"idle", "probe", "undo", "remove", "dead"}
  /\ at \in Things \cup {"done"}
  /\ doing \in {"probe", "undo", "remove"} <=> at \in Things
  /\ held \subseteq Things
  /\ baseband_registers \in BOOLEAN
  /\ failed \in BOOLEAN
  /\ uses \in [Procs -> SUBSET {"fd", "vma", "call"}]
  /\ late \in [Procs -> BOOLEAN]

Init ==
  /\ module = "out"
  /\ registered = FALSE
  /\ bound = FALSE
  /\ doing = "idle"
  /\ at = "done"
  /\ held = {}
  /\ baseband_registers = FALSE
  /\ failed = FALSE
  /\ uses = [p \in Procs |-> {}]
  /\ late = [p \in Procs |-> FALSE]

----------------------------------------------------------------------------
(* Slips for the mutation checks, used by no specification.                *)

OwnerForgotten(p) == FALSE
ContinuePastEnd(next) == at' = next /\ UNCHANGED doing
CdevAddedFirst ==
  [region |-> "cdev", cdev |-> "registers", registers |-> "chrdev",
   chrdev |-> "class", class |-> "device", device |-> "done"]
LabelTooLow ==
  [region |-> "done", registers |-> "done", chrdev |-> "done",
   class |-> "done", device |-> "chrdev", cdev |-> "class"]
RemoveStopsEarly ==
  [registers |-> "region", region |-> "cdev", cdev |-> "device",
   device |-> "class", class |-> "done", chrdev |-> "done"]

----------------------------------------------------------------------------
(* The order of the statements: what probe acquires after a thing, where   *)
(* it begins to release when a thing cannot be had, what the error labels  *)
(* release after a thing, and what remove does.                            *)

ProbeOrder ==
  [region |-> "registers", registers |-> "chrdev", chrdev |-> "class",
   class |-> "device", device |-> "cdev", cdev |-> "done"]
FailureLabel ==
  [region |-> "done", registers |-> "done", chrdev |-> "done",
   class |-> "chrdev", device |-> "class", cdev |-> "device"]
UndoOrder == [device |-> "class", class |-> "chrdev", chrdev |-> "done"]
RemoveOrder ==
  [registers |-> "region", region |-> "cdev", cdev |-> "device",
   device |-> "class", class |-> "chrdev", chrdev |-> "done"]

\* An open file, a mapping and a call in progress each keep a reference on
\* the module, because baseband_fops names its owner.
Pins(p) == uses[p] # {}

Begin(what, first) == doing' = what /\ at' = first

\* The next statement of what is going on, or its end.
Continue(next) ==
  /\ at' = next
  /\ doing' = IF next = "done" THEN "idle" ELSE doing

----------------------------------------------------------------------------
(* probe, its error labels, and remove.                                    *)

\* A region is exclusive, and a device needs a class that is one.
Available ==
  /\ at = "region" => "region" \notin held
  /\ at = "device" => "class" \in held

ProbeOn ==
  /\ Continue(ProbeOrder[at])
  /\ bound' = (ProbeOrder[at] = "done")
  /\ UNCHANGED <<module, registered, failed, procVars>>

Acquire ==
  /\ doing = "probe"
  /\ Available
  /\ held' = held \cup {at}
  /\ baseband_registers' = (baseband_registers \/ at = "registers")
  /\ ProbeOn

\* class_create, device_create and cdev_add report a failure by a value
\* that probe does not test for, and probe goes on.
FailUnnoticed ==
  /\ doing = "probe"
  /\ at \in {"class", "device", "cdev"}
  /\ UNCHANGED <<held, baseband_registers>>
  /\ ProbeOn

\* No match and no resource have the effect of no region: nothing to undo.
FailNoticed ==
  /\ doing = "probe"
  /\ at = "device" => "class" \in held
  /\ failed' = (failed \/ at # "region")
  /\ baseband_registers' = (baseband_registers /\ at # "registers")
  /\ at' = FailureLabel[at]
  /\ doing' = IF FailureLabel[at] = "done" THEN "idle" ELSE "undo"
  /\ UNCHANGED <<module, registered, bound, held, procVars>>

\* device_destroy of a class that is an error pointer kills the caller.
Survives == at = "device" => "class" \in held

Undo ==
  /\ doing = "undo"
  /\ Survives
  /\ held' = held \ {at}
  /\ Continue(UndoOrder[at])
  /\ UNCHANGED <<module, registered, bound, baseband_registers, failed, procVars>>

Remove ==
  /\ doing = "remove"
  /\ Survives
  /\ held' = held \ {at}
  /\ baseband_registers' = (baseband_registers /\ at # "registers")
  /\ Continue(RemoveOrder[at])
  /\ bound' = (RemoveOrder[at] # "done")
  /\ UNCHANGED <<module, registered, failed, procVars>>

Die ==
  /\ doing \in {"undo", "remove"}
  /\ ~Survives
  /\ Begin("dead", "done")
  /\ UNCHANGED <<module, registered, bound, held, baseband_registers, failed, procVars>>

----------------------------------------------------------------------------
(* The module.  Loading it sets its static variables; what a failed probe  *)
(* of an earlier load left acquired stays acquired.                        *)

Insmod ==
  /\ module = "out"
  /\ module' = "coming"
  /\ baseband_registers' = FALSE
  /\ UNCHANGED <<registered, bound, doing, at, held, failed, procVars>>

\* baseband_init ignores the result of platform_driver_register, and so
\* returns 0 whether or not the driver is registered and the probe worked.
Register ==
  /\ module = "coming"
  /\ ~registered
  /\ registered' = TRUE
  /\ Begin("probe", "region")
  /\ UNCHANGED <<module, bound, held, baseband_registers, failed, procVars>>

InitReturns ==
  /\ module = "coming"
  /\ doing = "idle"
  /\ module' = "live"
  /\ UNCHANGED <<registered, driverVars, procVars>>

\* Bind and Unbind: by hand, through the driver's directory in sysfs.
Bind ==
  /\ module = "live"
  /\ registered
  /\ doing = "idle"
  /\ ~bound
  /\ Begin("probe", "region")
  /\ UNCHANGED <<module, registered, bound, held, baseband_registers, failed, procVars>>

Unbind ==
  /\ module = "live"
  /\ doing = "idle"
  /\ bound
  /\ Begin("remove", "registers")
  /\ late' = [p \in Procs |-> late[p] \/ uses[p] # {}]
  /\ UNCHANGED <<module, registered, bound, held, baseband_registers, failed, uses>>

\* rmmod is refused while the module is referenced; from here on no open
\* succeeds.
Rmmod ==
  /\ module = "live"
  /\ \A p \in Procs : ~Pins(p)
  /\ module' = "going"
  /\ UNCHANGED <<registered, driverVars, procVars>>

\* platform_driver_unregister removes the driver from its device.
Unregister ==
  /\ module = "going"
  /\ doing = "idle"
  /\ bound
  /\ Begin("remove", "registers")
  /\ UNCHANGED <<module, registered, bound, held, baseband_registers, failed, procVars>>

Unload ==
  /\ module = "going"
  /\ doing = "idle"
  /\ ~bound
  /\ module' = "out"
  /\ registered' = FALSE
  /\ UNCHANGED <<driverVars, procVars>>

----------------------------------------------------------------------------
(* Processes.                                                              *)

Use(p, u) == uses' = [uses EXCEPT ![p] = u]

\* A file opened while remove is at work is late from the start.
Open(p) ==
  /\ "cdev" \in held
  /\ module # "going"
  /\ "fd" \notin uses[p]
  /\ Use(p, uses[p] \cup {"fd"})
  /\ late' = [late EXCEPT ![p] = (@ /\ uses[p] # {}) \/ doing = "remove"]
  /\ UNCHANGED <<module, registered, driverVars>>

Call(p) ==
  /\ "fd" \in uses[p]
  /\ "call" \notin uses[p]
  /\ Use(p, uses[p] \cup {"call"})
  /\ UNCHANGED <<module, registered, driverVars, late>>

\* A call that returns has found the registers; mmap leaves a mapping.
Return(p) ==
  /\ "call" \in uses[p]
  /\ baseband_registers
  /\ \E kept \in {{}, {"vma"}} : Use(p, (uses[p] \ {"call"}) \cup kept)
  /\ UNCHANGED <<module, registered, driverVars, late>>

\* One that finds no registers kills its process.
Oops(p) ==
  /\ "call" \in uses[p]
  /\ ~baseband_registers
  /\ Use(p, {})
  /\ UNCHANGED <<module, registered, driverVars, late>>

\* close (of a descriptor, under a call of another thread too) and munmap.
Close(p) ==
  /\ \E u \in uses[p] \cap {"fd", "vma"} : Use(p, uses[p] \ {u})
  /\ UNCHANGED <<module, registered, driverVars, late>>

----------------------------------------------------------------------------
Driver == Acquire \/ FailUnnoticed \/ FailNoticed \/ Undo \/ Remove \/ Die
Module ==
  Insmod \/ Register \/ InitReturns \/ Bind \/ Unbind \/ Rmmod \/ Unregister \/ Unload
Process(p) == Open(p) \/ Call(p) \/ Return(p) \/ Oops(p) \/ Close(p)

Next == Driver \/ Module \/ \E p \in Procs : Process(p)

Spec == Init /\ [][Next]_vars

----------------------------------------------------------------------------
(* Properties.                                                             *)

\* A call finds the registers mapped, unless its file was open, or opened,
\* when the driver was unbound by hand: rmmod, a failed probe or a probe
\* still going on never leave a call without them.
RegistersMapped ==
  \A p \in Procs : "call" \in uses[p] /\ ~late[p] => baseband_registers

\* The module is not unloaded while a call runs in it, while a file or a
\* mapping may lead into it, or while probe or remove are at work.
ModuleInUse ==
  module = "out" => doing = "idle" /\ \A p \in Procs : uses[p] = {}

\* A device that is not bound holds nothing, except that a failed probe
\* leaves the memory region reserved and the registers mapped.
Leak == IF failed THEN {"region", "registers"} ELSE {}
AllReleased == doing = "idle" /\ ~bound => held \subseteq Leak

\* probe never acquires what is still held, whose only handle (a static
\* variable) it would overwrite: what a failed probe left behind stops the
\* next one at the region.
AcquiredOnce == doing = "probe" /\ at # "region" => at \notin held
============================================================================
