----------------------------- MODULE Lifecycle -----------------------------
(***************************************************************************)
(* The life of the driver module (driver/tinygpu_pci.c): tinygpu_init,     *)
(* tinygpu_probe, tinygpu_remove and tinygpu_exit take and give back the   *)
(* kernel's resources one at a time, and a failure at any of them unwinds  *)
(* what was taken before.  Processes, interrupts and other drivers run     *)
(* between the steps.                                                      *)
(***************************************************************************)
EXTENDS Sequences, FiniteSets, Integers

VARIABLES
  held,    \* resources taken and not given back
  doing    \* what: "nothing", "taking" or "releasing"; todo: the steps left;
           \* of: the function they belong to

lifecycleVars == <<held, doing>>

\* Freed by the driver core when a probe has failed or the device is removed
\* (pcim_ and devm_ functions).
Managed == {"enabled", "bar", "gpu"}

ModuleOrder == <<"region", "class", "pci_driver">>

\* Mutant: the interrupt handler is registered last.
ProbeOrderLateIrq ==
  <<"enabled", "bar", "gpu", "vectors", "minor", "master", "id", "cdev", "chardev", "irq">>

\* "id" takes nothing: it is the test of the device's ID register.
ProbeOrder ==
  <<"enabled", "bar", "gpu", "vectors", "irq", "minor", "master", "id", "cdev", "chardev">>

\* The labels at the end of tinygpu_probe, where the driver core does the rest,
\* and of tinygpu_init.
ErrorPath(of) ==
  IF of = "probe" THEN <<"cdev", "master", "minor", "irq", "vectors", "managed">>
  ELSE <<"class", "region">>

\* Mutant: a failed ida_alloc_max goes to the label after its own.
EntryTooLate(step) ==
  CASE step \in {"chardev", "pci_driver"} -> 1
    [] step \in {"id", "cdev", "class"} -> 2
    [] step = "region" -> 3
    [] step \in {"minor", "irq"} -> 5
    [] OTHER -> 6

\* Where a failing step enters it.
Entry(step) ==
  CASE step \in {"chardev", "pci_driver"} -> 1
    [] step \in {"id", "cdev", "class"} -> 2
    [] step = "region" -> 3
    [] step = "minor" -> 4
    [] step = "irq" -> 5
    [] OTHER -> 6

RemoveOrder == <<"chardev", "cdev", "master", "irq", "vectors", "minor", "managed">>

Reversed(s) == [i \in 1 .. Len(s) |-> s[Len(s) + 1 - i]]

\* What a step that gives something back gives back.
Freed(step) == IF step = "managed" THEN Managed ELSE {step}

\* What a failure at the given step of a function gives back.
Undo(of, step) == SubSeq(ErrorPath(of), Entry(step), Len(ErrorPath(of)))

\* "id" takes nothing.
ModuleResources == {ModuleOrder[i] : i \in 1 .. Len(ModuleOrder)}
DeviceResources == {ProbeOrder[i] : i \in 1 .. Len(ProbeOrder)} \ {"id"}

Resting == [what |-> "nothing", todo |-> <<>>, of |-> "none"]
Taking(of, steps) == [what |-> "taking", todo |-> steps, of |-> of]
Releasing(of, steps) ==
  IF steps = <<>> THEN Resting ELSE [what |-> "releasing", todo |-> steps, of |-> of]

After == IF Len(doing.todo) = 1 THEN Resting ELSE [doing EXCEPT !.todo = Tail(@)]

Loaded == "pci_driver" \in held
Bound == "chardev" \in held

-----------------------------------------------------------------------------

LifecycleInit == held = {} /\ doing = Resting

Load ==
  /\ doing = Resting /\ ~Loaded
  /\ doing' = Taking("init", ModuleOrder)
  /\ UNCHANGED held

\* The PCI core finds the device, at registration or later, or tries again.
Probe ==
  /\ doing = Resting /\ Loaded /\ ~Bound
  /\ doing' = Taking("probe", ProbeOrder)
  /\ UNCHANGED held

Take ==
  /\ doing.what = "taking"
  /\ held' = held \cup ({Head(doing.todo)} \ {"id"})
  /\ doing' = After

\* Only pci_set_master cannot fail.
TakeFails ==
  /\ doing.what = "taking"
  /\ Head(doing.todo) # "master"
  /\ doing' = Releasing(doing.of, Undo(doing.of, Head(doing.todo)))
  /\ UNCHANGED held

\* The module is unloaded, a bound device being removed first.
Unload ==
  /\ doing = Resting /\ Loaded
  /\ doing' = Releasing("exit", (IF Bound THEN RemoveOrder ELSE <<>>) \o Reversed(ModuleOrder))
  /\ UNCHANGED held

Release ==
  /\ doing.what = "releasing"
  /\ held' = held \ Freed(Head(doing.todo))
  /\ doing' = After

-----------------------------------------------------------------------------

\* Between the functions the driver holds all of its resources or none: each
\* error path and the removal give back exactly what was taken.
NothingLeaks ==
  doing = Resting => held \in {{}, ModuleResources, ModuleResources \cup DeviceResources}
=============================================================================
