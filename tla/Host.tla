-------------------------------- MODULE Host --------------------------------
(***************************************************************************)
(* The driver at work (Driver) in a module that is loaded, probed and      *)
(* unloaded (Lifecycle).                                                   *)
(*                                                                         *)
(* Processes reach the driver by the node that device_create makes, and    *)
(* the kernel does not unload a module whose files are open, nor open      *)
(* files of a module that is being unloaded (.owner = THIS_MODULE).  The   *)
(* device taken away while it is in use is not modelled.                   *)
(***************************************************************************)
EXTENDS Driver, Lifecycle

hostVars == <<vars, lifecycleVars>>

InCall == {c \in Callers : call[c].at # "user"}

Reachable == Bound /\ doing.what # "releasing"

\* free_irq waits for a handler that is running.
LifecycleStep ==
  /\ \/ Load \/ Probe \/ Take \/ TakeFails
     \/ Unload /\ InCall = {}
     \/ Release /\ ~(Head(doing.todo) = "irq" /\ handler.at # "idle")
  /\ UNCHANGED vars

\* Interrupts reach the handler from request_irq to free_irq.
HandlerRuns == "irq" \in held /\ HandlerStep /\ UNCHANGED lifecycleVars

DeviceRuns == (\E ok \in BOOLEAN : TimerFires(ok)) /\ UNCHANGED lifecycleVars

CallRuns(c) == Reachable /\ CallStep(c) /\ UNCHANGED lifecycleVars

HostInit == Init /\ LifecycleInit

HostNext ==
  \/ LifecycleStep
  \/ HandlerRuns
  \/ DeviceRuns
  \/ \E c \in Callers : CallRuns(c)

\* Fairness of Driver, for the steps that the module's state allows.
HostFairness ==
  /\ WF_hostVars(HandlerRuns)
  /\ WF_hostVars(DeviceRuns)
  /\ \A c \in Callers : SF_hostVars(Reachable /\ Progress(c) /\ UNCHANGED lifecycleVars)

HostSpec == HostInit /\ [][HostNext]_hostVars /\ HostFairness

-----------------------------------------------------------------------------

\* Whoever runs has what it uses: a call finds the device set up to the last
\* resource, and the handler its registers and its device structure, also while
\* the device is still being probed or is being removed.
HeldWhileUsed ==
  /\ InCall # {} => {"region", "class", "bar", "gpu", "vectors", "irq", "minor", "master",
                     "cdev"} \subseteq held
  /\ handler.at # "idle" \/ "irq" \in held => {"bar", "gpu", "vectors", "irq"} \subseteq held
=============================================================================
