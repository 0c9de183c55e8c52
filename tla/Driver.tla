------------------------------- MODULE Driver -------------------------------
(***************************************************************************)
(* The Linux driver (driver/tinygpu_pci.c) with the PCI device: callers    *)
(* submit jobs through the ioctl, a mutex lets one of them use the device, *)
(* an interrupt handler wakes it up, and a time-out or a signal may end    *)
(* the wait.  The device runs on its own and reads and writes the jobs'    *)
(* DMA buffers when its timer fires.                                       *)
(*                                                                         *)
(* A guest with several CPUs may run the handler beside the submitting     *)
(* process; on one CPU the handler, once begun, runs to its end before any *)
(* process does.  The device is concurrent with both.                      *)
(***************************************************************************)
EXTENDS TinyGpuDevice

CONSTANTS
  Callers,     \* processes with the device file open
  Addresses,   \* DMA memory: the buffers of one job each
  Guests       \* kinds of guest: records [smp : BOOLEAN, msi : BOOLEAN]

ASSUME GuestsAssumption == Guests \subseteq [smp : BOOLEAN, msi : BOOLEAN]
ASSUME NoAddressAssumption == NoAddress \notin Addresses
ASSUME NobodyAssumption == "nobody" \notin Callers

VARIABLES
  guest,        \* the kind of guest; it does not change
  device,       \* the device's registers
  lock,         \* holder of the mutex
  done,         \* gpu->done
  irq_status,   \* gpu->irq_status
  handler,      \* the interrupt handler
  call,         \* per caller: its ioctl
  memory        \* per address: what the input and the output buffer hold

vars == <<guest, device, lock, done, irq_status, handler, call, memory>>

Nobody == "nobody"

\* What a buffer holds: zeroes, the input of a caller's job, or the output of a
\* run on what the input buffer holds.
Zero == <<"zero">>
Blank == [input |-> Zero, output |-> Zero]
Input(c) == <<"input", c>>
OutputFrom(input) == <<"output", input>>

-----------------------------------------------------------------------------
(* The interrupt handler.                                                  *)

NoHandler == [at |-> "idle", status |-> {}, stores |-> {}]

\* The processes of a guest with one CPU stand still while the handler runs.
MayRun == guest.smp \/ handler.at = "idle"

Interrupted == IF guest.msi THEN device.message ELSE IntxLevel(device)

\* The handler reads the device's interrupt status, and returns when it is 0.
HandlerReads ==
  /\ handler.at = "idle"
  /\ Interrupted
  /\ handler' = IF device.irq_status = {} THEN NoHandler
                ELSE [at |-> "read", status |-> device.irq_status, stores |-> {}]
  /\ device' = [device EXCEPT !.message = FALSE]
  /\ UNCHANGED <<guest, lock, done, irq_status, call, memory>>

HandlerAcknowledges ==
  /\ handler.at = "read"
  /\ device' = WriteIrqStatus(device, handler.status)
  /\ handler' = [handler EXCEPT !.at = "stores", !.stores = {"irq_status", "done"}]
  /\ UNCHANGED <<guest, lock, done, irq_status, call, memory>>

\* The two stores are not ordered: the first is not marked.  The wake-up after
\* them makes a waiter look at done again, which Wake does of itself.
HandlerStores(store) ==
  /\ handler.at = "stores"
  /\ store \in handler.stores
  /\ irq_status' = IF store = "irq_status" THEN handler.status ELSE irq_status
  /\ done' = (done \/ store = "done")
  /\ handler' = IF handler.stores = {store} THEN NoHandler
                ELSE [handler EXCEPT !.stores = @ \ {store}]
  /\ UNCHANGED <<guest, device, lock, call, memory>>

-----------------------------------------------------------------------------
(* The device.                                                             *)

\* The timer fires: the run reads the input buffer and writes the output
\* buffer, wherever the registers point.
TimerFires(ok) ==
  /\ device.exec_timer
  /\ device' = Completed(device, guest.msi, ok)
  /\ memory' = IF ok
               THEN [memory EXCEPT ![device.dma].output = OutputFrom(memory[device.dma].input)]
               ELSE memory
  /\ UNCHANGED <<guest, lock, done, irq_status, handler, call>>

-----------------------------------------------------------------------------
(* A call of the submit ioctl.                                             *)

\* at: "user" (no call), "prepared" (buffers filled), "locked", "programmed",
\* "waiting", "woken" (wait is over), "checked" (status read), "unlocked"
NoCall == [at |-> "user", buffers |-> NoAddress,
           wait |-> "none", status |-> {}, ret |-> "none"]

At(c, place) == call[c].at = place /\ MayRun

Held == {call[c].buffers : c \in Callers}

\* The buffers are allocated and zeroed, and the input is copied in.  A call that
\* fails before it takes the mutex leaves nothing behind and is not modelled.
Prepare(c, a) ==
  /\ At(c, "user")
  /\ a \notin Held
  /\ call' = [call EXCEPT ![c] = [NoCall EXCEPT !.at = "prepared", !.buffers = a]]
  /\ memory' = [memory EXCEPT ![a] = [Blank EXCEPT !.input = Input(c)]]
  /\ UNCHANGED <<guest, device, lock, done, irq_status, handler>>

\* Mutant: no mutex.
LockAnyway(c) ==
  /\ At(c, "prepared")
  /\ lock' = c
  /\ done' = FALSE
  /\ irq_status' = {}
  /\ call' = [call EXCEPT ![c].at = "locked"]
  /\ UNCHANGED <<guest, device, handler, memory>>

\* Mutant: done keeps the value the previous job left.
LockKeepsDone(c) ==
  /\ At(c, "prepared")
  /\ lock = Nobody
  /\ lock' = c
  /\ irq_status' = {}
  /\ call' = [call EXCEPT ![c].at = "locked"]
  /\ UNCHANGED <<guest, device, done, handler, memory>>

Lock(c) ==
  /\ At(c, "prepared")
  /\ lock = Nobody
  /\ lock' = c
  /\ done' = FALSE
  /\ irq_status' = {}
  /\ call' = [call EXCEPT ![c].at = "locked"]
  /\ UNCHANGED <<guest, device, handler, memory>>

\* Mutant: the device is not reset before it is programmed.
ConfiguredWithoutReset(d, buffers) ==
  LET stale == WriteStatus(WriteIrqStatus(d, IrqMask), {"DONE", "ERROR"})
  IN  WriteIrqEnable(WriteDma(stale, buffers), IrqMask)

\* Mutant: interrupts are enabled before the reset, which disables them.
ConfiguredEnablesFirst(d, buffers) ==
  LET fresh == SoftReset(WriteIrqEnable(d, IrqMask))
      clear == WriteStatus(WriteIrqStatus(fresh, IrqMask), {"DONE", "ERROR"})
  IN  WriteDma(clear, buffers)

\* The device after the driver has written its registers for a job.
Configured(d, buffers) ==
  LET fresh == SoftReset(d)
      clear == WriteStatus(WriteIrqStatus(fresh, IrqMask), {"DONE", "ERROR"})
  IN  WriteIrqEnable(WriteDma(clear, buffers), IrqMask)

\* From the reset on the timer is off and no interrupt status is set, so the
\* writes are one step: neither the device nor the handler changes anything
\* between them.
Program(c) ==
  /\ At(c, "locked")
  /\ device' = Configured(device, call[c].buffers)
  /\ call' = [call EXCEPT ![c].at = "programmed"]
  /\ UNCHANGED <<guest, lock, done, irq_status, handler, memory>>

Go(c) ==
  /\ At(c, "programmed")
  /\ device' = Start(device, guest.msi)
  /\ call' = [call EXCEPT ![c].at = "waiting"]
  /\ UNCHANGED <<guest, lock, done, irq_status, handler, memory>>

\* The wait is over: done is set, or it is not and the time is up or a signal
\* has come.
Wake(c) ==
  /\ At(c, "waiting")
  /\ done
  /\ call' = [call EXCEPT ![c].at = "woken", ![c].wait = "done"]
  /\ UNCHANGED <<guest, device, lock, done, irq_status, handler, memory>>

Abort(c) ==
  /\ At(c, "waiting")
  /\ ~done
  /\ call' = [call EXCEPT ![c].at = "woken", ![c].wait = "abort"]
  /\ UNCHANGED <<guest, device, lock, done, irq_status, handler, memory>>

ReadStatus(c) ==
  /\ At(c, "woken")
  /\ call' = [call EXCEPT ![c].at = "checked", ![c].status = device.status]
  /\ UNCHANGED <<guest, device, lock, done, irq_status, handler, memory>>

Outcome(c) ==
  CASE call[c].wait = "abort" -> "aborted"
    [] call[c].wait = "done" /\ "ERROR" \in irq_status \cup call[c].status -> "failed"
    [] OTHER -> IF "DONE" \in call[c].status THEN "ok" ELSE "failed"

\* Mutant: the device is left running when the wait is given up.
StoppedUnlessAborted(c) == device

\* Only a wait that was given up resets the device.
Stopped(c) == IF call[c].wait = "abort" THEN SoftReset(device) ELSE device

Unlock(c) ==
  /\ At(c, "checked")
  /\ device' = WriteIrqEnable(Stopped(c), {})
  /\ lock' = Nobody
  /\ call' = [call EXCEPT ![c].at = "unlocked", ![c].ret = Outcome(c)]
  /\ UNCHANGED <<guest, done, irq_status, handler, memory>>

\* The output is copied out if the call succeeded, and the buffers are freed.
Return(c) ==
  /\ At(c, "unlocked")
  /\ call' = [call EXCEPT ![c] = NoCall]
  /\ memory' = [memory EXCEPT ![call[c].buffers] = Blank]
  /\ UNCHANGED <<guest, device, lock, done, irq_status, handler>>

-----------------------------------------------------------------------------

Init ==
  /\ guest \in Guests
  /\ device = PoweredOn
  /\ lock = Nobody
  /\ done = FALSE
  /\ irq_status = {}
  /\ handler = NoHandler
  /\ call = [c \in Callers |-> NoCall]
  /\ memory = [a \in Addresses |-> Blank]

HandlerStep ==
  \/ HandlerReads
  \/ HandlerAcknowledges
  \/ \E store \in {"irq_status", "done"} : HandlerStores(store)

CallStep(c) ==
  \/ \E a \in Addresses : Prepare(c, a)
  \/ Lock(c)
  \/ Program(c)
  \/ Go(c)
  \/ Wake(c)
  \/ Abort(c)
  \/ ReadStatus(c)
  \/ Unlock(c)
  \/ Return(c)

\* The steps of a call that wait for nothing but the mutex or the completion.
Progress(c) ==
  Lock(c) \/ Program(c) \/ Go(c) \/ Wake(c) \/ ReadStatus(c) \/ Unlock(c) \/ Return(c)

Next ==
  \/ HandlerStep
  \/ \E ok \in BOOLEAN : TimerFires(ok)
  \/ \E c \in Callers : CallStep(c)

\* The device's timer fires and interrupts are taken and handled.  A process in
\* a call runs again and again between interrupts, and the mutex is handed to
\* each waiter in the end (a Linux mutex hands itself over to one that has
\* waited long).  No time-out and no signal need come: a wait is to end without.
Fairness ==
  /\ WF_vars(HandlerStep)
  /\ WF_vars(\E ok \in BOOLEAN : TimerFires(ok))
  /\ \A c \in Callers : SF_vars(Progress(c))

Spec == Init /\ [][Next]_vars
FairSpec == Spec /\ Fairness

-----------------------------------------------------------------------------
(* Properties.                                                             *)

Sections == {"locked", "programmed", "waiting", "woken", "checked"}

DeviceStates ==
  [control : BOOLEAN, status : SUBSET {"BUSY", "DONE", "ERROR"},
   irq_enable : SUBSET IrqMask, irq_status : SUBSET IrqMask,
   dma : Addresses \cup {NoAddress}, exec_timer : BOOLEAN, message : BOOLEAN]

HandlerStates ==
  [at : {"idle", "read", "stores"}, status : SUBSET IrqMask,
   stores : SUBSET {"irq_status", "done"}]

CallStates ==
  [at : Sections \cup {"user", "prepared", "unlocked"},
   buffers : Addresses \cup {NoAddress}, wait : {"none", "done", "abort"},
   status : SUBSET {"BUSY", "DONE", "ERROR"}, ret : {"none", "ok", "failed", "aborted"}]

JobInputs == {Zero} \cup {Input(c) : c \in Callers}
BufferStates ==
  [input : JobInputs, output : {Zero} \cup {OutputFrom(i) : i \in JobInputs}]

\* The registers, the driver's flags and the calls stay in their ranges; a call
\* is between mutex_lock and mutex_unlock exactly when it holds the mutex, and
\* no two calls have the same buffers.
TypeOK ==
  /\ guest \in Guests
  /\ device \in DeviceStates
  /\ done \in BOOLEAN /\ irq_status \subseteq IrqMask
  /\ handler \in HandlerStates
  /\ call \in [Callers -> CallStates]
  /\ memory \in [Addresses -> BufferStates]
  /\ lock \in Callers \cup {Nobody}
  /\ \A c \in Callers : lock = c <=> call[c].at \in Sections
  /\ \A c \in Callers : call[c].at = "user" <=> call[c].buffers = NoAddress
  /\ \A c, d \in Callers :
       call[c].buffers = call[d].buffers => c = d \/ call[c].buffers = NoAddress

\* The driver never brings the device into a state in which its busy bit, its
\* START bit and its timer disagree (a START while busy would).
BusyMeansArmed ==
  /\ "BUSY" \in device.status <=> device.exec_timer
  /\ device.control <=> device.exec_timer

\* A call that succeeds returns the output of its own job's input.
OwnOutput ==
  ~guest.smp =>
    \A c \in Callers : call[c].ret = "ok" =>
      memory[call[c].buffers].output = OutputFrom(Input(c))

\* A call fails only when the device has reported an error.
FailuresAreReal ==
  ~guest.smp => \A c \in Callers : call[c].ret = "failed" => "ERROR" \in call[c].status

\* A submission waits for the end of its execution: while the device may still
\* run a job, the caller that owns its buffers holds the mutex.
WaitsForExecution ==
  device.exec_timer =>
    \E c \in Callers : lock = c /\ device.dma = call[c].buffers

\* The same, on a guest with one CPU.
WaitsForExecutionUniprocessor == ~guest.smp => WaitsForExecution

\* Every call returns, without the help of a time-out: no completion is lost
\* between the device, the handler and the waiter, in whatever order they step.
CallsReturn == \A c \in Callers : call[c].at = "prepared" ~> call[c].at = "user"
=============================================================================
