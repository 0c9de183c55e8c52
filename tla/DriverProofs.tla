---------------------------- MODULE DriverProofs ----------------------------
(***************************************************************************)
(* Theorems about Driver, for any number of callers, any DMA memory and    *)
(* any kinds of guest, and about Host, the driver in the life cycle of its *)
(* module, with a failure possible at each of its steps.                   *)
(***************************************************************************)
EXTENDS Host, SequenceTheorems, TLAPS

-----------------------------------------------------------------------------
(* The inductive invariant.                                                *)

Running == {"waiting", "woken", "checked"}

\* The device has no job and no interrupt to report.
Idle == ~device.exec_timer /\ device.irq_status = {}

\* On every guest: an interrupt status bit means that no job is running, a
\* device that has just been programmed is idle, and a wait that is over has
\* ended in one of two ways.
Programming ==
  /\ device.irq_status # {} => ~device.exec_timer
  /\ device.exec_timer => device.dma # NoAddress
  /\ \A c \in Callers :
       /\ call[c].at = "programmed" => Idle /\ device.dma = call[c].buffers
       /\ call[c].at \in {"woken", "checked"} => call[c].wait \in {"done", "abort"}

\* On one CPU: between jobs the device is idle and no handler is under way; a
\* job runs in the buffers of the lock holder; done means that it has ended.
OneJobAtATime ==
  ~guest.smp =>
    /\ lock = Nobody => Idle /\ handler.at = "idle"
    /\ handler.at # "idle" => ~device.exec_timer
    /\ handler.at = "read" => device.irq_status \subseteq handler.status
    /\ handler.at = "stores" => device.irq_status = {}
    /\ \A c \in Callers :
         /\ call[c].at \in {"locked", "programmed"} =>
              Idle /\ handler.at = "idle" /\ ~done
         /\ call[c].at \in Running /\ device.exec_timer => device.dma = call[c].buffers
         /\ call[c].at = "waiting" /\ done /\ handler.at = "idle" => Idle
         /\ call[c].at \in {"woken", "checked"} /\ call[c].wait = "done" => Idle

\* What the output buffer of c should hold.
Answered(c) == memory[call[c].buffers].output = OutputFrom(Input(c))

\* The input stays what the caller copied in, and DONE, read from the device
\* or by the caller, means that the output is its own.
Buffers ==
  \A c \in Callers :
       /\ call[c].at # "user" => memory[call[c].buffers].input = Input(c)
       /\ call[c].ret # "none" => call[c].at = "unlocked"
       /\ call[c].ret = "ok" => "DONE" \in call[c].status
       /\ ~guest.smp => /\ call[c].at \in Running /\ "DONE" \in device.status => Answered(c)
                        /\ call[c].at \in {"checked", "unlocked"}
                             /\ "DONE" \in call[c].status => Answered(c)

\* The error bits somebody has seen and not forgotten.
Reported == irq_status \cup device.irq_status
              \cup (IF handler.at = "idle" THEN {} ELSE handler.status)

\* On one CPU: a job that has ended has succeeded or failed, an error reported
\* is its own, and the caller has read the status it ended with.
Verdict ==
  ~guest.smp =>
    \A c \in Callers :
      /\ call[c].at \in {"locked", "programmed"} => irq_status = {}
      /\ call[c].at \in Running =>
           /\ "BUSY" \in device.status \/ "DONE" \in device.status \/ "ERROR" \in device.status
           /\ "ERROR" \in Reported => "ERROR" \in device.status
      /\ call[c].at = "checked" /\ call[c].wait = "done" => call[c].status = device.status
      /\ call[c].ret = "failed" => "ERROR" \in call[c].status

IInv ==
  TypeOK /\ BusyMeansArmed /\ Programming /\ OneJobAtATime /\ Buffers /\ Verdict

-----------------------------------------------------------------------------
(* The device's operators.                                                 *)

\* tinygpu_soft_reset
LEMMA SoftResetFacts ==
  ASSUME NEW d \in DeviceStates
  PROVE  /\ SoftReset(d) \in DeviceStates
         /\ SoftReset(d).exec_timer = FALSE
         /\ SoftReset(d).control = FALSE
         /\ SoftReset(d).status = {"DONE"}
         /\ SoftReset(d).irq_status = {}
  BY DEF SoftReset, DeviceStates

\* The device after the driver has written a job to its registers.
LEMMA ConfiguredFacts ==
  ASSUME NEW d \in DeviceStates, NEW b \in Addresses
  PROVE  /\ Configured(d, b) \in DeviceStates
         /\ Configured(d, b).exec_timer = FALSE
         /\ Configured(d, b).control = FALSE
         /\ Configured(d, b).status = {}
         /\ Configured(d, b).irq_status = {}
         /\ Configured(d, b).dma = b
  BY DEF Configured, SoftReset, WriteStatus, WriteDma, WriteIrqEnable, WriteIrqStatus,
         DeviceStates, IrqMask

\* tinygpu_start_execution, from a device at rest
LEMMA StartFacts ==
  ASSUME NEW d \in DeviceStates, "BUSY" \notin d.status, NEW msi
  PROVE  /\ Start(d, msi) \in DeviceStates
         /\ Start(d, msi).exec_timer = TRUE
         /\ Start(d, msi).control = TRUE
         /\ Start(d, msi).status = {"BUSY"}
         /\ Start(d, msi).irq_status = {}
         /\ Start(d, msi).dma = d.dma
  BY DEF Start, DeviceStates

\* tinygpu_complete_execution, with and without an error.
LEMMA CompletedFacts ==
  ASSUME NEW d \in DeviceStates, NEW msi \in BOOLEAN, NEW ok \in BOOLEAN
  PROVE  /\ Completed(d, msi, ok) \in DeviceStates
         /\ Completed(d, msi, ok).exec_timer = FALSE
         /\ Completed(d, msi, ok).control = FALSE
         /\ Completed(d, msi, ok).dma = d.dma
         /\ ok => /\ Completed(d, msi, ok).status = (d.status \ {"BUSY"}) \cup {"DONE"}
                  /\ Completed(d, msi, ok).irq_status = d.irq_status \cup {"COMPLETE"}
         /\ ~ok => /\ Completed(d, msi, ok).status = (d.status \ {"BUSY"}) \cup {"ERROR"}
                   /\ Completed(d, msi, ok).irq_status = d.irq_status \cup {"ERROR"}
  <1>1. CASE ok
    BY <1>1, ZenonT(60) DEF Completed, RaiseIrq, DeviceStates, IrqMask
  <1>2. CASE ~ok
    BY <1>2, ZenonT(60) DEF Completed, SetError, RaiseIrq, DeviceStates, IrqMask
  <1>. QED BY <1>1, <1>2

\* The acknowledgement of interrupts.
LEMMA WriteIrqStatusFacts ==
  ASSUME NEW d \in DeviceStates, NEW bits \in SUBSET IrqMask
  PROVE  /\ WriteIrqStatus(d, bits) \in DeviceStates
         /\ WriteIrqStatus(d, bits) = [d EXCEPT !.irq_status = d.irq_status \ bits]
  BY DEF WriteIrqStatus, DeviceStates, IrqMask

\* The device when a call has stopped it, after an abort, and masked its interrupts.
LEMMA StoppedFacts ==
  ASSUME NEW c \in Callers, device \in DeviceStates
  PROVE  LET d == WriteIrqEnable(Stopped(c), {})
         IN  /\ d \in DeviceStates
             /\ call[c].wait = "abort" => /\ d.exec_timer = FALSE /\ d.control = FALSE
                                         /\ d.status = {"DONE"} /\ d.irq_status = {}
             /\ call[c].wait # "abort" =>
                  /\ d.exec_timer = device.exec_timer /\ d.control = device.control
                  /\ d.status = device.status /\ d.irq_status = device.irq_status
                  /\ d.dma = device.dma
  <1>1. CASE call[c].wait = "abort"
    BY <1>1 DEF Stopped, SoftReset, WriteIrqEnable, DeviceStates
  <1>2. CASE call[c].wait # "abort"
    BY <1>2 DEF Stopped, WriteIrqEnable, DeviceStates
  <1>. QED BY <1>1, <1>2

-----------------------------------------------------------------------------
(* Steps of one call.                                                      *)

\* The state of one call is written.
LEMMA CallUpdate ==
  ASSUME NEW f \in [Callers -> CallStates], NEW c \in Callers, NEW r \in CallStates
  PROVE  /\ [f EXCEPT ![c] = r] \in [Callers -> CallStates]
         /\ [f EXCEPT ![c] = r][c] = r
         /\ \A d \in Callers \ {c} : [f EXCEPT ![c] = r][d] = f[d]
  OBVIOUS

\* A call that keeps its buffers keeps TypeOK, if it keeps to the mutex.
LEMMA CallTyped ==
  ASSUME TypeOK, NEW c \in Callers, NEW r \in CallStates,
         call' = [call EXCEPT ![c] = r],
         r.buffers = call[c].buffers, r.at # "user", call[c].at # "user",
         guest' = guest, device' \in DeviceStates, handler' = handler,
         done' \in BOOLEAN, irq_status' \subseteq IrqMask, memory' = memory,
         lock' \in Callers \cup {Nobody},
         \A d \in Callers : lock' = d <=> call'[d].at \in Sections
  PROVE  TypeOK'
  <1>1. /\ call' \in [Callers -> CallStates]
        /\ \A d \in Callers : call'[d].buffers = call[d].buffers
        /\ \A d \in Callers : call'[d].at = "user" <=> call[d].at = "user"
    BY CallUpdate DEF TypeOK
  <1>. QED BY <1>1 DEF TypeOK

\* mutex_lock: the device is idle, and done is cleared (tinygpu_pci.c:196-198).
LEMMA LockStep ==
  ASSUME IInv, NEW c \in Callers, Lock(c)
  PROVE  IInv'
  <1>. DEFINE r == [call[c] EXCEPT !.at = "locked"]
  <1>0. call[c] \in CallStates /\ device \in DeviceStates /\ call[c].at = "prepared"
    BY DEF IInv, TypeOK, Lock, At
  <1>1. /\ r \in CallStates /\ r.buffers = call[c].buffers
        /\ r.at = "locked" /\ r.wait = call[c].wait
        /\ r.status = call[c].status /\ r.ret = call[c].ret
    <2>1. /\ call[c].status \in SUBSET {"BUSY", "DONE", "ERROR"}
          /\ device.status \in SUBSET {"BUSY", "DONE", "ERROR"}
      BY <1>0 DEF CallStates, DeviceStates
    <2>. QED BY <1>0, <2>1 DEF CallStates, Sections, Outcome
  <1>2. /\ call[c].at = "prepared" /\ MayRun
        /\ call' = [call EXCEPT ![c] = r]
        /\ lock = Nobody /\ lock' = c /\ done' = FALSE /\ irq_status' = {}
        /\ guest' = guest /\ memory' = memory /\ handler' = handler /\ device' = device
    BY DEF Lock, At
  <1>. HIDE DEF r
  <1>3. call'[c] = r /\ \A d \in Callers \ {c} : call'[d] = call[d]
    BY <1>1, <1>2, CallUpdate DEF IInv, TypeOK
  <1>4. TypeOK'
    <2>1. \A d \in Callers : lock' = d <=> call'[d].at \in Sections
      BY <1>1, <1>2, <1>3, NobodyAssumption DEF IInv, TypeOK, Sections, Nobody
    <2>. QED BY <1>1, <1>2, <2>1, CallTyped DEF IInv, TypeOK
  <1>5. BusyMeansArmed'
    BY <1>2 DEF IInv, BusyMeansArmed
  <1>6. Programming'
    BY <1>1, <1>2 DEF IInv, Programming, Idle
  <1>7. OneJobAtATime'
    BY <1>2 DEF IInv, OneJobAtATime, Idle
  <1>8. Buffers'
    BY <1>1, <1>2 DEF IInv, Buffers, Answered, Running
  <1>9. Verdict'
    BY <1>1, <1>2 DEF IInv, Verdict, Reported, Running
  <1>. QED BY <1>4, <1>5, <1>6, <1>7, <1>8, <1>9 DEF IInv

\* The registers are written (tinygpu_pci.c:200-222).
LEMMA ProgramStep ==
  ASSUME IInv, NEW c \in Callers, Program(c)
  PROVE  IInv'
  <1>. DEFINE r == [call[c] EXCEPT !.at = "programmed"]
  <1>0. call[c] \in CallStates /\ device \in DeviceStates /\ call[c].at = "locked"
    BY DEF IInv, TypeOK, Program, At
  <1>1. /\ r \in CallStates /\ r.buffers = call[c].buffers
        /\ r.at = "programmed" /\ r.wait = call[c].wait
        /\ r.status = call[c].status /\ r.ret = call[c].ret
    <2>1. /\ call[c].status \in SUBSET {"BUSY", "DONE", "ERROR"}
          /\ device.status \in SUBSET {"BUSY", "DONE", "ERROR"}
      BY <1>0 DEF CallStates, DeviceStates
    <2>. QED BY <1>0, <2>1 DEF CallStates, Sections, Outcome
  <1>a. call[c].buffers \in Addresses /\ call[c].buffers # NoAddress
    BY <1>0, NoAddressAssumption DEF IInv, TypeOK, CallStates
  <1>2. /\ call[c].at = "locked" /\ MayRun
        /\ call' = [call EXCEPT ![c] = r]
        /\ guest' = guest /\ memory' = memory /\ handler' = handler /\ lock' = lock /\ done' = done
        /\ irq_status' = irq_status /\ device' = Configured(device, call[c].buffers)
        /\ device' \in DeviceStates
    BY <1>0, <1>a, ConfiguredFacts DEF Program, At
  <1>b. /\ device'.exec_timer = FALSE /\ device'.control = FALSE /\ device'.status = {}
        /\ device'.irq_status = {} /\ device'.dma = call[c].buffers
    BY <1>0, <1>a, <1>2, ConfiguredFacts, ZenonT(60)
  <1>. HIDE DEF r
  <1>3. call'[c] = r /\ \A d \in Callers \ {c} : call'[d] = call[d]
    BY <1>1, <1>2, CallUpdate DEF IInv, TypeOK
  <1>4. TypeOK'
    <2>1. \A d \in Callers : lock' = d <=> call'[d].at \in Sections
      BY <1>1, <1>2, <1>3 DEF IInv, TypeOK, Sections, Nobody
    <2>. QED BY <1>1, <1>2, <2>1, CallTyped DEF IInv, TypeOK
  <1>5. BusyMeansArmed'
    BY <1>b DEF BusyMeansArmed
  <1>6. Programming'
    BY <1>1, <1>2, <1>b DEF IInv, Programming, Idle, TypeOK, Sections
  <1>7. OneJobAtATime'
    BY <1>2, <1>b DEF IInv, OneJobAtATime, Idle
  <1>8. Buffers'
    BY <1>1, <1>2, <1>b DEF IInv, Buffers, Answered
  <1>9. Verdict'
    BY <1>1, <1>2 DEF IInv, Verdict, Running, TypeOK, Sections
  <1>. QED BY <1>4, <1>5, <1>6, <1>7, <1>8, <1>9 DEF IInv

\* START, on a device that is not busy (tinygpu_pci.c:223).
LEMMA GoStep ==
  ASSUME IInv, NEW c \in Callers, Go(c)
  PROVE  IInv'
  <1>. DEFINE r == [call[c] EXCEPT !.at = "waiting"]
  <1>0. call[c] \in CallStates /\ device \in DeviceStates /\ call[c].at = "programmed"
    BY DEF IInv, TypeOK, Go, At
  <1>1. /\ r \in CallStates /\ r.buffers = call[c].buffers
        /\ r.at = "waiting" /\ r.wait = call[c].wait
        /\ r.status = call[c].status /\ r.ret = call[c].ret
    <2>1. /\ call[c].status \in SUBSET {"BUSY", "DONE", "ERROR"}
          /\ device.status \in SUBSET {"BUSY", "DONE", "ERROR"}
      BY <1>0 DEF CallStates, DeviceStates
    <2>. QED BY <1>0, <2>1 DEF CallStates, Sections, Outcome
  <1>a. call[c].buffers \in Addresses /\ call[c].buffers # NoAddress
    BY <1>0, NoAddressAssumption DEF IInv, TypeOK, CallStates
  <1>b. "BUSY" \notin device.status /\ device.dma = call[c].buffers
    BY <1>0 DEF IInv, BusyMeansArmed, Programming, Idle
  <1>2. /\ call[c].at = "programmed" /\ MayRun
        /\ call' = [call EXCEPT ![c] = r]
        /\ guest' = guest /\ memory' = memory /\ handler' = handler /\ lock' = lock /\ done' = done
        /\ irq_status' = irq_status /\ device' \in DeviceStates
        /\ device'.exec_timer = TRUE /\ device'.control = TRUE /\ device'.status = {"BUSY"}
        /\ device'.irq_status = {} /\ device'.dma = device.dma
        /\ device.dma = call[c].buffers /\ call[c].buffers # NoAddress
    BY <1>0, <1>a, <1>b, StartFacts DEF Go, At
  <1>. HIDE DEF r
  <1>3. call'[c] = r /\ \A d \in Callers \ {c} : call'[d] = call[d]
    BY <1>1, <1>2, CallUpdate DEF IInv, TypeOK
  <1>4. TypeOK'
    <2>1. \A d \in Callers : lock' = d <=> call'[d].at \in Sections
      BY <1>1, <1>2, <1>3 DEF IInv, TypeOK, Sections, Nobody
    <2>. QED BY <1>1, <1>2, <2>1, CallTyped DEF IInv, TypeOK
  <1>5. BusyMeansArmed'
    BY <1>2 DEF BusyMeansArmed
  <1>6. Programming'
    BY <1>1, <1>2 DEF IInv, Programming, TypeOK
  <1>7. OneJobAtATime'
    <2>1. SUFFICES ASSUME ~guest.smp PROVE OneJobAtATime'
      BY <1>2 DEF OneJobAtATime
    <2>2. handler'.at = "idle" /\ ~done' /\ lock' = c
      BY <1>2, <2>1 DEF IInv, OneJobAtATime, TypeOK, Sections
    <2>3. \A d \in Callers \ {c} : call'[d].at \notin Sections
      BY <1>3, <2>2, <1>2 DEF IInv, TypeOK, Sections
    <2>4. lock' # Nobody
      BY <2>2, NobodyAssumption DEF Nobody
    <2>5. device'.dma = call'[c].buffers /\ call'[c].at = "waiting"
      BY <1>1, <1>2, <1>3
    <2>. QED BY <2>2, <2>3, <2>4, <2>5 DEF OneJobAtATime, Running, Sections
  <1>8. Buffers'
    BY <1>1, <1>2 DEF IInv, Buffers, Answered
  <1>9. Verdict'
    BY <1>1, <1>2 DEF IInv, Verdict, Reported, OneJobAtATime, TypeOK, Sections
  <1>. QED BY <1>4, <1>5, <1>6, <1>7, <1>8, <1>9 DEF IInv

\* The wait ends with done set (tinygpu_pci.c:225-227).
LEMMA WakeStep ==
  ASSUME IInv, NEW c \in Callers, Wake(c)
  PROVE  IInv'
  <1>. DEFINE r == [call[c] EXCEPT !.at = "woken", !.wait = "done"]
  <1>0. call[c] \in CallStates /\ device \in DeviceStates /\ call[c].at = "waiting"
    BY DEF IInv, TypeOK, Wake, At
  <1>1. /\ r \in CallStates /\ r.buffers = call[c].buffers
        /\ r.at = "woken" /\ r.wait = "done"
        /\ r.status = call[c].status /\ r.ret = call[c].ret
    <2>1. /\ call[c].status \in SUBSET {"BUSY", "DONE", "ERROR"}
          /\ device.status \in SUBSET {"BUSY", "DONE", "ERROR"}
      BY <1>0 DEF CallStates, DeviceStates
    <2>. QED BY <1>0, <2>1 DEF CallStates, Sections, Outcome
  <1>2. /\ call[c].at = "waiting" /\ MayRun
        /\ call' = [call EXCEPT ![c] = r]
        /\ done /\ lock' = lock /\ done' = done /\ irq_status' = irq_status
        /\ guest' = guest /\ memory' = memory /\ handler' = handler /\ device' = device
    BY DEF Wake, At
  <1>. HIDE DEF r
  <1>3. call'[c] = r /\ \A d \in Callers \ {c} : call'[d] = call[d]
    BY <1>1, <1>2, CallUpdate DEF IInv, TypeOK
  <1>4. TypeOK'
    <2>1. \A d \in Callers : lock' = d <=> call'[d].at \in Sections
      BY <1>1, <1>2, <1>3 DEF IInv, TypeOK, Sections, Nobody
    <2>. QED BY <1>1, <1>2, <2>1, CallTyped DEF IInv, TypeOK
  <1>5. BusyMeansArmed'
    BY <1>2 DEF IInv, BusyMeansArmed
  <1>6. Programming'
    BY <1>1, <1>2 DEF IInv, Programming, Idle
  <1>7. OneJobAtATime'
    BY <1>1, <1>2 DEF IInv, OneJobAtATime, Idle, MayRun
  <1>8. Buffers'
    BY <1>1, <1>2 DEF IInv, Buffers, Answered, Running
  <1>9. Verdict'
    BY <1>1, <1>2 DEF IInv, Verdict, Reported, Running
  <1>. QED BY <1>4, <1>5, <1>6, <1>7, <1>8, <1>9 DEF IInv

\* The wait ends by time-out or signal (tinygpu_pci.c:225-227).
LEMMA AbortStep ==
  ASSUME IInv, NEW c \in Callers, Abort(c)
  PROVE  IInv'
  <1>. DEFINE r == [call[c] EXCEPT !.at = "woken", !.wait = "abort"]
  <1>0. call[c] \in CallStates /\ device \in DeviceStates /\ call[c].at = "waiting"
    BY DEF IInv, TypeOK, Abort, At
  <1>1. /\ r \in CallStates /\ r.buffers = call[c].buffers
        /\ r.at = "woken" /\ r.wait = "abort"
        /\ r.status = call[c].status /\ r.ret = call[c].ret
    <2>1. /\ call[c].status \in SUBSET {"BUSY", "DONE", "ERROR"}
          /\ device.status \in SUBSET {"BUSY", "DONE", "ERROR"}
      BY <1>0 DEF CallStates, DeviceStates
    <2>. QED BY <1>0, <2>1 DEF CallStates, Sections, Outcome
  <1>2. /\ call[c].at = "waiting" /\ MayRun
        /\ call' = [call EXCEPT ![c] = r]
        /\ lock' = lock /\ done' = done /\ irq_status' = irq_status
        /\ guest' = guest /\ memory' = memory /\ handler' = handler /\ device' = device
    BY DEF Abort, At
  <1>. HIDE DEF r
  <1>3. call'[c] = r /\ \A d \in Callers \ {c} : call'[d] = call[d]
    BY <1>1, <1>2, CallUpdate DEF IInv, TypeOK
  <1>4. TypeOK'
    <2>1. \A d \in Callers : lock' = d <=> call'[d].at \in Sections
      BY <1>1, <1>2, <1>3 DEF IInv, TypeOK, Sections, Nobody
    <2>. QED BY <1>1, <1>2, <2>1, CallTyped DEF IInv, TypeOK
  <1>5. BusyMeansArmed'
    BY <1>2 DEF IInv, BusyMeansArmed
  <1>6. Programming'
    BY <1>1, <1>2 DEF IInv, Programming, Idle
  <1>7. OneJobAtATime'
    BY <1>1, <1>2 DEF IInv, OneJobAtATime, Idle, Running
  <1>8. Buffers'
    BY <1>1, <1>2 DEF IInv, Buffers, Answered, Running
  <1>9. Verdict'
    BY <1>1, <1>2 DEF IInv, Verdict, Reported, Running
  <1>. QED BY <1>4, <1>5, <1>6, <1>7, <1>8, <1>9 DEF IInv

\* The status register is read (tinygpu_pci.c:228).
LEMMA ReadStatusStep ==
  ASSUME IInv, NEW c \in Callers, ReadStatus(c)
  PROVE  IInv'
  <1>. DEFINE r == [call[c] EXCEPT !.at = "checked", !.status = device.status]
  <1>0. call[c] \in CallStates /\ device \in DeviceStates /\ call[c].at = "woken"
    BY DEF IInv, TypeOK, ReadStatus, At
  <1>1. /\ r \in CallStates /\ r.buffers = call[c].buffers
        /\ r.at = "checked" /\ r.wait = call[c].wait
        /\ r.status = device.status /\ r.ret = call[c].ret
    <2>1. /\ call[c].status \in SUBSET {"BUSY", "DONE", "ERROR"}
          /\ device.status \in SUBSET {"BUSY", "DONE", "ERROR"}
      BY <1>0 DEF CallStates, DeviceStates
    <2>. QED BY <1>0, <2>1 DEF CallStates, Sections, Outcome
  <1>2. /\ call[c].at = "woken" /\ MayRun
        /\ call' = [call EXCEPT ![c] = r]
        /\ lock' = lock /\ done' = done /\ irq_status' = irq_status
        /\ guest' = guest /\ memory' = memory /\ handler' = handler /\ device' = device
    BY DEF ReadStatus, At
  <1>. HIDE DEF r
  <1>3. call'[c] = r /\ \A d \in Callers \ {c} : call'[d] = call[d]
    BY <1>1, <1>2, CallUpdate DEF IInv, TypeOK
  <1>4. TypeOK'
    <2>1. \A d \in Callers : lock' = d <=> call'[d].at \in Sections
      BY <1>1, <1>2, <1>3 DEF IInv, TypeOK, Sections, Nobody
    <2>. QED BY <1>1, <1>2, <2>1, CallTyped DEF IInv, TypeOK
  <1>5. BusyMeansArmed'
    BY <1>2 DEF IInv, BusyMeansArmed
  <1>6. Programming'
    BY <1>1, <1>2 DEF IInv, Programming, Idle
  <1>7. OneJobAtATime'
    BY <1>1, <1>2 DEF IInv, OneJobAtATime, Idle, Running
  <1>8. Buffers'
    BY <1>1, <1>2 DEF IInv, Buffers, Answered, Running
  <1>9. Verdict'
    <2>1. call[c].ret = "none"
      BY <1>0 DEF IInv, Buffers, CallStates
    <2>2. \A d \in Callers : call'[d].ret = call[d].ret /\ call'[d].wait = call[d].wait
      BY <1>1, <1>3
    <2>. QED
      BY <1>1, <1>2, <1>3, <2>1, <2>2 DEF IInv, Verdict, Reported, Running
  <1>. QED BY <1>4, <1>5, <1>6, <1>7, <1>8, <1>9 DEF IInv

\* The device is stopped if the wait was given up, and the mutex is released
\* (tinygpu_pci.c:230-246).
LEMMA UnlockStep ==
  ASSUME IInv, NEW c \in Callers, Unlock(c)
  PROVE  IInv'
  <1>. DEFINE r == [call[c] EXCEPT !.at = "unlocked", !.ret = Outcome(c)]
  <1>0. call[c] \in CallStates /\ device \in DeviceStates /\ call[c].at = "checked"
    BY DEF IInv, TypeOK, Unlock, At
  <1>1. /\ r \in CallStates /\ r.buffers = call[c].buffers
        /\ r.at = "unlocked" /\ r.wait = call[c].wait /\ r.status = call[c].status
        /\ r.ret = "ok" => "DONE" \in call[c].status
    <2>1. /\ call[c].status \in SUBSET {"BUSY", "DONE", "ERROR"}
          /\ device.status \in SUBSET {"BUSY", "DONE", "ERROR"}
      BY <1>0 DEF CallStates, DeviceStates
    <2>. QED BY <1>0, <2>1 DEF CallStates, Sections, Outcome
  <1>c. r.ret = Outcome(c)
    BY <1>0 DEF CallStates
  <1>2. /\ call[c].at = "checked" /\ MayRun
        /\ call' = [call EXCEPT ![c] = r]
        /\ guest' = guest /\ memory' = memory /\ handler' = handler /\ lock' = Nobody /\ done' = done
        /\ irq_status' = irq_status /\ device' = WriteIrqEnable(Stopped(c), {})
        /\ device' \in DeviceStates
    BY <1>0, StoppedFacts DEF Unlock, At
  <1>a. /\ call[c].wait = "abort" => /\ device'.exec_timer = FALSE /\ device'.control = FALSE
                                    /\ device'.status = {"DONE"} /\ device'.irq_status = {}
        /\ call[c].wait # "abort" =>
             /\ device'.exec_timer = device.exec_timer /\ device'.control = device.control
             /\ device'.status = device.status /\ device'.irq_status = device.irq_status
             /\ device'.dma = device.dma
    BY <1>0, <1>2, StoppedFacts
  <1>. HIDE DEF r
  <1>3. call'[c] = r /\ \A d \in Callers \ {c} : call'[d] = call[d]
    BY <1>1, <1>2, CallUpdate DEF IInv, TypeOK
  <1>4. TypeOK'
    <2>1. \A d \in Callers : lock' = d <=> call'[d].at \in Sections
      BY <1>1, <1>2, <1>3, NobodyAssumption DEF IInv, TypeOK, Sections, Nobody
    <2>. QED BY <1>1, <1>2, <2>1, CallTyped DEF IInv, TypeOK
  <1>5. BusyMeansArmed'
    BY <1>a DEF IInv, BusyMeansArmed
  <1>6. Programming'
    BY <1>1, <1>2, <1>a DEF IInv, Programming, TypeOK, Sections
  <1>7. OneJobAtATime'
    <2>1. SUFFICES ASSUME ~guest.smp PROVE OneJobAtATime'
      BY <1>2 DEF OneJobAtATime
    <2>2. handler'.at = "idle"
      BY <1>2, <2>1 DEF MayRun
    <2>3. call[c].wait \in {"done", "abort"}
      BY <1>2 DEF IInv, Programming
    <2>4. Idle'
      <3>1. CASE call[c].wait = "done"
        BY <1>2, <1>a, <2>1, <3>1 DEF IInv, OneJobAtATime, Idle
      <3>2. CASE call[c].wait = "abort"
        BY <1>a, <3>2 DEF Idle
      <3>. QED BY <2>3, <3>1, <3>2
    <2>5. \A d \in Callers : call'[d].at \notin Sections
      BY <1>1, <1>2, <1>3 DEF IInv, TypeOK, Sections
    <2>. QED BY <2>2, <2>4, <2>5 DEF OneJobAtATime, Idle, Running, Sections
  <1>8. Buffers'
    BY <1>1, <1>2 DEF IInv, Buffers, Answered, Running, TypeOK, Sections
  <1>9. Verdict'
    <2>1. SUFFICES ASSUME ~guest.smp PROVE Verdict'
      BY <1>2 DEF Verdict
    <2>2. \A d \in Callers : call'[d].at \notin Sections
      BY <1>1, <1>2, <1>3 DEF IInv, TypeOK, Sections
    <2>3. ASSUME r.ret = "failed" PROVE "ERROR" \in r.status
      <3>1. r.ret = Outcome(c)
        BY <1>c
      <3>2. call[c].wait = "done"
        BY <1>2, <2>3, <3>1 DEF IInv, Programming, Outcome
      <3>3. ~device.exec_timer /\ call[c].status = device.status
        BY <1>2, <2>1, <3>2 DEF IInv, OneJobAtATime, Verdict, Idle
      <3>4. "ERROR" \in irq_status => "ERROR" \in device.status
        BY <1>2, <2>1 DEF IInv, Verdict, Reported, Running
      <3>5. "BUSY" \notin device.status
        BY <3>3 DEF IInv, BusyMeansArmed
      <3>6. "DONE" \in device.status \/ "ERROR" \in device.status
        BY <1>2, <2>1, <3>5 DEF IInv, Verdict, Running
      <3>7. "ERROR" \in irq_status \/ "ERROR" \in call[c].status
              \/ "DONE" \notin call[c].status
        BY <2>3, <3>1, <3>2 DEF Outcome
      <3>. QED BY <1>1, <3>3, <3>4, <3>6, <3>7
    <2>4. ASSUME NEW d \in Callers, call'[d].ret = "failed" PROVE "ERROR" \in call'[d].status
      <3>1. CASE d = c
        BY <1>3, <2>3, <2>4, <3>1
      <3>2. CASE d # c
        BY <1>3, <2>1, <2>4, <3>2 DEF IInv, Verdict
      <3>. QED BY <3>1, <3>2
    <2>. QED BY <2>2, <2>4 DEF Verdict, Running, Sections
  <1>. QED BY <1>4, <1>5, <1>6, <1>7, <1>8, <1>9 DEF IInv

\* One buffer is written.
LEMMA BufferUpdate ==
  ASSUME NEW m \in [Addresses -> BufferStates], NEW a \in Addresses, NEW b \in BufferStates
  PROVE  /\ [m EXCEPT ![a] = b] \in [Addresses -> BufferStates]
         /\ [m EXCEPT ![a] = b][a] = b
         /\ \A e \in Addresses \ {a} : [m EXCEPT ![a] = b][e] = m[e]
  OBVIOUS

\* The buffers are filled: nobody else holds them (tinygpu_pci.c:169-194).
LEMMA PrepareStep ==
  ASSUME IInv, NEW c \in Callers, NEW a \in Addresses, Prepare(c, a)
  PROVE  IInv'
  <1>. DEFINE r == [NoCall EXCEPT !.at = "prepared", !.buffers = a]
              b == [Blank EXCEPT !.input = Input(c)]
  <1>1. /\ r \in CallStates /\ r.buffers = a /\ r.at = "prepared" /\ r.ret = "none"
    BY DEF NoCall, CallStates
  <1>2. b \in BufferStates /\ b.input = Input(c)
    BY DEF Blank, BufferStates, JobInputs
  <1>3. /\ call[c].at = "user"
        /\ call' = [call EXCEPT ![c] = r] /\ memory' = [memory EXCEPT ![a] = b]
        /\ guest' = guest /\ device' = device /\ lock' = lock /\ done' = done
        /\ irq_status' = irq_status /\ handler' = handler
    BY DEF Prepare, At
  <1>4. a # NoAddress /\ \A d \in Callers : call[d].buffers # a
    BY NoAddressAssumption DEF Prepare, Held
  <1>. HIDE DEF r, b
  <1>5. /\ call' \in [Callers -> CallStates]
        /\ call'[c] = r /\ \A d \in Callers \ {c} : call'[d] = call[d]
    BY <1>1, <1>3, CallUpdate DEF IInv, TypeOK
  <1>6. /\ memory' \in [Addresses -> BufferStates]
        /\ memory'[a] = b /\ \A e \in Addresses \ {a} : memory'[e] = memory[e]
    BY <1>2, <1>3, BufferUpdate DEF IInv, TypeOK
  <1>7. \A d \in Callers \ {c} : call[d].at # "user" => call[d].buffers \in Addresses \ {a}
    BY <1>4 DEF IInv, TypeOK, CallStates
  <1>8. TypeOK'
    <2>1. \A d \in Callers : lock' = d <=> call'[d].at \in Sections
      BY <1>1, <1>3, <1>5 DEF IInv, TypeOK, Sections
    <2>2. \A d \in Callers : call'[d].at = "user" <=> call'[d].buffers = NoAddress
      BY <1>1, <1>4, <1>5 DEF IInv, TypeOK
    <2>3. \A d, e \in Callers :
            call'[d].buffers = call'[e].buffers => d = e \/ call'[d].buffers = NoAddress
      BY <1>1, <1>4, <1>5 DEF IInv, TypeOK
    <2>. QED BY <1>3, <1>5, <1>6, <2>1, <2>2, <2>3 DEF IInv, TypeOK
  <1>9. BusyMeansArmed'
    BY <1>3 DEF IInv, BusyMeansArmed
  <1>10. Programming'
    BY <1>1, <1>3 DEF IInv, Programming, Idle
  <1>11. OneJobAtATime'
    BY <1>1, <1>3 DEF IInv, OneJobAtATime, Idle, Running
  <1>12. Buffers'
    <2>1. \A d \in Callers \ {c} : call[d].at # "user" =>
            memory'[call'[d].buffers] = memory[call[d].buffers]
      BY <1>5, <1>6, <1>7
    <2>. QED BY <1>1, <1>2, <1>3, <1>5, <1>6, <2>1 DEF IInv, Buffers, Answered, Running
  <1>13. Verdict'
    BY <1>1, <1>3 DEF IInv, Verdict, Reported, Running
  <1>. QED BY <1>8, <1>9, <1>10, <1>11, <1>12, <1>13 DEF IInv

\* The buffers are freed: no other call's are (tinygpu_pci.c:248-257).
LEMMA ReturnStep ==
  ASSUME IInv, NEW c \in Callers, Return(c)
  PROVE  IInv'
  <1>. DEFINE a == call[c].buffers
  <1>1. /\ NoCall \in CallStates /\ NoCall.at = "user" /\ NoCall.buffers = NoAddress
        /\ NoCall.ret = "none"
    BY DEF NoCall, CallStates
  <1>2. Blank \in BufferStates
    BY DEF Blank, BufferStates, JobInputs
  <1>3. /\ call[c].at = "unlocked"
        /\ call' = [call EXCEPT ![c] = NoCall] /\ memory' = [memory EXCEPT ![a] = Blank]
        /\ guest' = guest /\ device' = device /\ lock' = lock /\ done' = done
        /\ irq_status' = irq_status /\ handler' = handler
    BY DEF Return, At
  <1>4. a \in Addresses
    BY <1>3 DEF IInv, TypeOK, CallStates
  <1>5. /\ call' \in [Callers -> CallStates]
        /\ call'[c] = NoCall /\ \A d \in Callers \ {c} : call'[d] = call[d]
    BY <1>1, <1>3, CallUpdate DEF IInv, TypeOK
  <1>6. /\ memory' \in [Addresses -> BufferStates]
        /\ \A e \in Addresses \ {a} : memory'[e] = memory[e]
    BY <1>2, <1>3, <1>4, BufferUpdate DEF IInv, TypeOK
  <1>7. \A d \in Callers \ {c} : call[d].at # "user" => call[d].buffers \in Addresses \ {a}
    BY <1>4, NoAddressAssumption DEF IInv, TypeOK, CallStates
  <1>. HIDE DEF a
  <1>8. TypeOK'
    <2>1. \A d \in Callers : lock' = d <=> call'[d].at \in Sections
      BY <1>1, <1>3, <1>5 DEF IInv, TypeOK, Sections
    <2>2. \A d \in Callers : call'[d].at = "user" <=> call'[d].buffers = NoAddress
      BY <1>1, <1>5 DEF IInv, TypeOK
    <2>3. \A d, e \in Callers :
            call'[d].buffers = call'[e].buffers => d = e \/ call'[d].buffers = NoAddress
      BY <1>1, <1>5 DEF IInv, TypeOK
    <2>. QED BY <1>3, <1>5, <1>6, <2>1, <2>2, <2>3 DEF IInv, TypeOK
  <1>9. BusyMeansArmed'
    BY <1>3 DEF IInv, BusyMeansArmed
  <1>10. Programming'
    BY <1>1, <1>3 DEF IInv, Programming, Idle
  <1>11. OneJobAtATime'
    BY <1>1, <1>3 DEF IInv, OneJobAtATime, Idle, Running
  <1>12. Buffers'
    <2>1. \A d \in Callers \ {c} : call[d].at # "user" =>
            memory'[call'[d].buffers] = memory[call[d].buffers]
      BY <1>5, <1>6, <1>7
    <2>. QED BY <1>1, <1>3, <1>5, <2>1 DEF IInv, Buffers, Answered, Running
  <1>13. Verdict'
    BY <1>1, <1>3 DEF IInv, Verdict, Reported, Running
  <1>. QED BY <1>8, <1>9, <1>10, <1>11, <1>12, <1>13 DEF IInv

-----------------------------------------------------------------------------
(* Steps of the device and of the handler.                                 *)

\* On one CPU the job that runs is the lock holder's.
LEMMA RunningJob ==
  ASSUME IInv, ~guest.smp, device.exec_timer
  PROVE  /\ lock \in Callers
         /\ call[lock].at \in Running
         /\ device.dma = call[lock].buffers
         /\ handler.at = "idle"
         /\ call[lock].at = "waiting" => ~done
  <1>1. lock \in Callers /\ handler.at = "idle"
    BY DEF IInv, OneJobAtATime, Idle, TypeOK
  <1>2. call[lock].at \in Running
    BY <1>1 DEF IInv, TypeOK, Sections, Running, OneJobAtATime, Idle
  <1>. QED BY <1>1, <1>2 DEF IInv, OneJobAtATime, Idle

\* The timer fires: the job's output, if any, goes to the job's buffer
\* (tinygpu.c:331-380).
LEMMA TimerFiresStep ==
  ASSUME IInv, NEW ok \in BOOLEAN, TimerFires(ok)
  PROVE  IInv'
  <1>. DEFINE a == device.dma
              b == [memory[a] EXCEPT !.output = OutputFrom(memory[a].input)]
  <1>1. device.exec_timer /\ device \in DeviceStates /\ guest.msi \in BOOLEAN
    BY GuestsAssumption DEF TimerFires, IInv, TypeOK
  <1>2. a \in Addresses
    BY <1>1 DEF IInv, Programming, DeviceStates
  <1>3. /\ call' = call /\ guest' = guest /\ lock' = lock /\ done' = done
        /\ irq_status' = irq_status /\ handler' = handler
        /\ device' = Completed(device, guest.msi, ok)
        /\ memory' = IF ok THEN [memory EXCEPT ![a] = b] ELSE memory
    BY DEF TimerFires
  <1>4. /\ device' \in DeviceStates /\ device'.exec_timer = FALSE /\ device'.control = FALSE
        /\ device'.dma = device.dma
        /\ ok => /\ device'.status = (device.status \ {"BUSY"}) \cup {"DONE"}
                 /\ device'.irq_status = device.irq_status \cup {"COMPLETE"}
        /\ ~ok => /\ device'.status = (device.status \ {"BUSY"}) \cup {"ERROR"}
                  /\ device'.irq_status = device.irq_status \cup {"ERROR"}
    <2>1. device' = Completed(device, guest.msi, ok)
      BY <1>3
    <2>. DEFINE d == Completed(device, guest.msi, ok)
    <2>2. /\ d \in DeviceStates /\ d.exec_timer = FALSE /\ d.control = FALSE
          /\ d.dma = device.dma
          /\ ok => /\ d.status = (device.status \ {"BUSY"}) \cup {"DONE"}
                   /\ d.irq_status = device.irq_status \cup {"COMPLETE"}
          /\ ~ok => /\ d.status = (device.status \ {"BUSY"}) \cup {"ERROR"}
                    /\ d.irq_status = device.irq_status \cup {"ERROR"}
      BY <1>1, CompletedFacts, ZenonT(60)
    <2>. HIDE DEF d
    <2>3. device' = d
      BY <2>1 DEF d
    <2>. QED BY <2>2, <2>3
  <1>5. memory[a] \in BufferStates
    BY <1>2 DEF IInv, TypeOK
  <1>6. b \in BufferStates /\ b.input = memory[a].input
        /\ b.output = OutputFrom(memory[a].input)
    BY <1>5 DEF BufferStates
  <1>. HIDE DEF b
  <1>7. /\ memory' \in [Addresses -> BufferStates]
        /\ \A e \in Addresses : memory'[e].input = memory[e].input
        /\ \A e \in Addresses \ {a} : memory'[e] = memory[e]
        /\ ok => memory'[a].output = OutputFrom(memory[a].input)
        /\ ~ok => memory' = memory
    BY <1>2, <1>3, <1>6, BufferUpdate DEF IInv, TypeOK
  <1>. HIDE DEF a
  <1>8. TypeOK'
    BY <1>3, <1>4, <1>7 DEF IInv, TypeOK
  <1>9. BusyMeansArmed'
    BY <1>4 DEF BusyMeansArmed
  <1>10. Programming'
    BY <1>1, <1>3, <1>4 DEF IInv, Programming, Idle
  <1>11. OneJobAtATime'
    <2>1. SUFFICES ASSUME ~guest.smp PROVE OneJobAtATime'
      BY <1>3 DEF OneJobAtATime
    <2>2. lock' # Nobody
      BY <1>1, <1>3, <2>1, RunningJob, NobodyAssumption DEF Nobody
    <2>3. handler'.at = "idle"
      BY <1>1, <1>3, <2>1, RunningJob
    <2>4. \A d \in Callers : call'[d].at \notin {"locked", "programmed"}
      BY <1>1, <1>3, <2>1 DEF IInv, OneJobAtATime, Idle
    <2>5. \A d \in Callers : ~(call'[d].at = "waiting" /\ done')
      BY <1>1, <1>3, <2>1, <2>3 DEF IInv, OneJobAtATime, Idle
    <2>6. \A d \in Callers :
            ~(call'[d].at \in {"woken", "checked"} /\ call'[d].wait = "done")
      BY <1>1, <1>3, <2>1 DEF IInv, OneJobAtATime, Idle
    <2>. QED BY <1>4, <2>2, <2>3, <2>4, <2>5, <2>6 DEF OneJobAtATime
  <1>12. Buffers'
    <2>1. \A d \in Callers : call[d].at # "user" => call[d].buffers \in Addresses
      BY DEF IInv, TypeOK, CallStates
    <2>2. \A d \in Callers :
            /\ call'[d].at # "user" => memory'[call'[d].buffers].input = Input(d)
            /\ call'[d].ret # "none" => call'[d].at = "unlocked"
            /\ call'[d].ret = "ok" => "DONE" \in call'[d].status
      BY <1>3, <1>7, <2>1 DEF IInv, Buffers
    <2>3. ASSUME ~guest.smp, NEW d \in Callers
          PROVE  /\ call[d].at \in Running /\ "DONE" \in device'.status => Answered(d)'
                 /\ call[d].at \in {"checked", "unlocked"} /\ "DONE" \in call[d].status
                      => Answered(d)'
      <3>1. /\ lock \in Callers /\ call[lock].at \in Running
            /\ a = call[lock].buffers /\ memory[a].input = Input(lock)
        BY <1>1, <2>3, RunningJob DEF IInv, Buffers, Running, a
      <3>2. CASE d = lock
        <4>1. CASE ok
          BY <1>3, <1>7, <3>1, <3>2, <4>1 DEF Answered
        <4>2. CASE ~ok
          BY <1>3, <1>4, <1>7, <2>3, <4>2 DEF IInv, Buffers, Answered
        <4>. QED BY <4>1, <4>2
      <3>3. CASE d # lock
        <4>1. call[d].at \notin Running
          BY <3>3 DEF IInv, TypeOK, Sections, Running
        <4>2. CASE call[d].at \in {"checked", "unlocked"}
          <5>1. call[d].buffers \in Addresses \ {a}
            BY <2>1, <3>1, <3>3, <4>2, NoAddressAssumption DEF IInv, TypeOK
          <5>. QED BY <1>3, <1>7, <2>3, <4>1, <5>1 DEF IInv, Buffers, Answered
        <4>. QED BY <4>1, <4>2
      <3>. QED BY <3>2, <3>3
    <2>. QED BY <1>3, <2>2, <2>3 DEF Buffers
  <1>13. Verdict'
    BY <1>1, <1>3, <1>4 DEF IInv, Verdict, Reported, OneJobAtATime, Idle
  <1>. QED BY <1>8, <1>9, <1>10, <1>11, <1>12, <1>13 DEF IInv

\* A handler that finds a status bit finds the device without a job
\* (tinygpu_pci.c:146-148).
LEMMA HandlerReadsStep ==
  ASSUME IInv, HandlerReads
  PROVE  IInv'
  <1>1. /\ handler.at = "idle" /\ guest' = guest /\ lock' = lock /\ done' = done
        /\ irq_status' = irq_status /\ call' = call /\ memory' = memory
        /\ handler' = IF device.irq_status = {} THEN NoHandler
                      ELSE [at |-> "read", status |-> device.irq_status, stores |-> {}]
    BY DEF HandlerReads
  <1>2. /\ device' \in DeviceStates
        /\ device'.exec_timer = device.exec_timer /\ device'.control = device.control
        /\ device'.status = device.status /\ device'.irq_status = device.irq_status
        /\ device'.dma = device.dma
    BY DEF HandlerReads, IInv, TypeOK, DeviceStates
  <1>3. /\ handler' \in HandlerStates
        /\ handler'.at \in {"idle", "read"}
        /\ handler'.at = "read" =>
             device.irq_status # {} /\ handler'.status = device.irq_status
    BY <1>1 DEF NoHandler, HandlerStates, IInv, TypeOK, DeviceStates
  <1>4. TypeOK'
    BY <1>1, <1>2, <1>3 DEF IInv, TypeOK
  <1>5. BusyMeansArmed'
    BY <1>2 DEF IInv, BusyMeansArmed
  <1>6. Programming'
    BY <1>1, <1>2 DEF IInv, Programming, Idle
  <1>7. OneJobAtATime'
    BY <1>1, <1>2, <1>3 DEF IInv, OneJobAtATime, Programming, Idle
  <1>8. Buffers'
    BY <1>1, <1>2 DEF IInv, Buffers, Answered
  <1>9. Verdict'
    <2>1. "ERROR" \in Reported' => "ERROR" \in Reported
      BY <1>1, <1>2, <1>3 DEF Reported
    <2>. QED BY <1>1, <1>2, <2>1 DEF IInv, Verdict, Running
  <1>. QED BY <1>4, <1>5, <1>6, <1>7, <1>8, <1>9 DEF IInv

\* The acknowledgement clears what was read (tinygpu_pci.c:150).
LEMMA HandlerAcknowledgesStep ==
  ASSUME IInv, HandlerAcknowledges
  PROVE  IInv'
  <1>1. /\ handler.at = "read" /\ guest' = guest /\ lock' = lock /\ done' = done
        /\ irq_status' = irq_status /\ call' = call /\ memory' = memory
        /\ handler' = [handler EXCEPT !.at = "stores", !.stores = {"irq_status", "done"}]
    BY DEF HandlerAcknowledges
  <1>2. /\ device' \in DeviceStates
        /\ device'.exec_timer = device.exec_timer /\ device'.control = device.control
        /\ device'.status = device.status
        /\ device'.irq_status = device.irq_status \ handler.status
        /\ device'.dma = device.dma
    <2>1. handler.status \in SUBSET IrqMask /\ device \in DeviceStates
      BY DEF IInv, TypeOK, HandlerStates
    <2>2. device' = WriteIrqStatus(device, handler.status)
      BY DEF HandlerAcknowledges
    <2>. QED BY <2>1, <2>2, WriteIrqStatusFacts DEF DeviceStates
  <1>3. handler' \in HandlerStates /\ handler'.at = "stores"
    BY <1>1 DEF HandlerStates, IInv, TypeOK
  <1>4. TypeOK'
    BY <1>1, <1>2, <1>3 DEF IInv, TypeOK
  <1>5. BusyMeansArmed'
    BY <1>2 DEF IInv, BusyMeansArmed
  <1>6. Programming'
    BY <1>1, <1>2 DEF IInv, Programming, Idle
  <1>7. OneJobAtATime'
    BY <1>1, <1>2 DEF IInv, OneJobAtATime, Idle
  <1>8. Buffers'
    BY <1>1, <1>2 DEF IInv, Buffers, Answered
  <1>9. Verdict'
    BY <1>1, <1>2 DEF IInv, Verdict, Reported
  <1>. QED BY <1>4, <1>5, <1>6, <1>7, <1>8, <1>9 DEF IInv

\* The handler's stores (tinygpu_pci.c:151-153).
LEMMA HandlerStoresStep ==
  ASSUME IInv, NEW store \in {"irq_status", "done"}, HandlerStores(store)
  PROVE  IInv'
  <1>1. /\ handler.at = "stores" /\ guest' = guest /\ lock' = lock /\ device' = device
        /\ call' = call /\ memory' = memory
        /\ irq_status' = IF store = "irq_status" THEN handler.status ELSE irq_status
        /\ done' \in BOOLEAN
        /\ handler' = IF handler.stores = {store} THEN NoHandler
                      ELSE [handler EXCEPT !.stores = handler.stores \ {store}]
    BY DEF HandlerStores
  <1>2. handler' \in HandlerStates /\ handler'.at \in {"idle", "stores"}
    BY <1>1 DEF NoHandler, HandlerStates, IInv, TypeOK
  <1>3. irq_status' \subseteq IrqMask
    BY <1>1 DEF IInv, TypeOK, HandlerStates
  <1>4. TypeOK'
    BY <1>1, <1>2, <1>3 DEF IInv, TypeOK
  <1>5. BusyMeansArmed'
    BY <1>1 DEF IInv, BusyMeansArmed
  <1>6. Programming'
    BY <1>1 DEF IInv, Programming, Idle
  <1>7. OneJobAtATime'
    BY <1>1 DEF IInv, OneJobAtATime, Idle
  <1>8. Buffers'
    BY <1>1 DEF IInv, Buffers, Answered
  <1>9. Verdict'
    <2>1. handler'.at = "idle" \/ handler'.status = handler.status
      BY <1>1 DEF NoHandler, IInv, TypeOK, HandlerStates
    <2>2. "ERROR" \in Reported' => "ERROR" \in Reported
      BY <1>1, <2>1 DEF Reported
    <2>3. \A d \in Callers : call[d].at \notin {"locked", "programmed"} \/ guest.smp
      BY <1>1 DEF IInv, OneJobAtATime
    <2>. QED BY <1>1, <2>2, <2>3 DEF IInv, Verdict, Running
  <1>. QED BY <1>4, <1>5, <1>6, <1>7, <1>8, <1>9 DEF IInv

-----------------------------------------------------------------------------
(* Theorems.                                                               *)

\* The invariant holds when the guest has booted.
LEMMA InitInvariant == Init => IInv
  <1>1. SUFFICES ASSUME Init PROVE IInv
    OBVIOUS
  <1>2. TypeOK
    <2>1. device \in DeviceStates
      BY <1>1 DEF Init, PoweredOn, DeviceStates
    <2>2. handler \in HandlerStates
      BY <1>1 DEF Init, NoHandler, HandlerStates
    <2>3. NoCall \in CallStates /\ NoCall.at = "user" /\ NoCall.buffers = NoAddress
      BY DEF NoCall, CallStates
    <2>4. Blank \in BufferStates
      BY DEF Blank, BufferStates, JobInputs
    <2>. QED BY <1>1, <2>1, <2>2, <2>3, <2>4, NobodyAssumption DEF Init, TypeOK, Sections, Nobody
  <1>3. BusyMeansArmed
    BY <1>1 DEF Init, PoweredOn, BusyMeansArmed
  <1>4. Programming
    BY <1>1 DEF Init, PoweredOn, NoCall, Programming
  <1>5. OneJobAtATime
    BY <1>1 DEF Init, PoweredOn, NoCall, NoHandler, OneJobAtATime, Idle, Running
  <1>6. Buffers
    BY <1>1 DEF Init, NoCall, Buffers, Running
  <1>7. Verdict
    BY <1>1 DEF Init, NoCall, Verdict, Running
  <1>. QED BY <1>2, <1>3, <1>4, <1>5, <1>6, <1>7 DEF IInv

\* Each step of a call, of the handler and of the device keeps it.
LEMMA NextInvariant == IInv /\ [Next]_vars => IInv'
  <1>1. SUFFICES ASSUME IInv, [Next]_vars PROVE IInv'
    OBVIOUS
  <1>2. CASE HandlerStep
    BY <1>1, <1>2, HandlerReadsStep, HandlerAcknowledgesStep, HandlerStoresStep DEF
       HandlerStep
  <1>3. ASSUME NEW ok \in BOOLEAN, TimerFires(ok) PROVE IInv'
    BY <1>1, <1>3, TimerFiresStep
  <1>4. ASSUME NEW c \in Callers, CallStep(c) PROVE IInv'
    BY <1>1, <1>4, PrepareStep, LockStep, ProgramStep, GoStep, WakeStep, AbortStep,
       ReadStatusStep, UnlockStep, ReturnStep DEF CallStep
  <1>5. CASE UNCHANGED vars
    <2>1. /\ TypeOK' /\ BusyMeansArmed'
      BY <1>1, <1>5 DEF vars, IInv, TypeOK, BusyMeansArmed
    <2>2. Programming' /\ OneJobAtATime' /\ Buffers'
    BY <1>1, <1>5 DEF vars, IInv, Programming, OneJobAtATime, Buffers, Idle, Running,
       Answered
    <2>3. Verdict'
      BY <1>1, <1>5 DEF vars, IInv, Verdict, Reported, Running
    <2>. QED BY <2>1, <2>2, <2>3 DEF IInv
  <1>. QED BY <1>1, <1>2, <1>3, <1>4, <1>5 DEF Next

\* The inductive invariant holds in every run of the driver.
THEOREM DriverInvariance == Spec => []IInv
  BY InitInvariant, NextInvariant, PTL DEF Spec

\* The mutex protects what it should: one call at a time is between mutex_lock
\* and mutex_unlock (tinygpu_pci.c:196-246), and no two calls share buffers.
THEOREM DriverTypes == Spec => []TypeOK
  <1>1. IInv => TypeOK
    BY DEF IInv
  <1>. QED BY <1>1, DriverInvariance, PTL

\* Whatever callers, handler and time-outs do, the device's busy bit, START bit
\* and timer agree: the driver never starts a busy device (tinygpu.c:206-211).
THEOREM DeviceConsistent == Spec => []BusyMeansArmed
  <1>1. IInv => BusyMeansArmed
    BY DEF IInv
  <1>. QED BY <1>1, DriverInvariance, PTL

\* On one CPU no DMA buffer is given up while the device may write to it
\* (tinygpu_pci.c:225-257).
THEOREM WaitsOnOneCpu == Spec => []WaitsForExecutionUniprocessor
  <1>1. IInv => WaitsForExecutionUniprocessor
    BY RunningJob DEF WaitsForExecutionUniprocessor, WaitsForExecution
  <1>. QED BY <1>1, DriverInvariance, PTL

\* On one CPU a call that succeeds returns the output of its own job
\* (tinygpu_pci.c:239-250).
THEOREM OutputIsOwn == Spec => []OwnOutput
  <1>1. IInv => OwnOutput
    BY DEF IInv, Buffers, OwnOutput, Answered
  <1>. QED BY <1>1, DriverInvariance, PTL

\* On one CPU a call fails only when the device has reported an error
\* (tinygpu_pci.c:236-243).
THEOREM FailuresReal == Spec => []FailuresAreReal
  <1>1. IInv => FailuresAreReal
    BY DEF IInv, Verdict, FailuresAreReal
  <1>. QED BY <1>1, DriverInvariance, PTL

-----------------------------------------------------------------------------
(* The driver in the life of its module: every step of Host is a step of   *)
(* Driver or leaves its state alone.                                       *)

\* A step of the module's life leaves the driver's state alone.
LEMMA HostStepIsDriverStep == [HostNext]_hostVars => [Next]_vars
  <1> SUFFICES ASSUME [HostNext]_hostVars
               PROVE  [Next]_vars
    OBVIOUS
  <1>1. CASE LifecycleStep
    BY <1>1 DEF LifecycleStep
  <1>2. CASE HandlerRuns
    BY <1>2 DEF HandlerRuns, Next
  <1>3. CASE DeviceRuns
    BY <1>3 DEF DeviceRuns, Next
  <1>4. ASSUME NEW c \in Callers, CallRuns(c)
        PROVE  Next
    BY <1>4 DEF CallRuns, Next
  <1>5. CASE UNCHANGED hostVars
    BY <1>5 DEF hostVars
  <1> QED
    BY <1>1, <1>2, <1>3, <1>4, <1>5 DEF HostNext

\* The driver that is loaded, probed, removed and unloaded implements the driver
\* at work: what Driver's theorems say holds of HostSpec too.
THEOREM HostImplementsDriver == HostSpec => Spec
  <1>1. HostInit => Init
    BY DEF HostInit
  <1> QED
    BY <1>1, HostStepIsDriverStep, PTL DEF HostSpec, Spec

\* On one CPU a submission waits for the end of its execution (tinygpu_submit_job
\* keeps the mutex, and stops the device before it lets go), also while the
\* module comes and goes.
THEOREM HostWaitsOnOneCpu == HostSpec => []WaitsForExecutionUniprocessor
  BY HostImplementsDriver, WaitsOnOneCpu, PTL

\* A call that succeeds returns the output of its own job, also while the module
\* comes and goes.
THEOREM HostOutputIsOwn == HostSpec => []OwnOutput
  BY HostImplementsDriver, OutputIsOwn, PTL
-----------------------------------------------------------------------------
(* The life cycle: what is held while resources are taken and given back.  *)

Steps == {"region", "class", "pci_driver", "enabled", "bar", "gpu", "vectors", "irq",
          "minor", "master", "id", "cdev", "chardev", "managed"}

Order(of) == IF of = "probe" THEN ProbeOrder ELSE ModuleOrder

\* What a function that fails leaves as it found it.
Kept(of) == IF of = "probe" THEN ModuleResources ELSE {}

Suffix(s, i) == SubSeq(s, i, Len(s))

TakenBefore(of, i) == {Order(of)[j] : j \in 1 .. i - 1} \ {"id"}

\* A function on its way holds what its steps so far have taken.
HoldsWhatItTook ==
  doing.what = "taking" =>
    /\ doing.of \in {"init", "probe"}
    /\ \E i \in 1 .. Len(Order(doing.of)) :
         /\ doing.todo = Suffix(Order(doing.of), i)
         /\ held = Kept(doing.of) \cup TakenBefore(doing.of, i)

FreedBy(steps) == UNION {Freed(steps[j]) : j \in 1 .. Len(steps)}

HandlerNeeds == {"bar", "gpu", "vectors", "irq"}

\* The interrupt is given back before anything its handler needs.
IrqFirst(steps) ==
  \A i, j \in 1 .. Len(steps) :
    steps[i] = "irq" /\ Freed(steps[j]) \cap HandlerNeeds # {} => i <= j

\* What is kept is held and not given back, everything else that is held is.
GivesBackTheRest ==
  doing.what = "releasing" =>
    /\ doing.todo # <<>>
    /\ Kept(doing.of) \subseteq held
    /\ held \subseteq Kept(doing.of) \cup FreedBy(doing.todo)
    /\ Kept(doing.of) \cap FreedBy(doing.todo) = {}
    /\ IrqFirst(doing.todo)

Doings ==
  /\ doing \in [what : {"nothing", "taking", "releasing"}, todo : Seq(Steps),
                of : {"none", "init", "probe", "exit"}]
  /\ doing.what = "nothing" => doing = Resting

HandlerHasItsNeeds == "irq" \in held => HandlerNeeds \subseteq held

LifecycleInv ==
  Doings /\ HoldsWhatItTook /\ GivesBackTheRest /\ NothingLeaks /\ HandlerHasItsNeeds

\* The functions' steps.
LEMMA OrderLengths ==
  /\ ProbeOrder \in Seq(Steps) /\ Len(ProbeOrder) = 10
  /\ ModuleOrder \in Seq(Steps) /\ Len(ModuleOrder) = 3
  BY DEF ProbeOrder, ModuleOrder, Steps

\* The resources, listed.
LEMMA Resources ==
  /\ ModuleResources = {"region", "class", "pci_driver"}
  /\ DeviceResources = {"enabled", "bar", "gpu", "vectors", "irq", "minor", "master",
                        "cdev", "chardev"}
  <1>1. ModuleResources = {"region", "class", "pci_driver"}
    <2>1. 1 .. 3 = {1, 2, 3}
      OBVIOUS
    <2> QED
      BY <2>1, OrderLengths DEF ModuleResources, ModuleOrder
  <1>2. DeviceResources = {"enabled", "bar", "gpu", "vectors", "irq", "minor", "master",
                           "cdev", "chardev"}
    <2>1. 1 .. 10 = {1, 2, 3, 4, 5, 6, 7, 8, 9, 10}
      OBVIOUS
    <2> QED
      BY <2>1, OrderLengths DEF DeviceResources, ProbeOrder
  <1> QED
    BY <1>1, <1>2

\* After the last step of a function its resources are held.
LEMMA TakenInAll ==
  /\ \A of \in {"init", "probe"} : TakenBefore(of, 1) = {}
  /\ TakenBefore("init", 4) = ModuleResources
  /\ TakenBefore("probe", 11) = DeviceResources
  <1>1. 1 .. 0 = {}
    OBVIOUS
  <1> QED
    BY <1>1, OrderLengths, Resources
    DEF TakenBefore, Order, ModuleResources, DeviceResources, ModuleOrder

\* A step that succeeds adds its resource.
LEMMA TakenNext ==
  ASSUME NEW of \in {"init", "probe"}, NEW i \in 1 .. Len(Order(of))
  PROVE  TakenBefore(of, i + 1) = TakenBefore(of, i) \cup ({Order(of)[i]} \ {"id"})
  <1>1. i \in Int
    BY OrderLengths DEF Order
  <1>2. 1 .. (i + 1) - 1 = (1 .. i - 1) \cup {i}
    BY <1>1, OrderLengths DEF Order
  <1> QED
    BY <1>2 DEF TakenBefore

\* Giving back in steps.
LEMMA FreedByFirst ==
  ASSUME NEW s \in Seq(Steps), s # <<>>
  PROVE  /\ FreedBy(s) = Freed(Head(s)) \cup FreedBy(Tail(s))
         /\ IrqFirst(s) => IrqFirst(Tail(s))
  <1>1. /\ Len(s) \in Nat \ {0} /\ Len(Tail(s)) = Len(s) - 1
        /\ \A i \in 1 .. Len(Tail(s)) : Tail(s)[i] = s[i + 1]
        /\ Head(s) = s[1]
    BY HeadTailProperties, EmptySeq
  <1>2. FreedBy(s) \subseteq Freed(Head(s)) \cup FreedBy(Tail(s))
    <2> SUFFICES ASSUME NEW i \in 1 .. Len(s), NEW r \in Freed(s[i]), i # 1
                 PROVE  r \in FreedBy(Tail(s))
      BY <1>1 DEF FreedBy
    <2>1. i - 1 \in 1 .. Len(Tail(s)) /\ Tail(s)[i - 1] = s[i]
      BY <1>1
    <2> QED
      BY <2>1 DEF FreedBy
  <1>3. Freed(Head(s)) \cup FreedBy(Tail(s)) \subseteq FreedBy(s)
    <2>1. \A i \in 1 .. Len(Tail(s)) : i + 1 \in 1 .. Len(s) /\ Tail(s)[i] = s[i + 1]
      BY <1>1
    <2>2. 1 \in 1 .. Len(s) /\ Head(s) = s[1]
      BY <1>1
    <2> QED
      BY <2>1, <2>2 DEF FreedBy
  <1>4. ASSUME IrqFirst(s)
        PROVE  IrqFirst(Tail(s))
    <2> SUFFICES ASSUME NEW i \in 1 .. Len(Tail(s)), NEW j \in 1 .. Len(Tail(s)),
                        Tail(s)[i] = "irq", Freed(Tail(s)[j]) \cap HandlerNeeds # {}
                 PROVE  i <= j
      BY DEF IrqFirst
    <2>1. /\ i + 1 \in 1 .. Len(s) /\ Tail(s)[i] = s[i + 1]
          /\ j + 1 \in 1 .. Len(s) /\ Tail(s)[j] = s[j + 1]
      BY <1>1
    <2>2. i + 1 <= j + 1
      BY <2>1, <1>4 DEF IrqFirst
    <2> QED
      BY <2>2, <1>1
  <1> QED
    BY <1>2, <1>3, <1>4

\* Nothing is left to do.
LEMMA NoSteps ==
  /\ <<>> \in Seq(Steps) /\ FreedBy(<<>>) = {} /\ IrqFirst(<<>>)
  /\ \A s \in Seq(Steps) : s = <<>> <=> Len(s) = 0
  <1>1. <<>> \in Seq(Steps) /\ Len(<<>>) = 0
    BY EmptySeq
  <1>2. 1 .. Len(<<>>) = {}
    BY <1>1
  <1>3. FreedBy(<<>>) = {} /\ IrqFirst(<<>>)
    BY <1>2, Zenon DEF FreedBy, IrqFirst
  <1>4. \A s \in Seq(Steps) : s = <<>> <=> Len(s) = 0
    BY <1>1, EmptySeq
  <1> QED
    BY <1>1, <1>3, <1>4

\* Where each step enters its error path.
LEMMA Entries ==
  /\ \A step \in {"enabled", "bar", "gpu", "vectors"} : Entry(step) = 6
  /\ Entry("irq") = 5
  /\ Entry("minor") = 4
  /\ \A step \in {"id", "cdev", "class"} : Entry(step) = 2
  /\ \A step \in {"chardev", "pci_driver"} : Entry(step) = 1
  /\ Entry("region") = 3
  BY DEF Entry

\* The error paths' lengths.
LEMMA ErrorPaths ==
  ASSUME NEW of
  PROVE  /\ ErrorPath(of) \in Seq(Steps)
         /\ of = "probe" => Len(ErrorPath(of)) = 6
         /\ of # "probe" => Len(ErrorPath(of)) = 2
  <1>1. CASE of = "probe"
    BY <1>1 DEF ErrorPath, Steps
  <1>2. CASE of # "probe"
    BY <1>2 DEF ErrorPath, Steps
  <1> QED
    BY <1>1, <1>2

\* The part of an error path behind its entry.
LEMMA Undoing ==
  ASSUME NEW of, NEW step, Entry(step) \in 1 .. 6
  PROVE  LET undo == Undo(of, step)
             path == ErrorPath(of)
             k == Entry(step)
         IN  /\ undo \in Seq(Steps)
             /\ Len(undo) = IF k <= Len(path) THEN Len(path) - k + 1 ELSE 0
             /\ \A j \in 1 .. Len(undo) : k + j - 1 \in k .. Len(path) /\ undo[j] = path[k + j - 1]
             /\ \A j \in k .. Len(path) : Freed(path[j]) \subseteq FreedBy(undo)
  <1> DEFINE path == ErrorPath(of)
             k == Entry(step)
             undo == Undo(of, step)
             n == Len(path)
  <1>1. path \in Seq(Steps)
    BY ErrorPaths
  <1>2. undo = SubSeq(path, k, n) /\ k \in 1 .. 6
    BY DEF Undo
  <1> HIDE DEF path, k, undo
  <1>3. \A j \in k .. n : path[j] \in Steps
    BY <1>1, <1>2
  <1>4. /\ undo \in Seq(Steps)
        /\ Len(undo) = IF k <= n THEN n - k + 1 ELSE 0
        /\ \A j \in 1 .. n - k + 1 : undo[j] = path[k + j - 1]
    <2>1. k \in Int /\ n \in Int
      BY <1>1, <1>2
    <2> QED
      BY <2>1, <1>2, <1>3, SubSeqProperties
  <1>5. ASSUME NEW j \in k .. n
        PROVE  Freed(path[j]) \subseteq FreedBy(undo)
    <2>1. j - k + 1 \in 1 .. Len(undo) /\ undo[j - k + 1] = path[j]
      BY <1>1, <1>2, <1>4
    <2> QED
      BY <2>1 DEF FreedBy
  <1>6. \A j \in 1 .. Len(undo) : k + j - 1 \in k .. Len(path) /\ undo[j] = path[k + j - 1]
    BY <1>1, <1>2, <1>4
  <1> QED
    BY <1>4, <1>5, <1>6 DEF path, k, undo

\* Each step of a function that fails enters the error path where everything
\* taken before is given back, and nothing else that is held.
LEMMA UndoSuffices ==
  ASSUME NEW of \in {"init", "probe"}, NEW i \in 1 .. Len(Order(of)),
         Order(of)[i] # "master"
  PROVE  LET undo == Undo(of, Order(of)[i])
         IN  /\ undo \in Seq(Steps)
             /\ TakenBefore(of, i) \subseteq FreedBy(undo)
             /\ Kept(of) \cap FreedBy(undo) = {}
             /\ IrqFirst(undo)
  <1> DEFINE path == ErrorPath(of)
             k == Entry(Order(of)[i])
             undo == Undo(of, Order(of)[i])
  <1>1. CASE of = "init"
    <2>1. i \in {1, 2, 3} /\ Order(of) = ModuleOrder
      <3>1. Order(of) = ModuleOrder
        BY <1>1 DEF Order
      <3> QED
        BY <3>1, OrderLengths
    <2>2. /\ i = 1 => k = 3
          /\ i = 2 => k = 2
          /\ i = 3 => k = 1
      BY <2>1, Entries DEF ModuleOrder
    <2>3. path = <<"class", "region">> /\ Len(path) = 2
      BY <1>1 DEF ErrorPath
    <2>4. /\ undo \in Seq(Steps)
          /\ Len(undo) = IF k <= Len(path) THEN Len(path) - k + 1 ELSE 0
          /\ \A j \in 1 .. Len(undo) : k + j - 1 \in k .. Len(path) /\ undo[j] = path[k + j - 1]
          /\ \A j \in k .. Len(path) : Freed(path[j]) \subseteq FreedBy(undo)
      <3>1. k \in 1 .. 6
        BY <2>1, <2>2
      <3> QED
        BY <3>1, Undoing
    <2> HIDE DEF k, undo, path
    <2>5. \A j \in k .. 2 : Freed(path[j]) = {path[j]} /\ Freed(path[j]) \subseteq FreedBy(undo)
      <3>1. \A j \in k .. 2 : Freed(path[j]) = {path[j]}
        BY <2>1, <2>2, <2>3 DEF Freed
      <3>2. \A j \in k .. 2 : Freed(path[j]) \subseteq FreedBy(undo)
        BY <2>3, <2>4
      <3> QED
        BY <3>1, <3>2
    <2>6. TakenBefore(of, i) \subseteq FreedBy(undo)
      <3> SUFFICES ASSUME NEW j \in 1 .. i - 1
                   PROVE  ModuleOrder[j] \in FreedBy(undo)
        BY <2>1 DEF TakenBefore
      <3>1. CASE j = 1
        <4>1. 2 \in k .. 2 /\ ModuleOrder[1] = path[2]
          BY <2>1, <2>2, <2>3, <3>1 DEF ModuleOrder
        <4> QED
          BY <2>5, <3>1, <4>1
      <3>2. CASE j = 2
        <4>1. 1 \in k .. 2 /\ ModuleOrder[2] = path[1]
          BY <2>1, <2>2, <2>3, <3>2 DEF ModuleOrder
        <4> QED
          BY <2>5, <3>2, <4>1
      <3> QED
        BY <2>1, <3>1, <3>2
    <2>7. undo \in Seq(Steps) /\ \A j \in 1 .. Len(undo) : undo[j] \in {"class", "region"}
      <3>1. \A m \in 1 .. 2 : path[m] \in {"class", "region"}
        BY <2>3
      <3>2. k \in 1 .. 3
        BY <2>1, <2>2
      <3> QED
        BY <3>1, <3>2, <2>3, <2>4
    <2>8. IrqFirst(undo)
      BY <2>7 DEF IrqFirst
    <2> QED
      BY <1>1, <2>6, <2>7, <2>8 DEF Kept, undo
  <1>2. CASE of = "probe"
    <2>1. i \in 1 .. 10 /\ i # 7 /\ Order(of) = ProbeOrder
      BY <1>2, OrderLengths DEF Order, ProbeOrder
    <2>2. /\ i \in 1 .. 4 => k = 6
          /\ i = 5 => k = 5
          /\ i = 6 => k = 4
          /\ i \in {8, 9} => k = 2
          /\ i = 10 => k = 1
      <3>1. /\ i \in 1 .. 4 => Order(of)[i] \in {"enabled", "bar", "gpu", "vectors"}
            /\ i = 5 => Order(of)[i] = "irq"
            /\ i = 6 => Order(of)[i] = "minor"
            /\ i \in {8, 9} => Order(of)[i] \in {"id", "cdev"}
            /\ i = 10 => Order(of)[i] = "chardev"
        BY <2>1 DEF ProbeOrder
      <3> QED
        BY <3>1, Entries
    <2>3. /\ path = <<"cdev", "master", "minor", "irq", "vectors", "managed">>
          /\ Len(path) = 6
      BY <1>2 DEF ErrorPath
    <2>4. /\ k \in 1 .. 6
          /\ \A j \in k .. 6 : Freed(path[j]) \subseteq FreedBy(undo)
          /\ Len(undo) = 6 - k + 1
          /\ undo \in Seq(Steps)
          /\ \A j \in 1 .. Len(undo) : k + j - 1 \in k .. Len(path) /\ undo[j] = path[k + j - 1]
      <3>1. k \in 1 .. 6
        BY <2>1, <2>2
      <3>2. /\ undo \in Seq(Steps)
            /\ Len(undo) = IF k <= Len(path) THEN Len(path) - k + 1 ELSE 0
            /\ \A j \in 1 .. Len(undo) : k + j - 1 \in k .. Len(path) /\ undo[j] = path[k + j - 1]
            /\ \A j \in k .. Len(path) : Freed(path[j]) \subseteq FreedBy(undo)
        BY <3>1, Undoing
      <3> QED
        BY <3>1, <3>2, <2>3
    <2> HIDE DEF k, undo, path
    <2>5. TakenBefore(of, i) \subseteq FreedBy(undo)
      <3>1. /\ Freed(path[6]) = {"enabled", "bar", "gpu"}
            /\ Freed(path[5]) = {"vectors"} /\ Freed(path[4]) = {"irq"}
            /\ Freed(path[3]) = {"minor"} /\ Freed(path[2]) = {"master"}
            /\ Freed(path[1]) = {"cdev"}
        BY <2>3 DEF Freed, Managed
      <3> SUFFICES ASSUME NEW j \in 1 .. i - 1, ProbeOrder[j] # "id"
                   PROVE  ProbeOrder[j] \in FreedBy(undo)
        BY <2>1 DEF TakenBefore
      <3>2. CASE j \in 1 .. 3
        <4>1. ProbeOrder[j] \in Freed(path[6])
          BY <3>1, <3>2 DEF ProbeOrder
        <4> QED
          BY <4>1, <2>4
      <3>3. CASE j \in {4, 5, 6, 7, 9}
        <4>1. \E m \in k .. 6 : ProbeOrder[j] \in Freed(path[m])
          BY <2>1, <2>2, <3>1, <3>3 DEF ProbeOrder
        <4> QED
          BY <4>1, <2>4
      <3> QED
        BY <2>1, <3>2, <3>3 DEF ProbeOrder
    <2>6. \A j \in 1 .. Len(undo) : Freed(undo[j]) \subseteq DeviceResources \cup {"master"}
      <3>1. \A m \in 1 .. 6 : Freed(path[m]) \subseteq DeviceResources \cup {"master"}
        BY <2>3, Resources DEF Freed, Managed
      <3>2. \A j \in 1 .. Len(undo) : k + j - 1 \in 1 .. 6 /\ undo[j] = path[k + j - 1]
        BY <2>3, <2>4
      <3> QED
        BY <3>1, <3>2
    <2>7. Kept(of) \cap FreedBy(undo) = {}
      BY <1>2, <2>6, Resources DEF Kept, FreedBy
    <2>8. IrqFirst(undo)
      <3> SUFFICES ASSUME NEW a \in 1 .. Len(undo), NEW j \in 1 .. Len(undo),
                          undo[a] = "irq", Freed(undo[j]) \cap HandlerNeeds # {}
                   PROVE  a <= j
        BY DEF IrqFirst
      <3>1. k + a - 1 = 4
        <4>1. k + a - 1 \in 1 .. 6 /\ path[k + a - 1] = "irq"
          BY <2>4, <2>3
        <4> QED
          BY <4>1, <2>3
      <3>2. k + j - 1 \in 4 .. 6
        <4>1. k + j - 1 \in 1 .. 6 /\ undo[j] = path[k + j - 1]
          BY <2>4
        <4>2. undo[j] \notin {"cdev", "master", "minor"}
          BY DEF Freed, HandlerNeeds
        <4> QED
          BY <2>3, <4>1, <4>2
      <3> QED
        BY <3>1, <3>2, <2>4
    <2> QED
      BY <2>4, <2>5, <2>7, <2>8 DEF undo
  <1> QED
    BY <1>1, <1>2

-----------------------------------------------------------------------------
(* The steps of the life cycle.                                            *)

\* A function that has returned leaves nothing to do.
LEMMA RestingDoings == doing' = Resting => Doings'
  BY EmptySeq DEF Doings, Resting

\* tinygpu_init is entered.
LEMMA LoadStep == LifecycleInv /\ Load => LifecycleInv'
  <1> SUFFICES ASSUME LifecycleInv, Load
               PROVE  LifecycleInv'
    OBVIOUS
  <1>1. /\ doing' = [what |-> "taking", todo |-> ModuleOrder, of |-> "init"]
        /\ held' = held /\ held = {}
    BY Resources DEF Load, Loaded, Taking, LifecycleInv, NothingLeaks
  <1>2. ModuleOrder = Suffix(ModuleOrder, 1)
    BY OrderLengths, SubSeqFull DEF Suffix
  <1>3. HoldsWhatItTook'
    <2>1. held' = Kept("init") \cup TakenBefore("init", 1)
      BY <1>1, TakenInAll DEF Kept
    <2>2. 1 \in 1 .. Len(Order("init")) /\ ModuleOrder = Suffix(Order("init"), 1)
      BY <1>2, OrderLengths DEF Order
    <2> QED
      BY <1>1, <2>1, <2>2 DEF HoldsWhatItTook
  <1>4. Doings'
    BY <1>1, OrderLengths DEF Doings
  <1> QED
    BY <1>1, <1>3, <1>4
    DEF LifecycleInv, GivesBackTheRest, NothingLeaks, HandlerHasItsNeeds, Resting

\* tinygpu_probe is entered.
LEMMA ProbeStep == LifecycleInv /\ Probe => LifecycleInv'
  <1> SUFFICES ASSUME LifecycleInv, Probe
               PROVE  LifecycleInv'
    OBVIOUS
  <1>1. /\ doing' = [what |-> "taking", todo |-> ProbeOrder, of |-> "probe"]
        /\ held' = held /\ held = ModuleResources
    BY Resources DEF Probe, Loaded, Bound, Taking, LifecycleInv, NothingLeaks
  <1>2. ProbeOrder = Suffix(ProbeOrder, 1)
    BY OrderLengths, SubSeqFull DEF Suffix
  <1>3. HoldsWhatItTook'
    <2>1. held' = Kept("probe") \cup TakenBefore("probe", 1)
      BY <1>1, TakenInAll DEF Kept
    <2>2. 1 \in 1 .. Len(Order("probe")) /\ ProbeOrder = Suffix(Order("probe"), 1)
      BY <1>2, OrderLengths DEF Order
    <2> QED
      BY <1>1, <2>1, <2>2 DEF HoldsWhatItTook
  <1>4. "irq" \notin held'
    BY <1>1, Resources
  <1>5. Doings'
    BY <1>1, OrderLengths DEF Doings
  <1> QED
    BY <1>1, <1>3, <1>4, <1>5
    DEF LifecycleInv, GivesBackTheRest, NothingLeaks, HandlerHasItsNeeds, Resting

\* The interrupt is taken after all that its handler needs.
LEMMA NeedsTakenFirst ==
  ASSUME NEW of \in {"init", "probe"}, NEW i \in 1 .. Len(Order(of)) + 1,
         "irq" \in TakenBefore(of, i)
  PROVE  HandlerNeeds \subseteq TakenBefore(of, i)
  <1>1. PICK j \in 1 .. i - 1 : Order(of)[j] = "irq"
    BY DEF TakenBefore
  <1>2. of = "probe" /\ Order(of) = ProbeOrder /\ i \in 1 .. 11
    <2>1. CASE of = "init"
      <3>1. Order(of) = ModuleOrder
        BY <2>1 DEF Order
      <3>2. j \in 1 .. 3
        BY <3>1, <1>1, OrderLengths
      <3> QED
        BY <1>1, <3>1, <3>2 DEF ModuleOrder
    <2>2. CASE of = "probe"
      <3>1. Order(of) = ProbeOrder
        BY <2>2 DEF Order
      <3>2. i \in 1 .. 11
        BY <3>1, OrderLengths
      <3> QED
        BY <2>2, <3>1, <3>2
    <2> QED
      BY <2>1, <2>2
  <1>3. j = 5
    BY <1>1, <1>2 DEF ProbeOrder
  <1>4. \A m \in 2 .. 5 : m \in 1 .. i - 1
    BY <1>1, <1>2, <1>3
  <1>5. /\ ProbeOrder[2] = "bar" /\ ProbeOrder[3] = "gpu"
        /\ ProbeOrder[4] = "vectors" /\ ProbeOrder[5] = "irq"
    BY DEF ProbeOrder
  <1>6. \A m \in 2 .. 5 : ProbeOrder[m] # "id" => ProbeOrder[m] \in TakenBefore(of, i)
    BY <1>2, <1>4 DEF TakenBefore
  <1> QED
    BY <1>5, <1>6 DEF HandlerNeeds

\* A step of tinygpu_init or tinygpu_probe succeeds.
LEMMA TakeStep == LifecycleInv /\ Take => LifecycleInv'
  <1> SUFFICES ASSUME LifecycleInv, Take
               PROVE  LifecycleInv'
    OBVIOUS
  <1> DEFINE of == doing.of
  <1>1. of \in {"init", "probe"} /\ doing.what = "taking"
    BY DEF LifecycleInv, HoldsWhatItTook, Take
  <1>2. PICK i \in 1 .. Len(Order(of)) :
          /\ doing.todo = Suffix(Order(of), i)
          /\ held = Kept(of) \cup TakenBefore(of, i)
    BY <1>1 DEF LifecycleInv, HoldsWhatItTook
  <1>3. Order(of) \in Seq(Steps) /\ Len(Order(of)) \in Nat
    BY OrderLengths DEF Order
  <1>4. /\ Head(doing.todo) = Order(of)[i]
        /\ Tail(doing.todo) = Suffix(Order(of), i + 1)
        /\ Len(doing.todo) = Len(Order(of)) - i + 1
    <2>1. Len(Order(of)) \in i .. Len(Order(of))
      BY <1>3
    <2>2. /\ Head(doing.todo) = Order(of)[i]
          /\ Tail(doing.todo) = Suffix(Order(of), i + 1)
      BY <1>2, <1>3, <2>1, HeadTailOfSubSeq DEF Suffix
    <2>3. \A j \in i .. Len(Order(of)) : Order(of)[j] \in Steps
      BY <1>3
    <2>4. Len(doing.todo) = Len(Order(of)) - i + 1
      BY <1>2, <1>3, <2>3, SubSeqProperties DEF Suffix
    <2> QED
      BY <2>2, <2>4
  <1>5. held' = Kept(of) \cup TakenBefore(of, i + 1)
    BY <1>1, <1>2, <1>4, TakenNext DEF Take
  <1>6. HandlerHasItsNeeds'
    <2>1. "irq" \notin Kept(of)
      BY Resources DEF Kept
    <2>2. i + 1 \in 1 .. Len(Order(of)) + 1
      BY <1>3
    <2> QED
      BY <1>1, <1>5, <2>1, <2>2, NeedsTakenFirst DEF HandlerHasItsNeeds
  <1>7. CASE i = Len(Order(of))
    <2>1. doing' = Resting
      BY <1>3, <1>4, <1>7 DEF Take, After
    <2>2. held' \in {ModuleResources, ModuleResources \cup DeviceResources}
      <3>1. CASE of = "init"
        <4>1. Order(of) = ModuleOrder
          BY <3>1 DEF Order
        <4>2. i + 1 = 4
          BY <4>1, <1>7, OrderLengths
        <4> QED
          BY <3>1, <4>2, <1>5, TakenInAll DEF Kept
      <3>2. CASE of = "probe"
        <4>1. Order(of) = ProbeOrder
          BY <3>2 DEF Order
        <4>2. i + 1 = 11
          BY <4>1, <1>7, OrderLengths
        <4> QED
          BY <3>2, <4>2, <1>5, TakenInAll DEF Kept
      <3> QED
        BY <1>1, <3>1, <3>2
    <2> QED
      BY <2>1, <2>2, <1>6, RestingDoings
      DEF LifecycleInv, GivesBackTheRest, NothingLeaks, HoldsWhatItTook, Resting
  <1>8. CASE i # Len(Order(of))
    <2>1. /\ i + 1 \in 1 .. Len(Order(of))
          /\ doing' = [doing EXCEPT !.todo = Suffix(Order(of), i + 1)]
      <3>1. i + 1 \in 1 .. Len(Order(of)) /\ Len(doing.todo) # 1
        BY <1>3, <1>4, <1>8
      <3> QED
        BY <3>1, <1>4 DEF Take, After
    <2>2. /\ doing'.what = "taking" /\ doing'.of = of
          /\ doing'.todo = Suffix(Order(of), i + 1)
      BY <2>1, <1>1 DEF LifecycleInv, Doings
    <2>4. Doings'
      <3>1. Suffix(Order(of), i + 1) \in Seq(Steps)
        BY <2>1, <1>3, SubSeqProperties DEF Suffix
      <3> QED
        BY <3>1, <2>1, <1>1 DEF LifecycleInv, Doings
    <2>3. HoldsWhatItTook'
      BY <2>1, <2>2, <1>1, <1>5 DEF HoldsWhatItTook
    <2> QED
      BY <2>2, <2>3, <2>4, <1>6
      DEF LifecycleInv, GivesBackTheRest, NothingLeaks, Resting
  <1> QED
    BY <1>7, <1>8

\* The invariant while something is left to give back, or after it.
LEMMA ToRelease ==
  ASSUME NEW of \in {"none", "init", "probe", "exit"}, NEW steps \in Seq(Steps),
         doing' = Releasing(of, steps),
         Kept(of) \subseteq held',
         held' \subseteq Kept(of) \cup FreedBy(steps),
         Kept(of) \cap FreedBy(steps) = {},
         IrqFirst(steps),
         HandlerHasItsNeeds'
  PROVE  LifecycleInv'
  <1>1. CASE steps = <<>>
    <2>1. doing' = Resting
      BY <1>1 DEF Releasing
    <2>2. held' = Kept(of)
      BY <1>1, NoSteps
    <2> QED
      BY <2>1, <2>2, RestingDoings
      DEF LifecycleInv, GivesBackTheRest, NothingLeaks, HoldsWhatItTook, Resting, Kept
  <1>2. CASE steps # <<>>
    <2>1. doing' = [what |-> "releasing", todo |-> steps, of |-> of]
      BY <1>2 DEF Releasing
    <2>2. Doings'
      BY <2>1 DEF Doings
    <2>3. GivesBackTheRest'
      BY <2>1, <1>2 DEF GivesBackTheRest
    <2> QED
      BY <2>1, <2>2, <2>3 DEF LifecycleInv, NothingLeaks, HoldsWhatItTook, Resting
  <1> QED
    BY <1>1, <1>2

\* One fails: its error path gives back what was taken before.
LEMMA TakeFailsStep == LifecycleInv /\ TakeFails => LifecycleInv'
  <1> SUFFICES ASSUME LifecycleInv, TakeFails
               PROVE  LifecycleInv'
    OBVIOUS
  <1> DEFINE of == doing.of
  <1>1. of \in {"init", "probe"} /\ doing.what = "taking" /\ held' = held
    BY DEF LifecycleInv, HoldsWhatItTook, TakeFails
  <1>2. PICK i \in 1 .. Len(Order(of)) :
          /\ doing.todo = Suffix(Order(of), i)
          /\ held = Kept(of) \cup TakenBefore(of, i)
    BY <1>1 DEF LifecycleInv, HoldsWhatItTook
  <1>3. Head(doing.todo) = Order(of)[i]
    <2>1. Order(of) \in Seq(Steps) /\ Len(Order(of)) \in i .. Len(Order(of))
      BY OrderLengths DEF Order
    <2> QED
      BY <1>2, <2>1, HeadTailOfSubSeq DEF Suffix
  <1> DEFINE undo == Undo(of, Order(of)[i])
  <1>4. doing' = Releasing(of, undo) /\ Order(of)[i] # "master"
    BY <1>3 DEF TakeFails
  <1>5. /\ undo \in Seq(Steps)
        /\ TakenBefore(of, i) \subseteq FreedBy(undo)
        /\ Kept(of) \cap FreedBy(undo) = {}
        /\ IrqFirst(undo)
    BY <1>1, <1>4, UndoSuffices
  <1>6. HandlerHasItsNeeds'
    BY <1>1 DEF LifecycleInv, HandlerHasItsNeeds
  <1> HIDE DEF of, undo
  <1> QED
    BY <1>1, <1>2, <1>4, <1>5, <1>6, ToRelease

\* A step of an error path, of tinygpu_remove or tinygpu_exit.
LEMMA ReleaseStep == LifecycleInv /\ Release => LifecycleInv'
  <1> SUFFICES ASSUME LifecycleInv, Release
               PROVE  LifecycleInv'
    OBVIOUS
  <1> DEFINE of == doing.of
             steps == doing.todo
  <1>1. /\ doing \in [what : {"nothing", "taking", "releasing"}, todo : Seq(Steps),
                      of : {"none", "init", "probe", "exit"}]
        /\ doing.what = "releasing"
        /\ steps # <<>>
        /\ Kept(of) \subseteq held
        /\ held \subseteq Kept(of) \cup FreedBy(steps)
        /\ Kept(of) \cap FreedBy(steps) = {}
        /\ IrqFirst(steps)
    BY DEF LifecycleInv, Doings, GivesBackTheRest, Release
  <1>2. /\ FreedBy(steps) = Freed(Head(steps)) \cup FreedBy(Tail(steps))
        /\ IrqFirst(Tail(steps))
    BY <1>1, FreedByFirst
  <1>3. /\ Tail(steps) \in Seq(Steps) /\ Len(Tail(steps)) = Len(steps) - 1
        /\ Len(steps) \in Nat \ {0} /\ Head(steps) = steps[1]
    BY <1>1, HeadTailProperties, EmptySeq
  <1>4. doing' = Releasing(of, Tail(steps))
    <2>1. Tail(steps) = <<>> <=> Len(steps) = 1
      <3>1. Tail(steps) = <<>> <=> Len(Tail(steps)) = 0
        BY <1>3, NoSteps
      <3> QED
        BY <1>3, <3>1
    <2>2. [doing EXCEPT !.todo = Tail(steps)] =
            [what |-> "releasing", todo |-> Tail(steps), of |-> of]
      BY <1>1
    <2> QED
      BY <2>1, <2>2 DEF Release, After, Releasing
  <1>5. held' = held \ Freed(Head(steps))
    BY DEF Release
  <1>6. HandlerHasItsNeeds'
    <2> SUFFICES ASSUME "irq" \in held', NEW r \in HandlerNeeds
                 PROVE  r \notin Freed(Head(steps))
      BY <1>5 DEF HandlerHasItsNeeds, LifecycleInv
    <2> SUFFICES ASSUME r \in Freed(Head(steps))
                 PROVE  FALSE
      OBVIOUS
    <2>1. "irq" \notin Kept(of)
      BY Resources DEF Kept
    <2>2. PICK j \in 1 .. Len(steps) : "irq" \in Freed(steps[j])
      BY <1>1, <1>5, <2>1 DEF FreedBy
    <2>3. steps[j] = "irq"
      BY <2>2 DEF Freed, Managed
    <2>4. 1 \in 1 .. Len(steps) /\ Freed(steps[1]) \cap HandlerNeeds # {}
      BY <1>3
    <2>5. j <= 1
      BY <1>1, <2>3, <2>4 DEF IrqFirst
    <2>6. Head(steps) = "irq"
      BY <1>3, <2>3, <2>5
    <2> QED
      BY <1>5, <2>6 DEF Freed
  <1> HIDE DEF of, steps
  <1>7. of \in {"none", "init", "probe", "exit"}
    BY <1>1 DEF of
  <1> QED
    BY <1>1, <1>2, <1>3, <1>4, <1>5, <1>6, <1>7, ToRelease

\* Two functions one after the other give back what both do.
LEMMA FreedByConcat ==
  ASSUME NEW s \in Seq(Steps), NEW t \in Seq(Steps)
  PROVE  /\ FreedBy(s \o t) = FreedBy(s) \cup FreedBy(t)
         /\ IrqFirst(s) /\ (\A j \in 1 .. Len(t) : t[j] # "irq") => IrqFirst(s \o t)
  <1>1. /\ Len(s \o t) = Len(s) + Len(t)
        /\ \A i \in 1 .. Len(s \o t) :
             (s \o t)[i] = IF i <= Len(s) THEN s[i] ELSE t[i - Len(s)]
        /\ Len(s) \in Nat /\ Len(t) \in Nat
    BY ConcatProperties, LenProperties
  <1>2. FreedBy(s \o t) \subseteq FreedBy(s) \cup FreedBy(t)
    <2> SUFFICES ASSUME NEW i \in 1 .. Len(s \o t)
                 PROVE  \/ i \in 1 .. Len(s) /\ (s \o t)[i] = s[i]
                        \/ i - Len(s) \in 1 .. Len(t) /\ (s \o t)[i] = t[i - Len(s)]
      BY DEF FreedBy
    <2> QED
      BY <1>1
  <1>3. FreedBy(s) \subseteq FreedBy(s \o t)
    <2>1. \A i \in 1 .. Len(s) : i \in 1 .. Len(s \o t) /\ (s \o t)[i] = s[i]
      BY <1>1
    <2> QED
      BY <2>1 DEF FreedBy
  <1>4. FreedBy(t) \subseteq FreedBy(s \o t)
    <2>1. \A i \in 1 .. Len(t) :
            Len(s) + i \in 1 .. Len(s \o t) /\ (s \o t)[Len(s) + i] = t[i]
      BY <1>1
    <2> QED
      BY <2>1 DEF FreedBy
  <1>5. ASSUME IrqFirst(s), \A j \in 1 .. Len(t) : t[j] # "irq"
        PROVE  IrqFirst(s \o t)
    <2> SUFFICES ASSUME NEW i \in 1 .. Len(s \o t), NEW j \in 1 .. Len(s \o t),
                        (s \o t)[i] = "irq", Freed((s \o t)[j]) \cap HandlerNeeds # {}
                 PROVE  i <= j
      BY DEF IrqFirst
    <2>1. i \in 1 .. Len(s) /\ s[i] = "irq"
      <3>1. ~ (i - Len(s) \in 1 .. Len(t))
        BY <1>1, <1>5
      <3> QED
        BY <1>1, <3>1
    <2>2. CASE j \in 1 .. Len(s)
      <3>1. (s \o t)[j] = s[j]
        BY <1>1, <2>2
      <3> QED
        BY <2>1, <2>2, <3>1, <1>5 DEF IrqFirst
    <2>3. CASE j > Len(s)
      BY <2>1, <2>3, <1>1
    <2> QED
      BY <1>1, <2>2, <2>3
  <1> QED
    BY <1>2, <1>3, <1>4, <1>5

\* tinygpu_remove gives back what tinygpu_probe takes.
LEMMA RemovalFrees ==
  /\ RemoveOrder \in Seq(Steps) /\ FreedBy(RemoveOrder) = DeviceResources \cup {"master"}
  /\ IrqFirst(RemoveOrder)
  <1>1. RemoveOrder \in Seq(Steps) /\ Len(RemoveOrder) = 7
    BY DEF RemoveOrder, Steps
  <1>2. /\ Freed(RemoveOrder[1]) = {"chardev"} /\ Freed(RemoveOrder[2]) = {"cdev"}
        /\ Freed(RemoveOrder[3]) = {"master"} /\ Freed(RemoveOrder[4]) = {"irq"}
        /\ Freed(RemoveOrder[5]) = {"vectors"} /\ Freed(RemoveOrder[6]) = {"minor"}
        /\ Freed(RemoveOrder[7]) = {"enabled", "bar", "gpu"}
    BY DEF RemoveOrder, Freed, Managed
  <1>3. FreedBy(RemoveOrder) = DeviceResources \cup {"master"}
    <2>1. 1 .. 7 = {1, 2, 3, 4, 5, 6, 7}
      OBVIOUS
    <2>2. FreedBy(RemoveOrder) =
            UNION {Freed(RemoveOrder[j]) : j \in {1, 2, 3, 4, 5, 6, 7}}
      BY <1>1, <2>1 DEF FreedBy
    <2> QED
      BY <1>2, <2>2, Resources
  <1>4. IrqFirst(RemoveOrder)
    <2> SUFFICES ASSUME NEW i \in 1 .. 7, NEW j \in 1 .. 7, RemoveOrder[i] = "irq",
                        Freed(RemoveOrder[j]) \cap HandlerNeeds # {}
                 PROVE  i <= j
      BY <1>1 DEF IrqFirst
    <2>1. i = 4
      BY DEF RemoveOrder
    <2>2. j \notin {1, 2, 3}
      BY <1>2 DEF HandlerNeeds
    <2> QED
      BY <2>1, <2>2
  <1> QED
    BY <1>1, <1>3, <1>4

\* Unloading gives back all that is held.
LEMMA UnloadingFrees ==
  LET steps == Reversed(ModuleOrder)
  IN  /\ steps \in Seq(Steps) /\ FreedBy(steps) = ModuleResources
      /\ \A j \in 1 .. Len(steps) : steps[j] # "irq"
  <1> DEFINE steps == Reversed(ModuleOrder)
  <1>1. steps = <<"pci_driver", "class", "region">>
    BY OrderLengths DEF Reversed, ModuleOrder
  <1> HIDE DEF steps
  <1>2. steps \in Seq(Steps) /\ Len(steps) = 3
    BY <1>1 DEF Steps
  <1>3. /\ Freed(steps[1]) = {"pci_driver"} /\ Freed(steps[2]) = {"class"}
        /\ Freed(steps[3]) = {"region"}
    BY <1>1 DEF Freed
  <1>4. FreedBy(steps) = UNION {Freed(steps[j]) : j \in {1, 2, 3}}
    <2>1. 1 .. 3 = {1, 2, 3}
      OBVIOUS
    <2> QED
      BY <1>2, <2>1 DEF FreedBy
  <1>5. FreedBy(steps) = ModuleResources
    BY <1>3, <1>4, Resources
  <1>6. \A j \in 1 .. Len(steps) : steps[j] # "irq"
    BY <1>1, <1>2
  <1> QED
    BY <1>2, <1>5, <1>6 DEF steps

\* The module is unloaded.
LEMMA UnloadStep == LifecycleInv /\ Unload => LifecycleInv'
  <1> SUFFICES ASSUME LifecycleInv, Unload
               PROVE  LifecycleInv'
    OBVIOUS
  <1> DEFINE removal == IF Bound THEN RemoveOrder ELSE <<>>
             steps == removal \o Reversed(ModuleOrder)
  <1>1. doing' = Releasing("exit", steps) /\ held' = held
    BY DEF Unload
  <1>2. removal \in Seq(Steps) /\ IrqFirst(removal)
    <2>1. CASE Bound
      BY <2>1, RemovalFrees
    <2>2. CASE ~Bound
      <3>1. removal = <<>>
        BY <2>2
      <3> QED
        BY <3>1, NoSteps
    <2> QED
      BY <2>1, <2>2
  <1>3. held \subseteq FreedBy(removal) \cup ModuleResources
    <2>1. held \in {{}, ModuleResources, ModuleResources \cup DeviceResources}
      BY DEF LifecycleInv, NothingLeaks, Unload
    <2>2. CASE Bound
      BY <2>1, <2>2, RemovalFrees
    <2>3. CASE ~Bound
      BY <2>1, <2>3, Resources DEF Bound
    <2> QED
      BY <2>2, <2>3
  <1> HIDE DEF removal
  <1>4. /\ steps \in Seq(Steps)
        /\ FreedBy(steps) = FreedBy(removal) \cup ModuleResources
        /\ IrqFirst(steps)
    BY <1>2, UnloadingFrees, FreedByConcat, ConcatProperties
  <1>5. Kept("exit") = {}
    BY DEF Kept
  <1>6. HandlerHasItsNeeds'
    BY <1>1 DEF LifecycleInv, HandlerHasItsNeeds
  <1> HIDE DEF steps
  <1> QED
    BY <1>1, <1>3, <1>4, <1>5, <1>6, ToRelease

\* Each step of the life cycle keeps its invariant.
LEMMA LifecycleInvariance ==
  LifecycleInv /\ (Load \/ Probe \/ Take \/ TakeFails \/ Unload \/ Release) => LifecycleInv'
  BY LoadStep, ProbeStep, TakeStep, TakeFailsStep, UnloadStep, ReleaseStep

-----------------------------------------------------------------------------
(* The driver at work in it.                                               *)

\* A call is made only to a device that is set up and stays so until the call
\* has returned, and a handler runs only where an interrupt is registered.
WorkInv ==
  /\ InCall # {} => doing = Resting /\ Bound
  /\ handler.at # "idle" => "irq" \in held

HostInv == LifecycleInv /\ WorkInv

\* Nothing is held at first.
LEMMA HostInitInvariant == HostInit => HostInv
  <1> SUFFICES ASSUME HostInit
               PROVE  HostInv
    OBVIOUS
  <1>1. held = {} /\ doing = Resting
    BY DEF HostInit, LifecycleInit
  <1>2. Doings
    BY <1>1, NoSteps DEF Doings, Resting
  <1>3. LifecycleInv
    BY <1>1, <1>2
    DEF LifecycleInv, HoldsWhatItTook, GivesBackTheRest, NothingLeaks, HandlerHasItsNeeds,
        Resting
  <1>4. InCall = {} /\ handler.at = "idle"
    BY DEF HostInit, Init, InCall, NoCall, NoHandler
  <1> QED
    BY <1>3, <1>4 DEF HostInv, WorkInv

\* While a call is made, nothing is taken or given back.
LEMMA BoundIsNotTaking ==
  LifecycleInv /\ Bound => doing.what # "taking"
  <1> SUFFICES ASSUME LifecycleInv, doing.what = "taking"
               PROVE  "chardev" \notin held
    BY DEF Bound
  <1> DEFINE of == doing.of
  <1>1. of \in {"init", "probe"}
    BY DEF LifecycleInv, HoldsWhatItTook
  <1>2. PICK i \in 1 .. Len(Order(of)) : held = Kept(of) \cup TakenBefore(of, i)
    BY DEF LifecycleInv, HoldsWhatItTook
  <1>3. "chardev" \notin Kept(of)
    BY Resources DEF Kept
  <1>4. "chardev" \notin TakenBefore(of, i)
    <2> SUFFICES ASSUME NEW j \in 1 .. i - 1
                 PROVE  Order(of)[j] # "chardev"
      BY DEF TakenBefore
    <2>1. CASE of = "init"
      <3>1. Order(of) = ModuleOrder
        BY <2>1 DEF Order
      <3>2. j \in 1 .. 2
        BY <3>1, OrderLengths
      <3> QED
        BY <3>1, <3>2 DEF ModuleOrder
    <2>2. CASE of = "probe"
      <3>1. Order(of) = ProbeOrder
        BY <2>2 DEF Order
      <3>2. j \in 1 .. 9
        BY <3>1, OrderLengths
      <3> QED
        BY <3>1, <3>2 DEF ProbeOrder
    <2> QED
      BY <1>1, <2>1, <2>2
  <1> QED
    BY <1>2, <1>3, <1>4

\* The life cycle takes nothing from a handler or a call at work.
LEMMA LifecycleKeepsWork ==
  HostInv /\ LifecycleStep => WorkInv'
  <1> SUFFICES ASSUME HostInv, LifecycleStep
               PROVE  WorkInv'
    OBVIOUS
  <1>1. InCall' = InCall /\ handler' = handler
    BY DEF LifecycleStep, vars, InCall
  <1>2. InCall = {}
    <2> SUFFICES ASSUME InCall # {}
                 PROVE  FALSE
      OBVIOUS
    <2>1. doing = Resting /\ Bound
      BY DEF HostInv, WorkInv
    <2>2. held = ModuleResources \cup DeviceResources
      BY <2>1, Resources DEF HostInv, LifecycleInv, NothingLeaks, Bound
    <2>3. ~Load /\ ~Probe
      BY <2>1, <2>2, Resources DEF Load, Probe, Loaded
    <2>4. ~Take /\ ~TakeFails /\ ~Release
      BY <2>1 DEF Take, TakeFails, Release, Resting
    <2> QED
      BY <2>3, <2>4 DEF LifecycleStep
  <1>3. ASSUME handler.at # "idle"
        PROVE  "irq" \in held'
    <2>1. "irq" \in held
      BY <1>3 DEF HostInv, WorkInv
    <2>2. CASE Release
      <3>1. Head(doing.todo) # "irq"
        BY <1>3, <2>2 DEF LifecycleStep, Release, Load, Probe, Take, TakeFails, Unload, Resting
      <3>2. "irq" \notin Freed(Head(doing.todo))
        BY <3>1 DEF Freed, Managed
      <3> QED
        BY <2>1, <2>2, <3>2 DEF Release
    <2> QED
      BY <2>1, <2>2 DEF LifecycleStep, Load, Probe, Take, TakeFails, Unload
  <1> QED
    BY <1>1, <1>2, <1>3 DEF WorkInv

\* Each step of the composed system keeps its invariant.
LEMMA HostNextInvariant == HostInv /\ [HostNext]_hostVars => HostInv'
  <1> SUFFICES ASSUME HostInv, [HostNext]_hostVars
               PROVE  HostInv'
    OBVIOUS
  <1>1. CASE LifecycleStep
    <2>1. LifecycleInv'
      BY <1>1, LifecycleInvariance DEF LifecycleStep, HostInv
    <2> QED
      BY <1>1, <2>1, LifecycleKeepsWork DEF HostInv
  <1>2. ASSUME UNCHANGED lifecycleVars
        PROVE  LifecycleInv' /\ Bound' = Bound
    BY <1>2
    DEF lifecycleVars, HostInv, LifecycleInv, Doings, HoldsWhatItTook, GivesBackTheRest,
        NothingLeaks, HandlerHasItsNeeds, Bound
  <1>3. CASE HandlerRuns
    <2>1. call' = call /\ held' = held /\ doing' = doing /\ "irq" \in held
      BY <1>3
      DEF HandlerRuns, HandlerStep, HandlerReads, HandlerAcknowledges, HandlerStores,
          lifecycleVars
    <2> QED
      BY <1>2, <2>1 DEF HostInv, WorkInv, InCall, lifecycleVars
  <1>4. CASE DeviceRuns
    <2>1. call' = call /\ handler' = handler /\ held' = held /\ doing' = doing
      BY <1>4 DEF DeviceRuns, TimerFires, lifecycleVars
    <2> QED
      BY <1>2, <2>1 DEF HostInv, WorkInv, InCall, lifecycleVars
  <1>5. ASSUME NEW c \in Callers, CallRuns(c)
        PROVE  HostInv'
    <2>1. handler' = handler /\ held' = held /\ doing' = doing
      BY <1>5
      DEF CallRuns, CallStep, Prepare, Lock, Program, Go, Wake, Abort, ReadStatus, Unlock,
          Return, lifecycleVars
    <2>2. Bound /\ doing.what # "releasing"
      BY <1>5 DEF CallRuns, Reachable
    <2>3. doing = Resting
      <3>1. doing.what # "taking"
        BY <2>2, BoundIsNotTaking DEF HostInv
      <3> QED
        BY <2>2, <3>1 DEF HostInv, LifecycleInv, Doings
    <2> QED
      BY <1>2, <2>1, <2>2, <2>3 DEF HostInv, WorkInv, lifecycleVars
  <1>6. CASE UNCHANGED hostVars
    BY <1>2, <1>6 DEF hostVars, vars, lifecycleVars, HostInv, WorkInv, InCall
  <1> QED
    BY <1>1, <1>3, <1>4, <1>5, <1>6 DEF HostNext

\* What is held matches what is being done, and who is at work has what it needs,
\* whatever fails and whenever.
THEOREM HostInvariance == HostSpec => []HostInv
  BY HostInitInvariant, HostNextInvariant, PTL DEF HostSpec

\* Wherever loading, probing, removing or unloading fails, the driver holds all
\* of its resources or none once it is done: the error paths of tinygpu_init and
\* tinygpu_probe and the order of tinygpu_remove give back what was taken.
THEOREM ResourcesAreGivenBack == HostSpec => []NothingLeaks
  <1>1. HostInv => NothingLeaks
    BY DEF HostInv, LifecycleInv
  <1> QED
    BY <1>1, HostInvariance, PTL

\* A call and the interrupt handler have the resources they use, also while the
\* device is probed or removed.
THEOREM UsersHoldWhatTheyUse == HostSpec => []HeldWhileUsed
  <1>1. HostInv => HeldWhileUsed
    <2> SUFFICES ASSUME HostInv
                 PROVE  HeldWhileUsed
      OBVIOUS
    <2>1. ASSUME InCall # {}
          PROVE  held = ModuleResources \cup DeviceResources
      BY <2>1, Resources DEF HostInv, WorkInv, LifecycleInv, NothingLeaks, Bound
    <2>2. handler.at # "idle" \/ "irq" \in held => HandlerNeeds \subseteq held
      BY DEF HostInv, WorkInv, LifecycleInv, HandlerHasItsNeeds
    <2> QED
      BY <2>1, <2>2, Resources DEF HeldWhileUsed, HandlerNeeds
  <1> QED
    BY <1>1, HostInvariance, PTL
=============================================================================
