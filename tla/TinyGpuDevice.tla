--------------------------- MODULE TinyGpuDevice ---------------------------
(***************************************************************************)
(* The PCI device (qemu/hw/misc/tinygpu.c): its registers, execution timer *)
(* and interrupt, as operators on the record d of its registers, so that   *)
(* one register access of the driver, or the timer, is one operator.       *)
(*   d: control      the START bit                                         *)
(*      status       subset of {"BUSY", "DONE", "ERROR"}                   *)
(*      irq_enable, irq_status   subsets of {"COMPLETE", "ERROR"}          *)
(*      dma          where the DMA descriptors point                       *)
(*      exec_timer   armed or not                                          *)
(*      message      an MSI or MSI-X message the guest has not taken yet   *)
(* A job's program, input and output buffers are allocated and freed       *)
(* together and have one address here.  Lengths and offsets are in range,  *)
(* because the driver validates them by the same comparison; the program   *)
(* and the thread count are part of the input.                             *)
(***************************************************************************)

CONSTANT NoAddress   \* a DMA address register that has not been written

IrqMask == {"COMPLETE", "ERROR"}

SoftReset(d) ==
  [d EXCEPT !.control = FALSE, !.status = {"DONE"}, !.irq_enable = {},
            !.irq_status = {}, !.dma = NoAddress, !.exec_timer = FALSE]

\* tinygpu_realize ends with a soft reset.
PoweredOn ==
  [control |-> FALSE, status |-> {"DONE"}, irq_enable |-> {}, irq_status |-> {},
   dma |-> NoAddress, exec_timer |-> FALSE, message |-> FALSE]

\* Without MSI the interrupt line follows the enabled status bits.
IntxLevel(d) == d.irq_enable \cap d.irq_status # {}

\* With MSI an enabled bit sends a message; messages not taken yet are one.
RaiseIrq(d, msi, bits) ==
  [d EXCEPT !.irq_status = @ \cup bits,
            !.message = @ \/ (msi /\ d.irq_enable \cap bits # {})]

SetError(d, msi) ==
  RaiseIrq([d EXCEPT !.control = FALSE, !.status = (@ \ {"BUSY"}) \cup {"ERROR"}],
           msi, {"ERROR"})

\* A write of START to the control register.
Start(d, msi) ==
  IF "BUSY" \in d.status THEN SetError(d, msi)
  ELSE [d EXCEPT !.control = TRUE, !.status = {"BUSY"}, !.irq_status = {},
                 !.exec_timer = TRUE]

WriteStatus(d, bits) == [d EXCEPT !.status = @ \ (bits \cap {"DONE", "ERROR"})]
WriteDma(d, buffers) == [d EXCEPT !.dma = buffers]
WriteIrqEnable(d, bits) == [d EXCEPT !.irq_enable = bits \cap IrqMask]
WriteIrqStatus(d, bits) == [d EXCEPT !.irq_status = @ \ (bits \cap IrqMask)]

\* The timer fires: the kernel runs to its end, or the run or a DMA transfer
\* fails.
Completed(d, msi, ok) ==
  LET e == [d EXCEPT !.exec_timer = FALSE]
  IN  IF ok
      THEN RaiseIrq([e EXCEPT !.control = FALSE, !.status = (@ \ {"BUSY"}) \cup {"DONE"}],
                    msi, {"COMPLETE"})
      ELSE SetError(e, msi)
=============================================================================
