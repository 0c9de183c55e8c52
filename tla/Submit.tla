------------------------------- MODULE Submit -------------------------------
(***************************************************************************)
(* The path of one job through the layers, as data: the submit ioctl of    *)
(* the driver (driver/tinygpu_pci.c) validates the request, allocates and  *)
(* fills its DMA buffers, has it run, copies the output back and frees the *)
(* buffers; the device (qemu/hw/misc/tinygpu.c) and the wrapper of the     *)
(* simulated GPU (tinygpu-verilator.cpp, verilated_gpu.cpp) check the same *)
(* quantities again.  Any step may fail.  How calls of several processes,  *)
(* the device and its interrupt interleave is Driver's matter.             *)
(*                                                                         *)
(* A request has a program, an input and an output, each with a pointer    *)
(* (ptr, FALSE for null), a 32-bit size and, but for the program, offset;  *)
(* bytes is what user memory holds there.                                  *)
(***************************************************************************)
EXTENDS Integers, Sequences

CONSTANTS
  ProgramMemory,   \* TINYGPU_PROGRAM_MEMORY_SIZE
  DataMemory,      \* TINYGPU_DATA_MEMORY_SIZE
  Counts,          \* values of an 8-bit thread count
  Words            \* values of a 32-bit field

ASSUME WidthsAssumption ==
  /\ ProgramMemory \in Nat /\ DataMemory \in Nat \ {0}
  /\ Counts \in Nat \ {0, 1} /\ Words \in Nat \ {0}
  /\ ProgramMemory < Words /\ DataMemory < Words /\ Counts < Words

VARIABLES
  submit,   \* the call: at, request, buffers (DMA buffers held), ret
  host      \* what the caller's output holds

submitVars == <<submit, host>>

Zero == <<"zero">>

\* What a fault in the middle of copying leaves in the caller's output.
Partly == <<"part">>

Parts == <<"program", "input", "output">>

NoBuffers == [program |-> <<>>, input |-> <<>>, output |-> <<>>]
NoSubmit == [at |-> "user", request |-> <<>>, buffers |-> NoBuffers, ret |-> "none"]

-----------------------------------------------------------------------------
(* The checks of the three layers.                                         *)

\* Mutant: the sum of two 32-bit values.
RangeValidSum(offset, size, limit) == (offset + size) % Words <= limit

RangeValid(offset, size, limit) == offset <= limit /\ size <= limit - offset

HasPointer(part) == part.size # 0 => part.ptr

\* Mutant: the thread count is not looked at.
ValidAnyCount(r) ==
  /\ ~r.reserved
  /\ r.program.size <= ProgramMemory
  /\ RangeValid(r.input.offset, r.input.size, DataMemory)
  /\ RangeValid(r.output.offset, r.output.size, DataMemory)
  /\ HasPointer(r.program) /\ HasPointer(r.input) /\ HasPointer(r.output)

\* tinygpu_validate_submit
Valid(r) ==
  /\ ~r.reserved
  /\ r.thread_count < Counts
  /\ r.program.size <= ProgramMemory
  /\ RangeValid(r.input.offset, r.input.size, DataMemory)
  /\ RangeValid(r.output.offset, r.output.size, DataMemory)
  /\ HasPointer(r.program) /\ HasPointer(r.input) /\ HasPointer(r.output)

\* tinygpu_check_range, and check_range of the wrapper.
OutOfRange(offset, length, limit) == offset > limit \/ length > limit - offset

\* What tinygpu_start and then the wrapper accept.
DeviceAccepts(r) ==
  /\ r.program.size <= ProgramMemory
  /\ ~OutOfRange(r.input.offset, r.input.size, DataMemory)
  /\ ~OutOfRange(r.output.offset, r.output.size, DataMemory)

\* A fresh data memory with the input at its offset.
DataLoaded(bytes, offset) ==
  [a \in 0 .. DataMemory - 1 |->
     IF a \in offset .. offset + Len(bytes) - 1 THEN bytes[a - offset + 1] ELSE Zero]

\* The job that reaches the GPU: the thread-count register has 8 bits.
JobOf(r, program, input) ==
  [program |-> program, thread_count |-> r.thread_count % Counts,
   memory |-> DataLoaded(input, r.input.offset)]

\* A stretch of the data memory that a run of the job leaves.
ResultOf(job, r) == [job |-> job, offset |-> r.output.offset, size |-> r.output.size]

-----------------------------------------------------------------------------
(* tinygpu_ioctl and tinygpu_submit_job                                    *)

Returns(e) == [submit EXCEPT !.at = "returned", !.ret = e]
GoesOut(e) == [submit EXCEPT !.at = "out", !.ret = e]

\* The request is copied from user memory.
Enter(r) ==
  /\ submit.at = "user"
  /\ \/ submit' = [NoSubmit EXCEPT !.at = "validate", !.request = r]
     \/ submit' = [NoSubmit EXCEPT !.at = "returned", !.request = r, !.ret = "EFAULT"]
  /\ UNCHANGED host

Validate ==
  /\ submit.at = "validate"
  /\ submit' = IF Valid(submit.request) THEN [submit EXCEPT !.at = "allocate"]
               ELSE Returns("EINVAL")
  /\ UNCHANGED host

\* One buffer after the other, none for a size of 0, until one cannot be had.
\* A buffer is a sequence of bytes, zeroed.
Allocated(n) ==
  [part \in DOMAIN NoBuffers |->
     IF \E i \in 1 .. n : Parts[i] = part
     THEN [i \in 1 .. submit.request[part].size |-> Zero] ELSE <<>>]

Allocate ==
  /\ submit.at = "allocate"
  /\ \E n \in 0 .. 3 :
       /\ n < 3 => submit.request[Parts[n + 1]].size # 0
       /\ submit' = [(IF n = 3 THEN [submit EXCEPT !.at = "copy_in"] ELSE GoesOut("ENOMEM"))
                       EXCEPT !.buffers = Allocated(n)]
  /\ UNCHANGED host

Readable(part) == part.size <= Len(part.bytes)

\* Mutant: a fault returns at once.
CopyInReturns ==
  /\ submit.at = "copy_in"
  /\ LET r == submit.request
     IN  \/ /\ Readable(r.program) /\ Readable(r.input)
            /\ submit' = [submit EXCEPT !.at = "execute",
                            !.buffers.program = SubSeq(r.program.bytes, 1, r.program.size),
                            !.buffers.input = SubSeq(r.input.bytes, 1, r.input.size)]
         \/ submit' = Returns("EFAULT")
  /\ UNCHANGED host

CopyIn ==
  /\ submit.at = "copy_in"
  /\ LET r == submit.request
     IN  \/ /\ Readable(r.program) /\ Readable(r.input)
            /\ submit' = [submit EXCEPT !.at = "execute",
                            !.buffers.program = SubSeq(r.program.bytes, 1, r.program.size),
                            !.buffers.input = SubSeq(r.input.bytes, 1, r.input.size)]
         \/ submit' = GoesOut("EFAULT")
  /\ UNCHANGED host

\* The device runs the job into the output buffer, unless it refuses it, the
\* run or a DMA transfer fails, the time is up or a signal comes.
Execute ==
  /\ submit.at = "execute"
  /\ \/ /\ DeviceAccepts(submit.request)
        /\ LET r == submit.request
               job == JobOf(r, submit.buffers.program, submit.buffers.input)
           IN  submit' = [submit EXCEPT !.at = "copy_out",
                            !.buffers.output = <<ResultOf(job, r)>>]
     \/ \E e \in {"EIO", "ETIMEDOUT", "ERESTARTSYS"} : submit' = GoesOut(e)
  /\ UNCHANGED host

CopyOut ==
  /\ submit.at = "copy_out"
  /\ \/ /\ submit' = GoesOut("ok")
        /\ host' = IF submit.request.output.size = 0 THEN host ELSE submit.buffers.output[1]
     \/ /\ submit.request.output.size # 0
        /\ submit' = GoesOut("EFAULT")
        /\ host' \in {host, Partly}

\* The buffers are freed.  A call that a signal interrupted returns or is made
\* again by the kernel; a successful one copies the request back.
Out ==
  /\ submit.at = "out"
  /\ LET free == [submit EXCEPT !.buffers = NoBuffers]
     IN  CASE submit.ret = "ok" ->
                \E e \in {"ok", "EFAULT"} :
                  submit' = [free EXCEPT !.at = "returned", !.ret = e]
           [] submit.ret = "ERESTARTSYS" ->
                \/ submit' = [free EXCEPT !.at = "returned", !.ret = "EINTR"]
                \/ submit' = [free EXCEPT !.at = "validate", !.ret = "none"]
           [] OTHER -> submit' = [free EXCEPT !.at = "returned"]
  /\ UNCHANGED host

SubmitStep == Validate \/ Allocate \/ CopyIn \/ Execute \/ CopyOut \/ Out

-----------------------------------------------------------------------------

\* Whatever fails, a call that is not at work holds no DMA memory.
BuffersFreed ==
  submit.at \in {"user", "validate", "allocate", "returned"} => submit.buffers = NoBuffers

\* What the driver lets through neither the device nor the wrapper refuses:
\* the three range checks, written differently, agree.
ValidIsAccepted ==
  submit.at \in {"copy_in", "execute"} => DeviceAccepts(submit.request)

\* A call that succeeds leaves in the caller's output the stretch that was asked
\* for, of a run of the program, the number of threads and the input asked for.
OutputAsRequested ==
  submit.ret = "ok" /\ submit.request.output.size # 0 =>
    LET r == submit.request
        input == SubSeq(r.input.bytes, 1, r.input.size)
        program == SubSeq(r.program.bytes, 1, r.program.size)
    IN  host = ResultOf([program |-> program, thread_count |-> r.thread_count,
                         memory |-> DataLoaded(input, r.input.offset)], r)
=============================================================================
