------------------------------ MODULE Runtime ------------------------------
(***************************************************************************)
(* The runtime library (runtime/src/runtime.cpp): an object collects a     *)
(* program, launch parameters, a kernel parameter block and regions of     *)
(* device memory, and run() submits them as one request (Submit).  A call  *)
(* that throws leaves behind what it had changed before.  Processes        *)
(* without the library submit requests of their own.                       *)
(*                                                                         *)
(* The image of the data memory is a sequence; byte i of a value is        *)
(* the value with i appended.                                              *)
(***************************************************************************)
EXTENDS Submit

CONSTANTS
  KernelSizes,     \* arguments of the constructor
  Sizes,           \* sizes asked for
  Alignments,
  Files,           \* binaries: sizes in bytes
  ThreadCounts,    \* arguments of set_launch_params
  RawRequests,     \* requests of processes without the library
  MaxRegions       \* bound on the allocations of an object

\* Arguments are unsigned, and fields of a request have 32 bits.
ASSUME ArgumentsAssumption ==
  /\ KernelSizes \subseteq Nat /\ Sizes \subseteq Nat /\ Alignments \subseteq Nat
  /\ Files \subseteq Nat /\ ThreadCounts \subseteq Nat /\ MaxRegions \in Nat
  /\ \A r \in RawRequests :
       /\ r.thread_count \in 0 .. Words - 1 /\ r.program.size \in 0 .. Words - 1
       /\ r.input.size \in 0 .. Words - 1 /\ r.input.offset \in 0 .. Words - 1
       /\ r.output.size \in 0 .. Words - 1 /\ r.output.offset \in 0 .. Words - 1

VARIABLES
  gpu,       \* the object, or NoObject
  regions    \* history: the regions allocated, [address, size, alignment, input]

vars == <<submitVars, gpu, regions>>

NoObject == [kernel_size |-> 0]
NoProgram == [bytes |-> <<>>, refused |-> FALSE]
NoOutput == [address |-> 0, size |-> 0]

Bytes(value, size) == [i \in 1 .. size |-> Append(value, i)]

\* The data of the n-th input region.
InputData(n) == <<"input", n>>

-----------------------------------------------------------------------------
(* Construction and the setters; each is an alternative of NewCall.        *)

Exists == gpu # NoObject
Calling == Exists /\ submit.at = "user"

Construct(kernel_size) ==
  /\ ~Exists /\ submit.at = "user"
  /\ kernel_size \in 1 .. DataMemory
  /\ gpu' = [kernel_size |-> kernel_size, next_data_offset |-> kernel_size,
             data_image |-> [i \in 1 .. DataMemory |-> Zero], program |-> NoProgram,
             thread_count |-> 1, kernel_set |-> FALSE, output |-> NoOutput, fd |-> FALSE]
  /\ UNCHANGED <<submitVars, regions>>

Destroy ==
  /\ Calling
  /\ gpu' = NoObject /\ regions' = <<>>
  /\ UNCHANGED submitVars

SetLaunchParams(thread_count) ==
  /\ Calling
  /\ thread_count \in 1 .. Counts - 1
  /\ gpu' = [gpu EXCEPT !.thread_count = thread_count]
  /\ UNCHANGED <<submitVars, regions>>

Refused(size) == size = 0 \/ size > ProgramMemory \/ size % 2 # 0

\* The binary is assigned to program_ before it is checked; a read may fail in
\* the middle.
LoadBinary(size) ==
  /\ Calling
  /\ \E got \in {size, size - 1} :
       /\ got >= 0
       /\ gpu' = [gpu EXCEPT !.program =
                    [bytes |-> Bytes(<<"program", size>>, got),
                     refused |-> got # size \/ Refused(got)]]
  /\ UNCHANGED <<submitVars, regions>>

\* Mutant: the padding is not counted.
AlignUpLate(value, alignment) == (value \div alignment) * alignment

AlignUp(value, alignment) == ((value + alignment - 1) \div alignment) * alignment

IsPowerOfTwo(value) == value # 0 /\ \E n \in 0 .. value : value = 2 ^ n

Fits(size, offset) == offset < DataMemory /\ size <= DataMemory - offset

\* allocate: device_ptr has as many values as there is data memory.
AllocateRegion(size, alignment, input) ==
  LET offset == AlignUp(gpu.next_data_offset, alignment)
      address == offset % DataMemory
      data == IF input THEN Bytes(InputData(Len(regions) + 1), size)
              ELSE [i \in 1 .. size |-> Zero]
  IN  /\ Calling
      /\ Len(regions) < MaxRegions
      /\ size # 0 /\ IsPowerOfTwo(alignment) /\ Fits(size, offset)
      /\ gpu' = [gpu EXCEPT
                   !.next_data_offset = offset + size,
                   !.data_image = [a \in DOMAIN @ |->
                      IF a \in address + 1 .. address + size THEN data[a - address] ELSE @[a]]]
      /\ regions' = Append(regions, [address |-> address, size |-> size,
                                     alignment |-> alignment, input |-> input])
      /\ UNCHANGED submitVars

SetKernel(size) ==
  /\ Calling
  /\ size = gpu.kernel_size
  /\ gpu' = [gpu EXCEPT !.kernel_set = TRUE,
                        !.data_image = [a \in DOMAIN @ |->
                           IF a <= size THEN <<"kernel", a>> ELSE @[a]]]
  /\ UNCHANGED <<submitVars, regions>>

\* Mutant: the range may end anywhere in the data memory and beyond.
InAllocatedStart(address, size) == size # 0 /\ address < gpu.next_data_offset

InAllocated(address, size) ==
  /\ size # 0 /\ address < gpu.next_data_offset
  /\ size <= gpu.next_data_offset - address

SetOutput(address, size) ==
  /\ Calling
  /\ InAllocated(address, size)
  /\ gpu' = [gpu EXCEPT !.output = [address |-> address, size |-> size]]
  /\ UNCHANGED <<submitVars, regions>>

-----------------------------------------------------------------------------
(* run()                                                                   *)

\* Mutant: the input is what the kernel block and the inputs fill.
RequestShort ==
  [program |-> [ptr |-> TRUE, size |-> Len(gpu.program.bytes), bytes |-> gpu.program.bytes],
   input |-> [ptr |-> TRUE, size |-> gpu.kernel_size, bytes |-> gpu.data_image, offset |-> 0],
   output |-> [ptr |-> TRUE, size |-> gpu.output.size, offset |-> gpu.output.address],
   thread_count |-> gpu.thread_count, reserved |-> FALSE]

Request ==
  [program |-> [ptr |-> TRUE, size |-> Len(gpu.program.bytes), bytes |-> gpu.program.bytes],
   input |-> [ptr |-> TRUE, size |-> gpu.next_data_offset, bytes |-> gpu.data_image,
              offset |-> 0],
   output |-> [ptr |-> TRUE, size |-> gpu.output.size, offset |-> gpu.output.address],
   thread_count |-> gpu.thread_count, reserved |-> FALSE]

\* The device file may fail to open; once open it stays open.
Run ==
  /\ Calling
  /\ gpu.program.bytes # <<>> /\ gpu.kernel_set /\ gpu.output # NoOutput
  /\ Enter(Request)
  /\ gpu' = [gpu EXCEPT !.fd = TRUE]
  /\ UNCHANGED regions

\* run() returns or throws, and the caller looks at its output.
RunReturns ==
  /\ submit.at = "returned"
  /\ submit' = NoSubmit /\ host' = Zero
  /\ UNCHANGED <<gpu, regions>>

-----------------------------------------------------------------------------

Init == submit = NoSubmit /\ host = Zero /\ gpu = NoObject /\ regions = <<>>

LibraryCall ==
  \/ \E size \in KernelSizes : Construct(size) \/ SetKernel(size)
  \/ Destroy
  \/ \E count \in ThreadCounts : SetLaunchParams(count)
  \/ \E size \in Files : LoadBinary(size)
  \/ \E size \in Sizes, alignment \in Alignments, input \in BOOLEAN :
       AllocateRegion(size, alignment, input)
  \/ \E address \in 0 .. DataMemory - 1, size \in Sizes : SetOutput(address, size)
  \/ Run
  \/ RunReturns

RawCall ==
  /\ ~Exists /\ submit.at = "user"
  /\ \E r \in RawRequests : Enter(r)
  /\ UNCHANGED <<gpu, regions>>

Next ==
  \/ LibraryCall
  \/ RawCall
  \/ SubmitStep /\ UNCHANGED <<gpu, regions>>

Spec == Init /\ [][Next]_vars

-----------------------------------------------------------------------------
(* Properties.                                                             *)

\* The bytes a region was given, at its address.
HoldsRegion(n) ==
  LET r == regions[n]
  IN  \A i \in 1 .. r.size :
        gpu.data_image[r.address + i] = IF r.input THEN Append(InputData(n), i) ELSE Zero

\* However allocations, kernel blocks, runs and calls that throw follow each
\* other, the kernel block and every region keep their bytes in the image, every
\* region is aligned, inside the allocated part and outside the kernel block, no
\* two overlap, and a run finds the whole image in the device memory.
ImageIntact ==
  Exists =>
    /\ gpu.kernel_set => \A i \in 1 .. gpu.kernel_size : gpu.data_image[i] = <<"kernel", i>>
    /\ \A n \in 1 .. Len(regions) :
         /\ HoldsRegion(n)
         /\ regions[n].address % regions[n].alignment = 0
         /\ regions[n].address >= gpu.kernel_size
         /\ regions[n].address + regions[n].size <= gpu.next_data_offset
    /\ \A m, n \in 1 .. Len(regions) :
         m < n => regions[m].address + regions[m].size <= regions[n].address
    /\ submit.at = "execute" =>
         DataLoaded(submit.buffers.input, submit.request.input.offset) =
           [a \in 0 .. DataMemory - 1 |-> gpu.data_image[a + 1]]

\* A request that run() builds passes the driver's checks, unless the program
\* is one that load_binary refused.
RunsAreValid ==
  Exists /\ submit.at = "validate" /\ ~gpu.program.refused => Valid(submit.request)

\* "TinyGPU binary must contain whole 16-bit instructions": load_binary throws
\* otherwise, and no such program runs.
RunsWholeInstructions ==
  Exists /\ submit.at = "execute" => Len(submit.buffers.program) % 2 = 0
=============================================================================
