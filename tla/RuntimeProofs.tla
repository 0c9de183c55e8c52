---------------------------- MODULE RuntimeProofs ----------------------------
(***************************************************************************)
(* Theorems about Runtime and Submit, for memories, words, sizes,          *)
(* alignments and requests of any size.                                    *)
(***************************************************************************)
EXTENDS Runtime, SequenceTheorems, TLAPS

-----------------------------------------------------------------------------
(* Arithmetic.                                                             *)

\* A multiple of a is aligned to a.
LEMMA Multiples ==
  ASSUME NEW q \in Nat, NEW a \in Nat \ {0}
  PROVE  (q * a) % a = 0
  BY Z3

\* Division rounds down by less than a.
LEMMA Quotient ==
  ASSUME NEW n \in Nat, NEW a \in Nat \ {0}
  PROVE  /\ n \div a \in Nat
         /\ n - a < a * (n \div a)
  BY Z3

\* align_up goes up to a multiple of the alignment (runtime.cpp).
LEMMA AlignUpFacts ==
  ASSUME NEW v \in Nat, NEW a \in Nat \ {0}
  PROVE  /\ AlignUp(v, a) \in Nat
         /\ AlignUp(v, a) >= v
         /\ AlignUp(v, a) % a = 0
  <1> DEFINE q == (v + a - 1) \div a
  <1>1. q \in Nat /\ v - 1 < a * q
    BY Quotient
  <1> HIDE DEF q
  <1>2. q * a \in Nat /\ q * a >= v
    BY <1>1
  <1>3. (q * a) % a = 0
    BY <1>1, Multiples
  <1> QED
    BY <1>2, <1>3 DEF AlignUp, q

\* The driver's checks of a range and those of the device and the wrapper.
LEMMA RangeChecksAgree ==
  ASSUME NEW offset \in Int, NEW size \in Int, NEW limit \in Int
  PROVE  RangeValid(offset, size, limit) <=> ~OutOfRange(offset, size, limit)
  BY DEF RangeValid, OutOfRange

\* A value within its width is kept.
LEMMA SmallModulus ==
  ASSUME NEW n \in Nat, NEW c \in Nat, n < c
  PROVE  n % c = n
  OBVIOUS

-----------------------------------------------------------------------------
(* The call: its inductive invariant.                                      *)

Places ==
  {"user", "validate", "allocate", "copy_in", "execute", "copy_out", "out", "returned"}

IsRequest(r) ==
  /\ r.thread_count \in Nat /\ r.program.size \in Nat
  /\ r.input.size \in Nat /\ r.input.offset \in Nat
  /\ r.output.size \in Nat /\ r.output.offset \in Nat

CallTypes ==
  /\ submit = [at |-> submit.at, request |-> submit.request, buffers |-> submit.buffers,
               ret |-> submit.ret]
  /\ submit.buffers = [program |-> submit.buffers.program, input |-> submit.buffers.input,
                       output |-> submit.buffers.output]
  /\ submit.at \in Places
  /\ submit.at # "user" => IsRequest(submit.request)

AtWork == {"allocate", "copy_in", "execute", "copy_out"}

\* A call that is at work, or has succeeded, is of a valid request and has not
\* failed.
Accepted ==
  /\ submit.at \in AtWork \cup {"user", "validate"} => submit.ret = "none"
  /\ submit.at \in AtWork \/ submit.ret = "ok" => Valid(submit.request)

ProgramOf(r) == SubSeq(r.program.bytes, 1, r.program.size)
InputOf(r) == SubSeq(r.input.bytes, 1, r.input.size)

\* The output that a request asks for.
Asked(r) ==
  ResultOf([program |-> ProgramOf(r), thread_count |-> r.thread_count,
            memory |-> DataLoaded(InputOf(r), r.input.offset)], r)

\* The buffers hold the program and the input, then the output asked for.
BuffersFilled ==
  /\ submit.at = "execute" => /\ submit.buffers.program = ProgramOf(submit.request)
                              /\ submit.buffers.input = InputOf(submit.request)
  /\ submit.at = "copy_out" => submit.buffers.output = <<Asked(submit.request)>>

CallInv == CallTypes /\ Accepted /\ BuffersFilled /\ BuffersFreed /\ OutputAsRequested

\* The job a valid request becomes is the one asked for: its count is not cut off.
LEMMA JobIsAsked ==
  ASSUME NEW r, IsRequest(r), Valid(r)
  PROVE  ResultOf(JobOf(r, ProgramOf(r), InputOf(r)), r) = Asked(r)
  <1>1. r.thread_count % Counts = r.thread_count
    BY SmallModulus, WidthsAssumption DEF IsRequest, Valid
  <1> QED
    BY <1>1 DEF Asked, JobOf

\* No call has been made.
LEMMA CallInitially == submit = NoSubmit => CallInv
  BY DEF NoSubmit, NoBuffers, CallInv, CallTypes, Accepted, BuffersFilled, BuffersFreed,
         OutputAsRequested, Places, AtWork

\* A step that leaves the call alone.
LEMMA CallUnchanged == CallInv /\ UNCHANGED submitVars => CallInv'
  BY DEF submitVars, CallInv, CallTypes, Accepted, BuffersFilled, BuffersFreed,
         OutputAsRequested, Asked, ProgramOf, InputOf, IsRequest, Valid, RangeValid, HasPointer

\* Any request may enter the ioctl.
LEMMA CallEnters ==
  ASSUME CallInv, NEW r, IsRequest(r), Enter(r)
  PROVE  CallInv'
  BY DEF Enter, NoSubmit, NoBuffers, CallInv, CallTypes, Accepted, BuffersFilled, BuffersFreed,
         OutputAsRequested, Places, AtWork

\* Each step of the ioctl keeps what the next one relies on.
LEMMA CallSteps ==
  ASSUME CallInv, SubmitStep
  PROVE  CallInv'
  <1> USE DEF CallInv, CallTypes, Accepted, BuffersFilled, BuffersFreed, OutputAsRequested,
              Places, AtWork
  <1>1. CASE Validate
    BY <1>1 DEF Validate, Returns
  <1>2. CASE Allocate
    BY <1>2, ZenonT(60) DEF Allocate, GoesOut, Allocated, NoBuffers
  <1>3. CASE CopyIn
    <2> DEFINE r == submit.request
    <2>1. CASE submit' = GoesOut("EFAULT")
      BY <1>3, <2>1 DEF CopyIn, GoesOut
    <2>2. CASE submit' = [submit EXCEPT !.at = "execute", !.buffers.program = ProgramOf(r),
                                        !.buffers.input = InputOf(r)]
      <3>1. /\ submit'.at = "execute" /\ submit'.request = r /\ submit'.ret = submit.ret
            /\ submit'.buffers.program = ProgramOf(r) /\ submit'.buffers.input = InputOf(r)
        BY <2>2
      <3>2. CallTypes'
        BY <1>3, <2>2 DEF CopyIn
      <3>3. submit.ret = "none" /\ Valid(submit.request)
        BY <1>3 DEF CopyIn
      <3> QED
        BY <3>1, <3>2, <3>3 DEF ProgramOf, InputOf
    <2> QED
      BY <1>3, <2>1, <2>2 DEF CopyIn, ProgramOf, InputOf
  <1>4. CASE Execute
    <2> DEFINE r == submit.request
    <2>1. ASSUME NEW e \in {"EIO", "ETIMEDOUT", "ERESTARTSYS"}, submit' = GoesOut(e)
          PROVE  CallInv'
      BY <1>4, <2>1 DEF Execute, GoesOut
    <2>2. CASE submit' = [submit EXCEPT !.at = "copy_out", !.buffers.output = <<Asked(r)>>]
      <3>1. /\ submit'.at = "copy_out" /\ submit'.request = r /\ submit'.ret = submit.ret
            /\ submit'.buffers.output = <<Asked(r)>>
        BY <2>2
      <3>2. CallTypes'
        BY <1>4, <2>2 DEF Execute
      <3>3. submit.ret = "none" /\ Valid(r)
        BY <1>4 DEF Execute
      <3> QED
        BY <3>1, <3>2, <3>3
    <2>3. ResultOf(JobOf(r, submit.buffers.program, submit.buffers.input), r) = Asked(r)
      BY <1>4, JobIsAsked DEF Execute
    <2> QED
      BY <1>4, <2>1, <2>2, <2>3 DEF Execute
  <1>5. CASE CopyOut
    <2> DEFINE r == submit.request
    <2>1. submit.buffers.output = <<Asked(r)>> /\ Valid(r)
      BY <1>5 DEF CopyOut
    <2>2. CASE /\ submit' = GoesOut("ok")
               /\ host' = IF r.output.size = 0 THEN host ELSE submit.buffers.output[1]
      <3>1. /\ submit'.at = "out" /\ submit'.request = r /\ submit'.ret = "ok"
            /\ r.output.size # 0 => host' = Asked(r)
        BY <2>1, <2>2 DEF GoesOut
      <3>2. CallTypes'
        BY <1>5, <2>2 DEF CopyOut, GoesOut
      <3> QED
        BY <2>1, <3>1, <3>2 DEF Asked, ProgramOf, InputOf
    <2>3. CASE submit' = GoesOut("EFAULT")
      BY <1>5, <2>3 DEF CopyOut, GoesOut
    <2> QED
      BY <1>5, <2>2, <2>3 DEF CopyOut
  <1>6. CASE Out
    BY <1>6, ZenonT(60) DEF Out, NoBuffers
  <1> QED
    BY <1>1, <1>2, <1>3, <1>4, <1>5, <1>6 DEF SubmitStep

-----------------------------------------------------------------------------
(* The object: its inductive invariant.                                    *)

Regions == [address : Nat, size : Nat \ {0}, alignment : Nat \ {0}, input : BOOLEAN]

Fields == {"kernel_size", "next_data_offset", "data_image", "program", "thread_count",
           "kernel_set", "output", "fd"}
ObjectShape == DOMAIN gpu = Fields

\* The output, and every program that was not refused, fit.
ObjectNumbers ==
  /\ gpu.kernel_size \in 1 .. DataMemory
  /\ gpu.next_data_offset \in gpu.kernel_size .. DataMemory
  /\ gpu.thread_count \in 1 .. Counts - 1
  /\ Len(gpu.program.bytes) \in Nat
  /\ ~gpu.program.refused => Len(gpu.program.bytes) <= ProgramMemory
  /\ gpu.output.address \in Nat /\ gpu.output.size \in Nat
  /\ gpu.output.address + gpu.output.size <= gpu.next_data_offset

\* The image has the size of the memory, and is zero behind the allocated part.
Image ==
  /\ gpu.data_image = [a \in 1 .. DataMemory |-> gpu.data_image[a]]
  /\ \A a \in gpu.next_data_offset + 1 .. DataMemory : gpu.data_image[a] = Zero

KernelKept ==
  gpu.kernel_set => \A i \in 1 .. gpu.kernel_size : gpu.data_image[i] = <<"kernel", i>>

RegionsKept ==
  /\ regions \in Seq(Regions)
  /\ \A n \in 1 .. Len(regions) :
       /\ HoldsRegion(n)
       /\ regions[n].address % regions[n].alignment = 0
       /\ regions[n].address >= gpu.kernel_size
       /\ regions[n].address + regions[n].size <= gpu.next_data_offset
  /\ \A m, n \in 1 .. Len(regions) :
       m < n => regions[m].address + regions[m].size <= regions[n].address

\* While a call is under way the object does not change, and the request is the
\* one that run() built from it.
Built == submit.at # "user" => submit.request = Request

ObjectInv ==
  /\ ~Exists => gpu = NoObject /\ regions = <<>>
  /\ Exists => /\ ObjectShape /\ ObjectNumbers /\ Image
                /\ KernelKept /\ RegionsKept /\ Built

IInv == CallInv /\ ObjectInv

\* A value is stored in as many bytes as asked for.
LEMMA BytesLength ==
  ASSUME NEW value, NEW n \in Nat
  PROVE  Len(Bytes(value, n)) = n
  BY DEF Bytes

\* run() fills every field of the request.
LEMMA RequestIsRequest ==
  ASSUME ObjectNumbers
  PROVE  IsRequest(Request)
  BY WidthsAssumption DEF ObjectNumbers, IsRequest, Request

\* What an object asks for passes the driver's checks, its program being accepted.
LEMMA RequestIsValid ==
  ASSUME ObjectNumbers, ~gpu.program.refused
  PROVE  Valid(Request)
  <1>1. /\ gpu.thread_count < Counts
        /\ Len(gpu.program.bytes) <= ProgramMemory
        /\ RangeValid(0, gpu.next_data_offset, DataMemory)
        /\ RangeValid(gpu.output.address, gpu.output.size, DataMemory)
    <2>1. gpu.thread_count < Counts
      BY WidthsAssumption DEF ObjectNumbers
    <2>2. Len(gpu.program.bytes) <= ProgramMemory
      BY WidthsAssumption DEF ObjectNumbers
    <2>3. RangeValid(0, gpu.next_data_offset, DataMemory)
      BY WidthsAssumption DEF ObjectNumbers, RangeValid
    <2>4. RangeValid(gpu.output.address, gpu.output.size, DataMemory)
      BY WidthsAssumption DEF ObjectNumbers, RangeValid
    <2> QED
      BY <2>1, <2>2, <2>3, <2>4
  <1> QED
    BY <1>1 DEF Request, Valid, HasPointer

\* What the run finds in the device memory.
LEMMA WholeImage ==
  ASSUME ObjectNumbers, Image
  PROVE  DataLoaded(InputOf(Request), Request.input.offset) =
           [a \in 0 .. DataMemory - 1 |-> gpu.data_image[a + 1]]
  <1> DEFINE next == gpu.next_data_offset
             image == gpu.data_image
             input == SubSeq(image, 1, next)
  <1>1. next \in 1 .. DataMemory
    BY WidthsAssumption DEF ObjectNumbers
  <1>2. \A a \in next + 1 .. DataMemory : image[a] = Zero
    BY DEF Image
  <1>3. InputOf(Request) = input /\ Request.input.offset = 0
    BY DEF InputOf, Request
  <1> HIDE DEF next, image
  <1>4. /\ Len(input) = next
        /\ \A i \in 1 .. next : input[i] = image[i]
    <2>1. \A i \in 1 .. next : image[i] \in {image[j] : j \in 1 .. next}
      OBVIOUS
    <2> QED
      BY <1>1, <2>1, WidthsAssumption, SubSeqProperties
  <1> HIDE DEF input
  <1>5. \A a \in 0 .. DataMemory - 1 :
          (IF a \in 0 .. 0 + Len(input) - 1 THEN input[a - 0 + 1] ELSE Zero) = image[a + 1]
    BY <1>1, <1>2, <1>4, WidthsAssumption
  <1> QED
    BY <1>3, <1>5 DEF DataLoaded, image

-----------------------------------------------------------------------------
(* The calls of the library, one by one.                                   *)

ObjectIs == ObjectShape /\ ObjectNumbers /\ Image /\ KernelKept /\ RegionsKept

\* An object with parameters is constructed.
LEMMA ExistsByNumbers == ObjectNumbers => Exists
  BY DEF ObjectNumbers, Exists, NoObject

\* What depends on the image, the allocated part and the regions only.
LEMMA ImageStays ==
  ASSUME Image, KernelKept, RegionsKept, UNCHANGED regions,
         gpu'.data_image = gpu.data_image, gpu'.kernel_size = gpu.kernel_size,
         gpu'.next_data_offset = gpu.next_data_offset, gpu'.kernel_set = gpu.kernel_set
  PROVE  Image' /\ KernelKept' /\ RegionsKept'
  <1>1. Image' /\ KernelKept'
    BY DEF Image, KernelKept
  <1>2. ASSUME NEW n \in 1 .. Len(regions)
        PROVE  HoldsRegion(n)'
    BY DEF RegionsKept, HoldsRegion
  <1>3. RegionsKept'
    BY <1>2 DEF RegionsKept
  <1> QED
    BY <1>1, <1>3

\* The constructor reserves the kernel block.
LEMMA ConstructMakesObject ==
  ASSUME NEW kernel_size \in KernelSizes, ObjectInv, Construct(kernel_size)
  PROVE  ObjectIs' /\ submit'.at = "user"
  <1>1. /\ kernel_size \in 1 .. DataMemory /\ regions' = <<>> /\ submit'.at = "user"
        /\ kernel_size \in Nat
    BY ArgumentsAssumption DEF Construct, ObjectInv, submitVars
  <1>2. /\ gpu'.kernel_size = kernel_size /\ gpu'.next_data_offset = kernel_size
        /\ gpu'.data_image = [i \in 1 .. DataMemory |-> Zero]
        /\ gpu'.program = NoProgram /\ gpu'.thread_count = 1 /\ gpu'.kernel_set = FALSE
        /\ gpu'.output = NoOutput
    BY DEF Construct
  <1>3. ObjectShape'
    BY DEF Construct, ObjectShape, Fields
  <1>4. ObjectNumbers'
    BY <1>1, <1>2, WidthsAssumption DEF ObjectNumbers, NoProgram, NoOutput
  <1>5. Image' /\ KernelKept'
    BY <1>1, <1>2 DEF Image, KernelKept
  <1>6. RegionsKept'
    BY <1>1 DEF RegionsKept
  <1> QED
    BY <1>1, <1>3, <1>4, <1>5, <1>6 DEF ObjectIs

\* set_launch_params touches no memory.
LEMMA SetLaunchParamsKeepsObject ==
  ASSUME NEW count \in ThreadCounts, ObjectIs, SetLaunchParams(count)
  PROVE  ObjectIs'
  <1>1. ObjectShape' /\ ObjectNumbers'
    BY DEF SetLaunchParams, ObjectIs, ObjectShape, Fields, ObjectNumbers
  <1>2. Image' /\ KernelKept' /\ RegionsKept'
    BY ImageStays DEF SetLaunchParams, ObjectIs, ObjectShape, Fields
  <1> QED
    BY <1>1, <1>2 DEF ObjectIs

\* load_binary changes the program alone, also when it throws.
LEMMA LoadBinaryKeepsObject ==
  ASSUME NEW size \in Files, ObjectIs, LoadBinary(size)
  PROVE  ObjectIs'
  <1>1. PICK got \in {size, size - 1} :
          /\ got >= 0
          /\ gpu' = [gpu EXCEPT !.program =
                       [bytes |-> Bytes(<<"program", size>>, got),
                        refused |-> got # size \/ Refused(got)]]
    BY DEF LoadBinary
  <1>2. got \in Nat /\ Len(Bytes(<<"program", size>>, got)) = got
    BY <1>1, BytesLength, ArgumentsAssumption
  <1>3. /\ gpu'.program.bytes = Bytes(<<"program", size>>, got)
        /\ gpu'.program.refused = (got # size \/ Refused(got))
        /\ DOMAIN gpu' = DOMAIN gpu
        /\ \A f \in DOMAIN gpu \ {"program"} : gpu'[f] = gpu[f]
    BY <1>1 DEF ObjectIs, ObjectShape, Fields
  <1>4. /\ gpu'.kernel_size = gpu.kernel_size /\ gpu'.next_data_offset = gpu.next_data_offset
        /\ gpu'.data_image = gpu.data_image /\ gpu'.thread_count = gpu.thread_count
        /\ gpu'.kernel_set = gpu.kernel_set /\ gpu'.output = gpu.output
    BY <1>3 DEF ObjectIs, ObjectShape, Fields
  <1>5. ~gpu'.program.refused => got <= ProgramMemory
    <2>1. ~gpu'.program.refused => ~Refused(got)
      BY <1>3, Zenon
    <2> QED
      BY <1>2, <2>1, WidthsAssumption DEF Refused
  <1>6. ObjectShape' /\ ObjectNumbers'
    BY <1>2, <1>3, <1>4, <1>5 DEF ObjectIs, ObjectShape, ObjectNumbers
  <1>7. Image' /\ KernelKept' /\ RegionsKept'
    BY <1>4, ImageStays DEF LoadBinary, ObjectIs
  <1> QED
    BY <1>6, <1>7 DEF ObjectIs

\* set_output takes what lies in the allocated part.
LEMMA SetOutputKeepsObject ==
  ASSUME NEW address \in 0 .. DataMemory - 1, NEW size \in Sizes, ObjectIs,
         SetOutput(address, size)
  PROVE  ObjectIs'
  <1>1. address \in Nat /\ size \in Nat /\ address + size <= gpu.next_data_offset
    BY WidthsAssumption, ArgumentsAssumption DEF SetOutput, InAllocated, ObjectIs, ObjectNumbers
  <1>2. ObjectShape' /\ ObjectNumbers'
    BY <1>1 DEF SetOutput, ObjectIs, ObjectShape, Fields, ObjectNumbers
  <1>3. Image' /\ KernelKept' /\ RegionsKept'
    BY ImageStays DEF SetOutput, ObjectIs, ObjectShape, Fields
  <1> QED
    BY <1>2, <1>3 DEF ObjectIs

\* run() opens the device and touches no memory.
LEMMA RunKeepsObject ==
  ASSUME ObjectIs, Run
  PROVE  ObjectIs' /\ Built'
  <1>1. ObjectShape' /\ ObjectNumbers'
    BY DEF Run, ObjectIs, ObjectShape, Fields, ObjectNumbers
  <1>2. Image' /\ KernelKept' /\ RegionsKept'
    BY ImageStays DEF Run, ObjectIs, ObjectShape, Fields
  <1>3. submit'.request = Request /\ Request' = Request
    BY DEF Run, Enter, NoSubmit, NoBuffers, Request, ObjectIs, ObjectShape, Fields
  <1> QED
    BY <1>1, <1>2, <1>3 DEF ObjectIs, Built

\* set_kernel writes to the kernel block alone.
LEMMA SetKernelKeepsObject ==
  ASSUME NEW size \in KernelSizes, ObjectIs, SetKernel(size)
  PROVE  ObjectIs'
  <1>1. /\ DOMAIN gpu' = DOMAIN gpu
        /\ gpu'.kernel_size = gpu.kernel_size /\ gpu'.next_data_offset = gpu.next_data_offset
        /\ gpu'.program = gpu.program /\ gpu'.thread_count = gpu.thread_count
        /\ gpu'.output = gpu.output
        /\ gpu'.data_image = [a \in DOMAIN gpu.data_image |->
                                IF a <= gpu.kernel_size THEN <<"kernel", a>>
                                ELSE gpu.data_image[a]]
        /\ regions' = regions
    BY DEF SetKernel, ObjectIs, ObjectShape, Fields
  <1>2. ObjectShape' /\ ObjectNumbers'
    BY <1>1 DEF ObjectIs, ObjectShape, ObjectNumbers
  <1>3. /\ gpu.kernel_size \in 1 .. DataMemory /\ gpu.next_data_offset \in Nat
        /\ gpu.kernel_size <= gpu.next_data_offset
        /\ DataMemory \in Nat
        /\ DOMAIN gpu.data_image = 1 .. DataMemory
    BY WidthsAssumption DEF ObjectIs, ObjectNumbers, Image
  <1>4. /\ \A a \in 1 .. gpu.kernel_size : gpu'.data_image[a] = <<"kernel", a>>
        /\ \A a \in gpu.kernel_size + 1 .. DataMemory : gpu'.data_image[a] = gpu.data_image[a]
    BY <1>1, <1>3
  <1>5. Image'
    BY <1>1, <1>3, <1>4 DEF ObjectIs, Image
  <1>6. KernelKept'
    BY <1>1, <1>4 DEF KernelKept
  <1>7. ASSUME NEW n \in 1 .. Len(regions)
        PROVE  HoldsRegion(n)'
    <2> DEFINE r == regions[n]
    <2>1. /\ r \in Regions /\ HoldsRegion(n) /\ r.address >= gpu.kernel_size
          /\ r.address + r.size <= gpu.next_data_offset /\ gpu.next_data_offset <= DataMemory
      <3>1. gpu.next_data_offset <= DataMemory
        BY <1>3 DEF ObjectIs, ObjectNumbers
      <3>2. RegionsKept
        BY DEF ObjectIs
      <3>. QED BY <3>1, <3>2 DEF RegionsKept
    <2>2. r.address \in Nat /\ r.size \in Nat
      BY <2>1 DEF Regions
    <2> HIDE DEF r
    <2>3. \A i \in 1 .. r.size : r.address + i \in gpu.kernel_size + 1 .. DataMemory
      BY <1>3, <2>1, <2>2, SMTT(30)
    <2>4. \A i \in 1 .. r.size : gpu'.data_image[r.address + i] = gpu.data_image[r.address + i]
      BY <1>4, <2>3
    <2> QED
      BY <1>1, <2>1, <2>4 DEF HoldsRegion, r
  <1>8. RegionsKept'
    BY <1>1, <1>7 DEF ObjectIs, RegionsKept
  <1> QED
    BY <1>2, <1>5, <1>6, <1>8 DEF ObjectIs

\* A new region lies behind all others, with its bytes in place.
LEMMA AllocateRegionKeepsObject ==
  ASSUME NEW size \in Sizes, NEW alignment \in Alignments, NEW input \in BOOLEAN,
         ObjectIs, AllocateRegion(size, alignment, input)
  PROVE  ObjectIs'
  <1> DEFINE offset == AlignUp(gpu.next_data_offset, alignment)
             address == offset % DataMemory
             n == Len(regions) + 1
             data == IF input THEN Bytes(InputData(n), size)
                     ELSE [i \in 1 .. size |-> Zero]
             new == [address |-> address, size |-> size, alignment |-> alignment,
                     input |-> input]
  <1>1. /\ size \in Nat \ {0} /\ alignment \in Nat \ {0}
        /\ Fits(size, offset)
    BY ArgumentsAssumption DEF AllocateRegion, IsPowerOfTwo
  <1>2. /\ gpu.kernel_size \in 1 .. DataMemory /\ gpu.next_data_offset \in Nat
        /\ gpu.kernel_size <= gpu.next_data_offset /\ gpu.next_data_offset <= DataMemory
        /\ DataMemory \in Nat
        /\ DOMAIN gpu.data_image = 1 .. DataMemory
    BY WidthsAssumption DEF ObjectIs, ObjectNumbers, Image
  <1>3. /\ offset \in Nat /\ offset >= gpu.next_data_offset
        /\ offset % alignment = 0
    BY <1>1, <1>2, AlignUpFacts
  <1>4. /\ gpu' = [gpu EXCEPT
                   !.next_data_offset = offset + size,
                   !.data_image = [a \in DOMAIN @ |->
                      IF a \in address + 1 .. address + size THEN data[a - address] ELSE @[a]]]
        /\ regions' = Append(regions, new)
    BY DEF AllocateRegion
  <1> HIDE DEF offset
  <1>5. /\ address = offset /\ offset + size <= DataMemory /\ offset < DataMemory
    BY <1>1, <1>2, <1>3, SmallModulus DEF Fits
  <1>6. /\ \A i \in 1 .. size : data[i] = IF input THEN Append(InputData(n), i) ELSE Zero
    BY <1>1 DEF Bytes
  <1> HIDE DEF data, address
  <1>7. /\ DOMAIN gpu' = DOMAIN gpu
        /\ gpu'.kernel_size = gpu.kernel_size /\ gpu'.kernel_set = gpu.kernel_set
        /\ gpu'.next_data_offset = offset + size
        /\ gpu'.program = gpu.program /\ gpu'.thread_count = gpu.thread_count
        /\ gpu'.output = gpu.output
        /\ gpu'.data_image = [a \in 1 .. DataMemory |->
              IF a \in offset + 1 .. offset + size THEN data[a - offset]
              ELSE gpu.data_image[a]]
    BY <1>2, <1>4, <1>5 DEF ObjectIs, ObjectShape, Fields
  <1>8. /\ \A i \in 1 .. size : gpu'.data_image[offset + i] =
                                  IF input THEN Append(InputData(n), i) ELSE Zero
        /\ \A a \in 1 .. offset : gpu'.data_image[a] = gpu.data_image[a]
        /\ \A a \in offset + size + 1 .. DataMemory : gpu'.data_image[a] = gpu.data_image[a]
    <2>1. \A i \in 1 .. size : gpu'.data_image[offset + i] = data[i]
      BY <1>1, <1>2, <1>3, <1>5, <1>7
    <2>2. /\ \A a \in 1 .. offset : gpu'.data_image[a] = gpu.data_image[a]
          /\ \A a \in offset + size + 1 .. DataMemory : gpu'.data_image[a] = gpu.data_image[a]
      BY <1>1, <1>2, <1>3, <1>5, <1>7
    <2> QED
      BY <1>6, <2>1, <2>2
  <1>9. ObjectShape' /\ ObjectNumbers'
    BY <1>1, <1>2, <1>3, <1>5, <1>7, SMTT(30) DEF ObjectIs, ObjectShape, ObjectNumbers
  <1>10. Image'
    <2>1. \A a \in gpu.next_data_offset + 1 .. DataMemory : gpu.data_image[a] = Zero
      BY DEF ObjectIs, Image
    <2>2. \A a \in offset + size + 1 .. DataMemory : a \in gpu.next_data_offset + 1 .. DataMemory
      BY <1>1, <1>2, <1>3
    <2> QED
      BY <1>7, <1>8, <2>1, <2>2 DEF Image
  <1>11. KernelKept'
    BY <1>2, <1>3, <1>7, <1>8 DEF ObjectIs, KernelKept
  <1>12. RegionsKept'
    <2>1. /\ new \in Regions /\ new.address = offset /\ new.size = size
          /\ new.alignment = alignment /\ new.input = input
      BY <1>1, <1>3, <1>5 DEF Regions
    <2> HIDE DEF new
    <2> DEFINE Holds(m) ==
                 \A i \in 1 .. regions'[m].size :
                   gpu'.data_image[regions'[m].address + i] =
                     IF regions'[m].input THEN Append(InputData(m), i) ELSE Zero
    <2>2. /\ regions' \in Seq(Regions) /\ Len(regions') = n
          /\ n \in Nat /\ Len(regions) = n - 1
          /\ \A m \in 1 .. n - 1 : regions'[m] = regions[m]
          /\ regions'[n] = new
      BY <1>4, <2>1 DEF ObjectIs, RegionsKept
    <2> HIDE DEF n
    <2>3. ASSUME NEW m \in 1 .. n - 1
          PROVE  /\ Holds(m)
                 /\ regions'[m].address % regions'[m].alignment = 0
                 /\ regions'[m].address >= gpu'.kernel_size
                 /\ regions'[m].address + regions'[m].size <= offset
      <3> DEFINE r == regions[m]
      <3>1. /\ r \in Regions /\ HoldsRegion(m) /\ r.address >= gpu.kernel_size
            /\ r.address % r.alignment = 0
            /\ r.address + r.size <= gpu.next_data_offset
        BY <2>2 DEF ObjectIs, RegionsKept
      <3>2. r.address \in Nat /\ r.size \in Nat
        BY <3>1 DEF Regions
      <3>3. regions'[m] = r
        BY <2>2
      <3>4. \A i \in 1 .. r.size :
              gpu.data_image[r.address + i] = IF r.input THEN Append(InputData(m), i) ELSE Zero
        BY <3>1 DEF HoldsRegion
      <3> HIDE DEF r
      <3>5. r.address + r.size <= offset
        BY <1>2, <1>3, <3>1, <3>2
      <3>6. \A i \in 1 .. r.size : r.address + i \in 1 .. offset
        BY <1>3, <3>2, <3>5
      <3>7. Holds(m)
        BY <1>8, <3>3, <3>4, <3>6
      <3> QED
        BY <1>7, <3>1, <3>3, <3>5, <3>7
    <2>4. /\ Holds(n)
          /\ regions'[n].address % regions'[n].alignment = 0
          /\ regions'[n].address >= gpu'.kernel_size
          /\ regions'[n].address = offset /\ regions'[n].size = size
      <3>1. /\ regions'[n].address = offset /\ regions'[n].size = size
            /\ regions'[n].alignment = alignment /\ regions'[n].input = input
        BY <2>1, <2>2
      <3>2. Holds(n)
        BY <1>8, <3>1
      <3> QED
        BY <1>2, <1>3, <1>7, <3>1, <3>2
    <2> HIDE DEF Holds
    <2>5. \A m \in 1 .. Len(regions') :
            /\ Holds(m)
            /\ regions'[m].address % regions'[m].alignment = 0
            /\ regions'[m].address >= gpu'.kernel_size
      BY <2>2, <2>3, <2>4
    <2>6. \A m \in 1 .. Len(regions') :
            regions'[m].address + regions'[m].size <= gpu'.next_data_offset
      <3>1. \A m \in 1 .. n - 1 : regions'[m].address \in Nat /\ regions'[m].size \in Nat
        <4>1. \A m \in 1 .. n - 1 : regions'[m] \in Regions
          BY <2>2
        <4> QED
          BY <4>1 DEF Regions
      <3> QED
        BY <1>1, <1>3, <1>7, <2>2, <2>3, <2>4, <3>1
    <2>7. \A l, m \in 1 .. Len(regions') :
            l < m => regions'[l].address + regions'[l].size <= regions'[m].address
      <3>1. ASSUME NEW l \in 1 .. n, NEW m \in 1 .. n, l < m
            PROVE  regions'[l].address + regions'[l].size <= regions'[m].address
        <4>1. CASE m = n
          BY <2>2, <2>3, <2>4, <3>1, <4>1
        <4>2. CASE m # n
          BY <2>2, <3>1, <4>2 DEF ObjectIs, RegionsKept
        <4> QED
          BY <4>1, <4>2
      <3> QED
        BY <2>2, <3>1
    <2> QED
      BY <2>2, <2>5, <2>6, <2>7 DEF RegionsKept, HoldsRegion, Holds
  <1> QED
    BY <1>9, <1>10, <1>11, <1>12 DEF ObjectIs

-----------------------------------------------------------------------------
(* The invariant is inductive.                                             *)

\* A step that leaves the object alone.
LEMMA ObjectUnchanged ==
  ASSUME ObjectInv, UNCHANGED <<gpu, regions>>, Built'
  PROVE  ObjectInv'
  <1>1. Exists' = Exists
    BY DEF Exists, NoObject
  <1>2. Exists => Image' /\ KernelKept' /\ RegionsKept'
    BY ImageStays DEF ObjectInv
  <1>3. Exists => ObjectShape' /\ ObjectNumbers'
    BY DEF ObjectInv, ObjectShape, ObjectNumbers
  <1> QED
    BY <1>1, <1>2, <1>3 DEF ObjectInv, NoObject

\* An object that stays well formed.
LEMMA ObjectKept ==
  ASSUME ObjectIs', Built'
  PROVE  ObjectInv'
  <1>1. Exists'
    BY DEF ObjectIs, ObjectNumbers, Exists, NoObject
  <1> QED
    BY <1>1 DEF ObjectIs, ObjectInv

\* The ioctl does not change its request.
LEMMA SubmitStepKeepsRequest ==
  ASSUME CallTypes, SubmitStep
  PROVE  submit.at # "user" /\ submit'.request = submit.request
  BY DEF CallTypes, SubmitStep, Validate, Allocate, CopyIn, Execute, CopyOut, Out, Returns, GoesOut

\* A call of the library changes no ioctl under way.
LEMMA LibraryCallKeepsCall ==
  ASSUME IInv, LibraryCall
  PROVE  CallInv'
  <1>1. CASE UNCHANGED submitVars
    BY <1>1, CallUnchanged DEF IInv
  <1>2. CASE Run
    <2>1. IsRequest(Request) /\ Enter(Request)
      BY <1>2, RequestIsRequest DEF IInv, ObjectInv, Run, Calling
    <2> QED
      BY <2>1, CallEnters DEF IInv
  <1>3. CASE RunReturns
    BY <1>3 DEF RunReturns, NoSubmit, NoBuffers, CallInv, CallTypes, Accepted, BuffersFilled,
                BuffersFreed, OutputAsRequested, Places, AtWork
  <1> QED
    BY <1>1, <1>2, <1>3
       DEF LibraryCall, Construct, SetKernel, Destroy, SetLaunchParams, LoadBinary,
           AllocateRegion, SetOutput

\* Each call of the library keeps the object well formed.
LEMMA LibraryCallKeepsObject ==
  ASSUME IInv, LibraryCall
  PROVE  ObjectInv'
  <1>1. ASSUME NEW size \in KernelSizes, Construct(size)
        PROVE  ObjectInv'
    BY <1>1, ConstructMakesObject, ObjectKept DEF IInv, Built
  <1>2. CASE Destroy
    BY <1>2 DEF Destroy, ObjectInv, Exists
  <1>3. CASE RunReturns
    <2>1. submit'.at = "user" /\ UNCHANGED <<gpu, regions>>
      BY <1>3 DEF RunReturns, NoSubmit
    <2> QED
      BY <2>1, ObjectUnchanged DEF IInv, Built
  <1>4. CASE Run
    <2>1. ObjectIs
      BY <1>4 DEF Run, Calling, IInv, ObjectInv, ObjectIs
    <2> QED
      BY <1>4, <2>1, RunKeepsObject, ObjectKept
  <1>5. ASSUME Calling, UNCHANGED submitVars, ObjectIs'
        PROVE  ObjectInv'
    BY <1>5, ObjectKept DEF Calling, submitVars, Built
  <1>6. ASSUME Calling
        PROVE  ObjectIs
    BY <1>6 DEF Calling, IInv, ObjectInv, ObjectIs
  <1>7. ASSUME NEW size \in KernelSizes, SetKernel(size)
        PROVE  ObjectInv'
    BY <1>5, <1>6, <1>7, SetKernelKeepsObject DEF SetKernel
  <1>8. ASSUME NEW count \in ThreadCounts, SetLaunchParams(count)
        PROVE  ObjectInv'
    BY <1>5, <1>6, <1>8, SetLaunchParamsKeepsObject DEF SetLaunchParams
  <1>9. ASSUME NEW size \in Files, LoadBinary(size)
        PROVE  ObjectInv'
    BY <1>5, <1>6, <1>9, LoadBinaryKeepsObject DEF LoadBinary
  <1>10. ASSUME NEW size \in Sizes, NEW alignment \in Alignments, NEW input \in BOOLEAN,
                AllocateRegion(size, alignment, input)
         PROVE  ObjectInv'
    BY <1>5, <1>6, <1>10, AllocateRegionKeepsObject DEF AllocateRegion
  <1>11. ASSUME NEW address \in 0 .. DataMemory - 1, NEW size \in Sizes,
                SetOutput(address, size)
         PROVE  ObjectInv'
    BY <1>5, <1>6, <1>11, SetOutputKeepsObject DEF SetOutput
  <1> QED
    BY <1>1, <1>2, <1>3, <1>4, <1>7, <1>8, <1>9, <1>10, <1>11 DEF LibraryCall

\* A process without the library submits what it likes.
LEMMA RawCallKeepsInvariant ==
  ASSUME IInv, RawCall
  PROVE  IInv'
  <1>1. PICK r \in RawRequests : Enter(r)
    BY DEF RawCall
  <1>2. IsRequest(r)
    BY ArgumentsAssumption, WidthsAssumption DEF IsRequest
  <1>3. CallInv'
    BY <1>1, <1>2, CallEnters DEF IInv
  <1>4. ObjectInv'
    BY DEF RawCall, IInv, ObjectInv, Exists, NoObject
  <1> QED
    BY <1>3, <1>4 DEF IInv

\* A step of the ioctl leaves the object as it is.
LEMMA SubmitStepKeepsInvariant ==
  ASSUME IInv, SubmitStep, UNCHANGED <<gpu, regions>>
  PROVE  IInv'
  <1>1. CallInv'
    BY CallSteps DEF IInv
  <1>2. Exists => Built'
    BY SubmitStepKeepsRequest DEF IInv, CallInv, ObjectInv, Built, Request
  <1>3. CASE Exists
    BY <1>1, <1>2, <1>3, ObjectUnchanged DEF IInv
  <1>4. CASE ~Exists
    BY <1>1, <1>4 DEF IInv, ObjectInv, Exists, NoObject
  <1> QED
    BY <1>3, <1>4

\* Each step keeps the invariant.
LEMMA InductiveInvariance ==
  ASSUME IInv, [Next]_vars
  PROVE  IInv'
  <1>1. CASE LibraryCall
    BY <1>1, LibraryCallKeepsCall, LibraryCallKeepsObject DEF IInv
  <1>2. CASE RawCall
    BY <1>2, RawCallKeepsInvariant
  <1>3. CASE SubmitStep /\ UNCHANGED <<gpu, regions>>
    BY <1>3, SubmitStepKeepsInvariant
  <1>4. CASE UNCHANGED vars
    <2>1. CallInv'
      BY <1>4, CallUnchanged DEF vars, IInv
    <2>2. Exists => Built'
      BY <1>4 DEF vars, submitVars, IInv, ObjectInv, Built, Request
    <2>3. UNCHANGED <<gpu, regions>>
      BY <1>4 DEF vars
    <2>4. CASE Exists
      BY <2>1, <2>2, <2>3, <2>4, ObjectUnchanged DEF IInv
    <2>5. CASE ~Exists
      BY <2>1, <2>3, <2>5 DEF IInv, ObjectInv, Exists, NoObject
    <2> QED
      BY <2>4, <2>5
  <1> QED
    BY <1>1, <1>2, <1>3, <1>4 DEF Next

\* The inductive invariant of the library and of the call holds, for memories,
\* requests and sequences of calls of any size.
THEOREM RuntimeInvariance == Spec => []IInv
  <1>1. Init => IInv
    BY CallInitially DEF Init, IInv, ObjectInv, Exists
  <1>2. IInv /\ [Next]_vars => IInv'
    BY InductiveInvariance
  <1> QED
    BY <1>1, <1>2, PTL DEF Spec

-----------------------------------------------------------------------------
(* What follows from it.                                                   *)

\* Whatever fails, the submit ioctl frees every DMA buffer it has allocated.
THEOREM BuffersAreFreed == Spec => []BuffersFreed
  <1>1. IInv => BuffersFreed
    BY DEF IInv, CallInv
  <1> QED
    BY <1>1, RuntimeInvariance, PTL

\* A request that the driver has checked passes the range checks of the device
\* and of the wrapper, whatever its sizes and offsets.
THEOREM DriverChecksSuffice == Spec => []ValidIsAccepted
  <1>1. IInv => ValidIsAccepted
    <2> SUFFICES ASSUME IInv, submit.at \in {"copy_in", "execute"}
                 PROVE  DeviceAccepts(submit.request)
      BY DEF ValidIsAccepted
    <2> DEFINE r == submit.request
    <2>1. IsRequest(r) /\ Valid(r)
      BY DEF IInv, CallInv, CallTypes, Accepted, AtWork
    <2> HIDE DEF r
    <2>2. /\ r.input.offset \in Int /\ r.input.size \in Int
          /\ r.output.offset \in Int /\ r.output.size \in Int /\ DataMemory \in Int
      BY <2>1, WidthsAssumption DEF IsRequest
    <2>3. /\ ~OutOfRange(r.input.offset, r.input.size, DataMemory)
          /\ ~OutOfRange(r.output.offset, r.output.size, DataMemory)
      BY <2>1, <2>2, RangeChecksAgree DEF Valid
    <2> QED
      BY <2>1, <2>3 DEF Valid, DeviceAccepts, r
  <1> QED
    BY <1>1, RuntimeInvariance, PTL

\* A call that succeeds delivers the stretch it asked for, of a run of its own
\* program, thread count and input.
THEOREM SuccessDelivers == Spec => []OutputAsRequested
  <1>1. IInv => OutputAsRequested
    BY DEF IInv, CallInv
  <1> QED
    BY <1>1, RuntimeInvariance, PTL

\* Allocations, kernel blocks, runs and refused calls in any order leave every
\* region and the kernel block intact, and a run gets the whole image.
THEOREM ImageStaysIntact == Spec => []ImageIntact
  <1>1. IInv => ImageIntact
    <2> SUFFICES ASSUME IInv, Exists
                 PROVE  ImageIntact
      BY DEF ImageIntact
    <2>1. ObjectNumbers /\ Image /\ KernelKept /\ RegionsKept /\ Built
      BY DEF IInv, ObjectInv
    <2>2. submit.at = "execute" =>
            /\ submit.request = Request
            /\ submit.buffers.input = InputOf(submit.request)
      BY <2>1 DEF Built, IInv, CallInv, BuffersFilled
    <2>3. submit.at = "execute" =>
            DataLoaded(submit.buffers.input, submit.request.input.offset) =
              [a \in 0 .. DataMemory - 1 |-> gpu.data_image[a + 1]]
      BY <2>1, <2>2, WholeImage
    <2> QED
      BY <2>1, <2>3 DEF ImageIntact, KernelKept, RegionsKept
  <1> QED
    BY <1>1, RuntimeInvariance, PTL

\* Whatever calls came before, run() builds a request that the driver accepts,
\* unless load_binary had refused the program.
THEOREM LibraryRequestsAreValid == Spec => []RunsAreValid
  <1>1. IInv => RunsAreValid
    BY RequestIsValid DEF IInv, ObjectInv, Built, RunsAreValid
  <1> QED
    BY <1>1, RuntimeInvariance, PTL
=============================================================================
