# tiny-gpu verification

A TLA+ model of tiny-gpu: the SystemVerilog GPU under `rtl/`, and the path from a
user's kernel to it under `virtualization/`. It holds specifications, TLC
configurations that check them on small instances, and proofs checked by TLAPS for
all values of the constants. Paths in this file are relative to the repository; in
`PROJECT.json` they carry the prefix `src/`.

## 1. Inventory

| Component | Code | State | Operations | Modelled by |
|---|---|---|---|---|
| Block dispatcher, control register | `rtl/dispatch.sv`, `rtl/dcr.sv` | launch state, per-core state, block counters, start and block wires | write thread count, launch, hand out blocks, release cores, complete | `Dispatch`, `KernelLaunch` |
| Memory controllers (data, program) | `rtl/memory_controller.sv` | per channel: idle or busy, consumer and request served | arbitrate, latch, answer | `MemoryController`, `MemoryPort` |
| Compute core | `rtl/core.sv`, `rtl/pipeline/*.sv` | pc, mask of active threads, branch stack, fetch state; per thread the ID/EX, EX/MEM, MEM/WB registers, the memory wait, registers, flags, epoch | fetch, decode with forwarding and load waits, branch/JOIN, execute, memory access, write back, return | `Isa`, `Pipeline`, `Core` |
| GPU top level | `rtl/gpu.sv` | none of its own | wires two cores, a data and a program controller, the dispatcher | `Gpu` |
| Verilator wrapper | `virtualization/device/src/verilated_gpu.cpp` | program and data memory, launched and done flags | reset, load, set thread count, start, run until done, serve memory, copy out | `Dispatch`, `Gpu`, `Submit` |
| QEMU PCI device | `virtualization/qemu/hw/misc/tinygpu.c` | control, status, interrupt, DMA and error registers, execution timer | register writes, start, range checks, DMA, complete, soft reset, interrupt | `TinyGpuDevice`, `Driver`, `Submit` |
| Linux driver | `virtualization/driver/tinygpu_pci.c` | mutex, completion, last interrupt status, DMA buffers; the kernel's resources | submit (ioctl), interrupt handler, timeout, abort; init, probe, remove, exit | `Driver`, `Submit`, `Lifecycle`, `Host` |
| Runtime library | `virtualization/runtime/src/runtime.cpp` | launch parameters, program, image, allocator, output descriptor | construct, load, allocate, set kernel and output, run | `Runtime`, `Submit` |
| Kernel compiler: parser | `virtualization/compiler/src/parser.cpp` | tokens left, tree | one function per production | `Parser`, `Grammar` |
| Kernel compiler: code generation, assembler | `codegen.cpp`, `assembler.cpp` there | registers in use, variables, labels, output | generate code, assemble | `Language`, `Codegen` |
| Kernel compiler: lexer, AST printer | `lexer.cpp`, `ast.cpp` there | - | characters to tokens, trees to text | not modelled |

### How they interact

A kernel's text becomes tokens, a syntax tree, assembly and a binary. A program calls
the runtime library, which keeps an image of the data memory and fills one `ioctl`
request from it. The driver checks the request, copies program and data into DMA
buffers, serialises callers with a mutex, writes the device registers, sets START, and
waits for an interrupt. The device checks the ranges again, arms a timer, and when it
fires reads program and input by DMA, runs the Verilated RTL on a fresh `VerilatedGpu`,
writes the output back by DMA and raises the interrupt. Inside the RTL the wrapper
writes the control register and raises `start`; the dispatcher cuts the thread count
into blocks and hands them to cores over `core_start`/`core_done`; each core fetches
through the program controller and its lanes load and store through the data
controller, both by valid/ready wires.

### What is hard about it

* **Handshakes that depend on an edge.** A core starts on a rising edge of `start`
  (`core.sv:169`); the dispatcher must lower it for a cycle before the next block.
* **Many requesters, few channels.** Channels free up, scan and are answered in the
  same cycle; the scan order is a fixed priority. Eight load/store units of two cores
  share two channels.
* **Lanes that drift apart.** One fetcher serves all lanes, but each lane has its own
  pipeline and its own memory delay. A lane held up in MEM accepts instructions,
  branches and JOINs later than its neighbours. A one-bit epoch tells it what it
  has consumed already.
* **Divergence.** A branch stack, a mask of active threads and a JOIN that swaps or
  merges groups; returns inside and outside of divergent code.
* **Between blocks** only `running`, `mask` and `pc` are set up again: registers,
  flags, epoch, branch stack and an outstanding fetch of the old block survive.
* **Host, driver and device** race over one status register, one interrupt and DMA
  buffers whose lifetime is the submission's.
* **Failure at every step.** Allocation, copying, DMA, the run, a time-out or a signal
  end a submission; ten steps of `probe` may fail; a runtime call throws after it has
  changed its object.
* **Three layers check the same range** on 32-bit values, each in its own words.

`PROJECT.json` lists these as hazards, each at its line with the properties that
cover it.

### What makes each component correct

* Dispatcher: every block of a launch runs exactly once, with the right number of
  lanes; `done` means that all of them have run; no start edge is missed; a launch ends.
* Memory controller: a request takes effect exactly once and its answer reaches its
  requester; no consumer is served by two channels; which consumers are never starved.
* Core: what the pipelined, multi-threaded core stores is what each thread stores when
  it is run on its own; groups of threads partition the launched threads; each
  instruction is consumed once per active lane; `done` comes after every RET.
* GPU: the memory the host copies out is the one the threads leave one by one; cores
  and controllers keep the contracts that the other components assume of them.
* Device and driver: a submission returns the output of its own job, waits for the end
  of its execution, and returns; status, busy flag and timer of the device agree; no
  buffer and no resource is lost, and nothing is used that is not held.
* Runtime: the image keeps what was put in it, the run finds all of it, and the request
  is one the layers below accept.
* Compiler: the tree is the one the grammar gives; the generated code does what the
  kernel means; registers are neither leaked nor shared; both ways of a branch come to
  one JOIN if neither returns; a kernel that ends, returns.

## 2. Modules

```
KernelLaunch <== Dispatch             <- MCDispatch          dispatch
                    ^-- DispatchProofs --> Ranks
MemoryPort   <== MemoryController     <- MCMemoryController  memory_controller
                    ^-- MemoryControllerProofs --> Ranks
Isa <- Pipeline <- Core, MCPrograms   <- MCCore              core, core_*
          |           ^-- CoreProofs -----> PipelineProofs
          ^-- PipelineProofs
Dispatch <== Gpu (Pipeline, two MemoryControllers), MCPrograms <- MCGpu   gpu
                    ^-- GpuProofs --> DispatchProofs, PipelineProofs, Ranks
TinyGpuDevice <- Driver <== Host (and Lifecycle) <- MCDriver driver, driver_smp
                               ^-- DriverProofs
Submit <- Runtime                     <- MCRuntime           runtime, runtime_odd_program
             ^-- RuntimeProofs
Language <- Parser <- Codegen (Isa)   <- MCCodegen (Grammar) codegen
```
(`<==` is implemented by, `<-` is extended by; on the right the runs.)

**`Dispatch`** One step is a clock edge. The three states of `dispatch.sv` are
operators on its registers and the cores' wires (`Open`, `HandOut`, `Report`, `Rearm`), so
that `Gpu` can use them with real cores; the actions `Launch`, `Assign`, `Complete` and
`Release` add cores that end a block when they like. The loop over the cores becomes
`Slot(c)`, the number of idle cores below `c`, and `fin` is the set of cores whose last
thread returns in this cycle. `CoreDone`, `StartEdge` and `CoresTick` are the handshake
of `core.sv`. The host is `VerilatedGpu`: it refuses to write the control register of a
running GPU, lowers `start` when it has seen `done`, and may reset at any time.
Arithmetic is on integers; `TypeOK` shows that the 8-bit registers cannot wrap. `ran` is
a history variable.

**`KernelLaunch`** The promise of a launch without cores, clocks or counters: jobs
wait, run, end; at most `Capacity` at a time; completion is last. `Dispatch` maps
its registers to it (`KL`): blocks between `block_id_n` and `block_id` wait, the
blocks on busy cores are active.

**`MemoryController`** `Raise` is a requester (fetcher or load/store unit) putting a
request on its wires, held until it is answered. `Clock(ready)` is an edge at which
memory has answered the channels in `ready`: their consumers are released and idle
channels scan the waiting consumers. The nested loops become `Grants`: the i-th idle
channel takes the i-th waiting consumer. The memory behind the channels is served in
channel order, as `service_data_memory` does.

**`MemoryPort`** What a requester relies on: each request takes effect once, at one
moment, and a read returns what memory holds then.

**`Isa`** Instructions and their meaning for one thread run alone. The 16-bit
encoding is left out; instructions are records. This is the reference. It also says what
a kernel without branches is (`StraightLine`), which of them the pipeline runs as written
(`WellFormed`), and when the order of the threads does not matter (`SoundKernel`): the
hypotheses of the theorems about them.

**`Pipeline`** The core as a function from its registers and input wires to its next
registers, one operator per stage and signal: `Operand` and `Flags` (forwarding),
`IdReady`/`Accepts` (hazards and epoch), `InEx`, `InMem`, `PendingNext`,
`WriteBackNext`, `MaskNext`, the branch stack, `FetchNext`, `Ends`, `CoreDone`. Having
no variables, it is used once in `Core` and for every core in `Gpu`. `if_stage.sv` also
takes an instruction in the cycle in which it asks for it (lines 69-76); that is left out,
because a controller grants at an edge and answers in a later cycle.

**`Core`** A `Pipeline` core driven by a dispatcher that hands it every block in turn,
with a program memory and a data memory that answer after any delay, in any
combination of lanes up to the number of channels. `Cycle` is one clock edge.
The program and its input are one of `Jobs`, chosen initially. `retired` and `finished`
are history variables.

**`MCPrograms`** The programs: every kind of operand forwarding; a loop and a branch
that splits the threads; three splits within each other; the matrix kernels of
`sim_rtl/test_gpu.py`; and what the compiler makes of `if` statements.

**`Gpu`** The whole of `gpu.sv`, wired: the dispatcher is an instance of `Dispatch`, each
core one of `Pipeline`, both controllers are instances of `MemoryController`, whose
requests are the cores' wires (`Lsu` is `LSU_INDEX`) and whose channels memory answers in
the cycle in which they are valid, as `VerilatedGpu::cycle` does. Every action of the host
and the dispatcher contains `Edge`, one clock edge of all the rest. Only the kernel and
the thread count are chosen; the rest is deterministic. `ImplementsDispatch` shows that
the real cores keep the handshake that `Dispatch` assumes.

**`TinyGpuDevice`** The register file of `tinygpu.c` as a record: one operator per
register write, `RaiseIrq`, `SetError`, `SoftReset`, and `Completed`, the timer's
callback. A job's three DMA buffers are one address.

**`Driver`** The device with the callers of the ioctl and the interrupt handler. Each
access that another party can observe is a step: the handler reads the status,
acknowledges it, and stores `irq_status` and `done` in either order (neither store is
ordered by the code); the caller locks, programs, starts, waits, reads the status,
unlocks, returns. A time-out and a signal are one action, `Abort`, possible whenever
`done` is not set. The guest has one CPU or several (`smp`), which decides whether a
process may run between two steps of the handler, and a line or a message interrupt
(`msi`). `Program` is one step because the device neither runs nor interrupts between
the reset and START.

**`Lifecycle`** `tinygpu_init`, `tinygpu_probe`, `tinygpu_remove` and `tinygpu_exit` as
lists of resources to take and to give back, one step each (`Take`, `Release`), with a
failure possible at each (`TakeFails`); `Entry` is the label of the error path a failing
step jumps to. What `pcim_` and `devm_` functions took, the kernel gives back.

**`Host`** `Driver` in a module with this life: the handler runs while the interrupt is
registered, calls while the device node exists. The kernel does not unload a module whose
files are open, and `free_irq` waits for a handler.

**`Submit`** The same ioctl as data: a request with its pointers, sizes and offsets goes
through `Validate`, `Allocate`, `CopyIn`, `Execute` (the device's checks, its DMA, the
wrapper's and the run), `CopyOut` and `Out`, and may fail at each. What the GPU computes
is a value built from the job that reached it, so that a run of another program, thread
count or input is another value. How calls interleave is `Driver`'s subject.

**`Runtime`** A runtime object: one action per member function. A call that throws before
it changes anything is a step that is not taken; `LoadBinary` also keeps what the code
assigns before it throws. Bytes carry where they come from. Processes without the
library submit requests of their own (`RawCall`). `regions` is a history variable.

**`Language`** Syntax trees of `ast.h` and an interpreter for them: the reference for
the compiler. It gives up in a loop after `MaxRounds` rounds and says so (`diverges`).

**`Parser`** The recursive descent of `parser.cpp` on tokens: each function maps the
parser (tokens left, ok, and the parts built so far, which are the functions' local variables and
return values) to the parser after it; an exception leaves `ok = FALSE` and no tokens.

**`Grammar`** What the parser is compared with, written the other way round: the text of
a tree with the brackets it needs (`Unit`, `Stmt`, `Expr`), and the trees of a text by its
productions, sums being split at their last sign (`Sums`, `Products`, `Unaries`,
`Postfixes`).

**`Codegen`** The generator as operators from a generator state to the next:
`AllocateTemp`, `Release`, `CopyTo`, one operator per form of expression and statement
(`Generate...`), labels as numbers. `ParseSource` parses, `Generate` is one top-level
statement of `Generator::run`, `EndGenerate` the final RET, `Assemble` the two passes over
the labels, `Step` an instruction of the compiled kernel, run by one thread of `Isa`. A
thrown error or a diagnostic is `Refuse`.

**`Ranks`** Lemmas on "the number of elements of S below x", which both arbitration
loops are expressed with.

## 3. Runs

| Run | Instance | States | What it shows |
|---|---|---|---|
| `dispatch` | 3 cores, 2 lanes, thread counts 0, 1, 2, 5, 8, 9 | 600 | invariants, refinement of `KernelLaunch`, liveness |
| `memory_controller` | 3 consumers, 2 channels, 2 addresses, 2 values | 22 000 | invariants, refinement of `MemoryPort`, service of the first `NUM_CHANNELS` consumers |
| `core` | 4 lanes, 6 threads, 2 channels, three kernels, memory of any delay | 54 000 | forwarding, load waits, store-load, DIV by zero; loop, divergent and nested branches, JOIN; two blocks; liveness |
| `gpu` | 2 cores of 4 lanes, 2 and 1 channels, 8-bit words, 256 bytes; 3 kernels, 0, 1, 6, 13, 16 threads | 3 700 | the memory left, requests, refinement of `Dispatch`, liveness |
| `driver` | 2 callers, 2 buffers, all 4 kinds of guest, load to unload | 213 000 | mutual exclusion, own output, waiting on one CPU; error paths; every call returns |
| `runtime` | 8 data and 4 program bytes, 16-valued sizes, 2 regions; 7056 raw requests | 412 000 | image, requests, checks of three layers, buffers, output |
| `codegen` | about 1000 kernels, 12 700 short texts; 5 registers, 8 words, 32 instructions | 76 000 | trees against the grammar, compiled code against the interpreter, register balance, JOINs |
| `driver_smp`, `core_load_use`, `core_two_ifs`, `core_if`, `runtime_odd_program` | as `driver`; 2 lanes; as `runtime` | small | counterexamples, section 5 |

**Why the bounds are enough.** *Dispatcher*: more blocks than cores (5 on 3), so cores
are reused, also several in one cycle; counts of zero, below, at and above a multiple
of the block size; resets at every point. What remains of the bound is removed by the
proofs. *Controller*: more consumers than channels so that they compete; two addresses
and two values tell apart every order of a read and two writes. *Core*: the code's
own block size of four lanes (`gpu.sv`); six threads make a full and a partial block,
so that the state surviving a block meets different masks; memory delays are
unbounded. Words have 4 bits instead of 8, which the programs overflow on purpose, and
the program address space is 64 bytes. The branch stack has its real capacity of four,
and the nested kernel fills it: one entry for the first group and one for each of three
that are split off. Four lanes cannot form more groups; with a capacity of three
`ThreadGroups` fails.
A program is fixed per run: TLC explores all timings of it, not all programs.
`StepBound` only bounds the reference execution; an assumption checks that every
thread has returned by then. *Gpu*: the sizes are those of `gpu.sv` and the wrapper, and
16 threads make more blocks than cores; what `Gpu` fixes, the delay of memory, `Core`
leaves open.

*Driver*: two callers let a job race with the one before it; two addresses let each hold
a buffer and let a freed one be taken at once by the other. A third caller only waits.
*Runtime*: memories of 8 and 4 bytes and counts and fields just wide enough to go past
them, so that each size and offset is at, below and beyond its limit, and sums of two
fields wrap; two regions, a kernel block and alignments that pad. The proofs remove these
bounds. *Codegen*: kernels with every assignment of a hundred expressions to six kinds of
object, branches and loops with returns and branches in them, and kernels below, at and
above each limit (31, 32 and 33 instructions of program memory; parameters that fill the
data memory and exceed it by a byte; a length at which the 32-bit sum wraps and the
one below it); fewer registers and words than the code's 13 and 256, and `LengthSpace`
for 2^32, bring the limits within reach. Two inputs: a parameter pointer that points behind the parameters,
and one that points to them. The texts are every row of up to four tokens of ten kinds, up
to five of fewer, in the place of an expression, and a kernel with every form of
statement, cut off at each token or without one of its signs.

**Fairness.** `Dispatch`: the clock runs, a block ends, and the host lowers start when
it has seen `done` (`run_until_done`). Launching is not fair. `MemoryController`: the
clock runs and memory answers each channel eventually; requesters need not ask. `Core`:
the clock runs, and each outstanding fetch and access is answered eventually, which
is what `MemoryController` provides for. `Gpu`: the wrapper drives the clock until the
kernel is done; nothing else is assumed. `Driver` and `Host`: the timer fires, the handler
runs when interrupted, and a process inside the call is scheduled again (strong fairness,
since the handler may stop it for a while on one CPU, and since the mutex is handed over
to a long waiter); new calls, time-outs and signals, loading and unloading are not fair,
so that `CallsReturn` cannot rest on a time-out. `Codegen`: a running thread takes its next
step. These are conditions on the environment; the RTL itself is deterministic.

**Deadlock** is checked everywhere but in `codegen`, whose kernels end.

Every property has a mutant in `PROJECT.json`: a plausible slip in a definition
(named `...` with a comment `Mutant:` next to the original) under which the run fails.

## 4. Proofs

**`DispatchProofs`** For all numbers of cores, block sizes, thread counts:
`Spec => []IInv`, where `IInv` is `TypeOK /\ Handshake /\ Phases /\ ExactlyOnce`. No
part is inductive alone: `ExactlyOnce` needs to know that an idle core is not running
(`Handshake`) and that `block_id` is the number of blocks of the launch (`Phases`);
`TypeOK` needs that to bound the lanes of the last block. The core of the argument is
`LoopPass`: distinct idle cores take distinct consecutive blocks (`Ranks`).
`CompletionIsTotal` follows with `JobsCoverThreads`, and `Spec => KL!Spec` with each
action mapped to its abstract one. Assumptions: at least one core, at least one lane,
thread counts within the register.

**`MemoryControllerProofs`** For all numbers of consumers and channels and any data:
`Spec => []IInv` with `IInv == TypeOK /\ ServesItsConsumer /\ Exclusive`, and
`Spec => Port!Spec`. A grant is exclusive because ranks are injective; a served set of
channels is mapped to the set of their consumers, placed in channel order, so that
each read sees the writes of the channels before it (`SameWord`, `SameAnswer`).

**`DriverProofs`** For all numbers of callers, any DMA memory and every set of guests:
`Spec => []IInv`, and from it the safety properties of the `driver` run. Two parts of
`IInv` say what the registers mean between two accesses. `Programming`, for every guest:
a pending interrupt bit means that no job runs, so the busy bit a caller writes START
over is clear (`BusyMeansArmed`). `OneJobAtATime`, for one CPU: with the mutex free
the device is idle and no handler is under way; a job that runs uses the buffers of the
mutex holder; `done` means that its job has ended. The last is what fails with several
CPUs, where a late handler sets `done` for the next call (`driver_smp`). `Buffers` adds
that the input stays in place and that DONE, read by the mutex holder, is about its own
output; `Verdict`, that an error bit anybody still holds (the device's, the handler's or
the driver's copy) is one the status register shows. The step lemmas have one step per
part; a handler's step needs `OneJobAtATime` to know that what it read is still true.
Assumptions: the guests are records of two Booleans, and the names for "no address" and
"nobody" are not an address and not a caller.

The same module proves about `Host`: every step of it is a step of `Driver` or leaves its
state alone, so `HostSpec => Spec`, and the driver's theorems hold in a module that comes
and goes. Its life cycle has an invariant of its own, `LifecycleInv`: on the way up what is
held is the list before the current step, on an error path it is at most what the path
still gives back, and on the way down it is the rest of the list. That a failing step's
label gives back everything taken before it (`ErrorPath`, `Undo`) is checked there entry by
entry; with it nothing leaks between two lives, and whoever runs holds what it uses.

**`RuntimeProofs`** For memories, words, arguments, requests and numbers of regions of any
size: `Spec => []IInv`, and from it every property of the `runtime` run. `IInv` has two
parts. `CallInv` is about the call: whoever is behind the validation has a valid request
and has not failed (`Accepted`), and the buffers hold what the next step reads
(`BuffersFilled`); the checks of the three layers agree for all integers
(`RangeChecksAgree`), and a count that was accepted is not changed by the 8-bit register
(`JobIsAsked`). `ObjectInv` is about the object: the allocated part ends within the data
memory, what lies behind it is zero (`Image`, needed to know that a run sees the whole
image), regions are aligned, disjoint and hold their bytes, and while a call is under way
the request is the one that the object would build now (`Built`). Neither is inductive
without the numbers of `ObjectNumbers`: a region's 8-bit address is its offset only because
it lies within the memory. The allocation is the long step: `AlignUpFacts` places the new
region behind all others. Assumptions: arguments are natural numbers, memories and
thread counts fit in a 32-bit field, a thread count register holds at least 1.

**`PipelineProofs`** One clock edge of a core, for any program, any number of lanes and any
answers of memory, without a specification around it, so that both `CoreProofs` and
`GpuProofs` can use it. Its first part needs no hypothesis on the program. `Gaps` is the
heart: a fetch takes two cycles, so instructions in a lane follow each other with a gap. A
stall may close one, and then nothing else is on offer, in MEM or in WB. Without it a
retired thread's RET could be held in write-back (`mem_stage.sv` keeps its output for an
inactive thread whose EX/MEM is occupied) and retire the thread of the next block.

Its second part is about `StraightLine` programs: no BR, no JOIN, one RET, at the end, and
room behind it for the two NOPs fetched before the mask is empty. `InPlace` ties each RET in
a lane to the place the fetch stage has come to: it stands on the RET, or one or two
instructions behind it, according to the RET's register and to whether the lane has taken
the instruction on offer. So when the last thread has retired the fetch stage is past
the kernel, a next block starts with an old offer that is a NOP and with a toggled epoch,
and no instruction of the kernel is behind a RET in the pipeline (`NothingFollows`). That
the RET comes at the end alone is needed: a store right behind a RET can be in MEM when
the mask loses its thread (section 5).

Its third part ties a lane to the reference. A lane is in flight in up to four places, so
there is no cycle in which its registers equal a state of the thread alone. `Drained` says
what the registers and memory will be when the instructions in the lane have
left it, oldest first: `Commit` once for each of them. `InStep` says that this agrees with
the state of the thread's trace after as many instructions as the lane has accepted
(`Progress`), on the registers written so far and the words the thread accesses
(`Agree`), that every access on its way has the address and the data of the trace
(`AccessOf`), and that a lane does not write behind its RET. `LaneStep` shows that an edge
keeps a lane in step: forwarding (`Operand`) reads out of the pipeline what
`Drained` says (`Reading`, `Agree`), or the lane waits. `WellFormed` is what this needs of
the program. Two of its clauses are about the state that survives a block, and about
write-backs to R13 to R15. The third excludes a load behind an access whose user is the
next instruction, and is exactly the case of `core_load_use`: without it `Agree` fails
there, nowhere else. `LaneStarts` and `LaneRetires` are the two ends: after the RET is
written back, the lane's words are what the program leaves (`AsLeft`). The trace is a
recursive function, of which the prover can use the equations (`TraceDefined`), and facts
about all of its states are proved by the least element of the set that violates them
(`SetInduction`).

**`CoreProofs`** For the core with memory of any delay, any number of lanes, blocks and
channels. For all programs: `PipelineInvariance` (`PipeInv`: `Gaps`, and the core runs
exactly from its start edge to its last RET), and `NoLaneMissesAnInstruction`, which is
half of `EveryThreadDecodes`. For programs without JOIN and conditional branches
(`NoDivergence`): `ThreadGroups` and `DoneMeansAllReturned`. They rest on
`ReturnsAreOwned`: a RET in write-back belongs to an active thread, or to one that is
already counted as returned and whose EX/MEM is empty. Programs with branches that split
or with JOINs are excluded because the properties are false of the code for some of them
(`core_two_ifs`). For straight-line programs: `EveryThreadDecodes` as a whole, whose other
half is false for resumed groups (`core_if`).

For kernels that are straight-line, well formed and free of races (`SoundKernels`):
`StoresAreSequential` and `BlocksComplete`, with memory of any delay. The inductive
invariant `SequentialInv` has four parts. `HandedOut`: which block the dispatcher's wires
name, and which have been counted as done. `LanesInStep`: lanes at work are `InStep` with
their threads, the others hold nothing but NOPs and returned threads' leftovers (`Quiet`).
`WordsInStep`: the words a thread accesses are as at first until it starts and as its
program leaves them once it has returned. It takes freedom from races, by which no other
lane changes the words a lane accesses (`LaneMemoryOf`, `OneStore`), and it connects the
blocks: a lane starts in step because its thread was untouched. The fourth is
`WordsArePermitted`, for the words of no thread. It is one half of `StoresAreSequential`;
the other, `ResultIsSequential`, says that with every block done each word is `Expected`.
It follows at the end (`FinishedIsSequential`): all threads have returned, so the words of
each are as its program leaves them, and a word of no thread is as at first. `MCCore` assumes
`HazardJobIsSound`, so TLC verifies that the hypotheses hold of a kernel with every kind of
forwarding and load wait, and `LoadUseIsNotWellFormed`, that they exclude that of
`core_load_use`.

Assumptions: an even, non-zero program address space, at least one lane, a launch of any
number of threads.

**`GpuProofs`** For any number of cores, lanes and channels and every kernel: the steps of
`Gpu` are steps of `Dispatch`, one by one, the cores that retire their last thread being
`fin`. `DispatchProofs` is instantiated with the real cores' wires (`DP`), so its invariant
and theorems carry over: `ImplementsDispatch`, the refinement of `KernelLaunch`, and
`CompletionIsTotal`. `RequestsHeld` needs `HeldInv`: a busy channel's request is the one its
stage holds in WAIT, and a unit granted at an edge is in WAIT after it, because a request
that is not answered at an edge is kept. For straight-line kernels `NothingInFlight`: in
every core `StraightCore` of `PipelineProofs` holds, whose hypotheses on the wires come from
the dispatcher's invariant (a started block has a thread; a running core has seen its edge)
and from `HeldInv` (a fetch is answered with the instruction at its address); when done is
reported no core runs, so no lane waits in MEM.

For kernels that are straight-line, well formed and free of races (`SoundKernels`, about the
threads that some thread count launches): `ResultIsSequential`. `SequentialInv` is the
core's, with the cores side by side. `LaunchCounted`: the control register holds a count the
host wrote, nothing has run before a start, and with done reported every launched block has.
`LanesCounted`: a core runs no more lanes than its block has threads. `LanesInStep`: each
core's active lanes are `InStep` with the threads of the block on its wires, its other
lanes `Quiet`; the edge is `LaneStep` of `PipelineProofs` for each. `WordsInStep`: a word is
as at first until a thread that writes it starts, and those of a returned thread are as
that one leaves them. That no two lanes are one thread is `ExactlyOnce` of the dispatcher
(`BusyBlock`, `LanesDiffer`). That an answer reaches the lane that asked is `HeldInv`. Memory
is written by the controller at an edge for several channels at once (`WordNext`); a lane sees
it as its own accesses alone would leave it, since nobody else writes its words
(`LaneMemoryOf`, `OneStore`), whatever the order in which channels serve the cores.
`DoneIsSequential` puts the threads together as `Expected` does. `MCGpu` assumes
`HazardKernelIsSound`, so TLC verifies that one of its kernels meets the hypotheses; the
two matrix kernels have loops and stay with TLC.

The invariants that are not conjunctions of checked properties (`IInv`, `LifecycleInv`,
`PipeInv`, `GroupsInv`, `HeldInv`, `StraightCore`, `SequentialInv`) were checked by TLC on the instances of
the runs before they were proved.

**Only model-checked.** The core's properties, `NothingInFlight` and `ResultIsSequential`
for kernels beyond the hypotheses above: with branches some of them are false, and for a
kernel with a loop the reference trace has no fixed length to go by.
`Language`, `Parser`, `Grammar` and `Codegen`: recursive operators are outside the prover.
All liveness: so are fairness and ENABLED. `ImplementsDispatch` is a safety property; that
a launch on the GPU ends is checked.

## 5. Where the code and its documentation differ

Each is a run with one property, violated; the trace is the example.

* `core_load_use` - A load moves from EX to MEM in the cycle its user is accepted
  behind another access: neither forwarded nor waited for.
* `core_two_ifs` - After two uniform branches with JOINs the stack is empty and the
  mask is cleared: the block is reported done before any RET. One such branch in each of
  two blocks does the same, since the stack is not set up again for a block.
* `core_if` - The one-bit epoch of a resumed group can equal the flag of its first
  instruction, which it then skips. Whether it happens depends on the parity of the
  instructions the other group fetched.
* `driver_smp` - On several CPUs a handler that has read the status of a job may set
  `done` after that job was aborted and the next one has cleared it. The next call wakes
  at once, finds the device busy, returns an error without a soft reset and frees its DMA
  buffers while the device is still to write them. `run-qemu.sh:15` gives the guest two
  CPUs. On one CPU this cannot happen (`WaitsForExecutionUniprocessor`).
* `runtime_odd_program` - `load_binary` assigns the file to `program_` and throws
  afterwards. A caller that goes on runs the refused program; neither the driver nor the
  device looks at its length modulo two.

Seen while modelling and kept in the model, without a run of their own: lanes delayed by
stores decide a branch of a loop later than others and are counted as falling through; of
three groups that leave a loop in different rounds the third does not meet the others, and
its block is done without it; a write to R13 to R15 is forwarded to the next instructions
though it never reaches the register file; a push on a full branch stack is dropped
(`branch_stack.sv:77`). `sim_rtl/README.md:69` says that RET finishes the thread, but a
store right behind a RET takes effect when a stall has closed the gap between the two: the
mask loses the thread when the RET is in write-back (`core.sv:186`), and the store is in
MEM by then (`mem_stage.sv:147`). It may still be under way when done is reported.

`sim_rtl/README.md:86` (and `README.md:249`) says that both paths of a branch must reach
the same JOIN. The compiler does not see to it when a path returns: it emits the RET where
the `return` stands, before the JOIN (`codegen.cpp:350`), and accepts the kernel. On the core
the RETs of the running group then empty the mask, and the block ends while the other group
is on the stack and has not returned (`core.sv:186`). `EveryBranchJoins` is about kernels
whose returns are outside their branches; the others are compiled, compared with their
meaning and shown to return as single threads (`MeansTheSame`, `Returns`), but not run on
the core.

A kernel whose last statement is an `if` or a loop that ends with `return` is compiled
without the final RET (`codegen.cpp:48`), and a thread that does not take that way starts
the kernel again; `Returns` would fail for it. A variable declared in a block is known
behind it, where its register may hold another value. The kernels of `MCCodegen` do
neither. The layout of the parameters is a 32-bit sum (`codegen.cpp:113`): a field with a
length near 2^32 passes the test against 256 bytes. The model does the same
(`LayoutFits`), and such a kernel is compiled as long as it uses nothing of the long
field; a field behind it would lie over an earlier one.

## 6. Not modelled

* The lexer and the AST printer: sequential text processing with unit tests. So a literal
  that wraps while it is read (`lexer.cpp:89`) is outside the model.
* Instruction encoding and decoding tables, assembly text, directives and hand-written
  assembly.
* Of the device: register accesses of a width or at an address the driver does not use,
  and migration. Its migration state lacks the execution timer (`tinygpu.c:432`), so a job
  that is migrated does not complete and ends by the driver's time-out.
* The device unbound or unplugged while it is in use: `tinygpu_remove` does not wait for
  calls (`Host` keeps the device while files are open, as the kernel does the module).
* `VerilatedGpu` started a second time without a reset: the device makes a new one for
  every job.
* A runtime object used by several threads: it has no lock and promises nothing.
* Test benches, build files and the root file system.

## 7. Plan

1. (done) `KernelLaunch`, `Dispatch`, `MemoryPort`, `MemoryController`, `Isa`,
   `Pipeline`, `Core`; proofs of the dispatcher and the controller.
2. (done) `TinyGpuDevice`, `Driver`, `Language`, `Codegen`; `DriverProofs`.
3. (done) `Gpu`; `Lifecycle` and `Host`; `Submit` and `Runtime` with `RuntimeProofs`;
   `Parser` and `Grammar`.
4. (done) Proofs of the core (`PipelineProofs`, `CoreProofs`), of the GPU (`GpuProofs`) and
   of the life cycle (in `DriverProofs`).
5. (done) The core and the GPU against the reference: `PipelineProofs`, third part,
   `CoreProofs` and `GpuProofs`.
6. Left: the properties of core and GPU proved for kernels with uniform loops; a bound of
   the branch stack; migration and unplugging of the device.
