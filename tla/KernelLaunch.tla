---------------------------- MODULE KernelLaunch ----------------------------
(***************************************************************************)
(* What the dispatcher of the GPU promises to whoever starts a kernel, with *)
(* no cores, clocks or counters: the launch of n threads is cut into jobs, *)
(* every job runs exactly once, at most Capacity of them at a time, and    *)
(* completion is reported when all of them have run.                       *)
(*                                                                         *)
(* A job is a pair <<b, l>>: block number b run on lanes 0..l-1.           *)
(***************************************************************************)
EXTENDS Integers, FiniteSets

CONSTANTS
  ThreadsPerBlock,   \* lanes of a block
  MaxThreads,        \* largest thread count the control register holds
  Capacity           \* how many jobs may run at once

VARIABLES
  phase,     \* "idle", "running" or "done"
  waiting,   \* jobs no core has been given yet
  active,    \* jobs some core is running
  ran        \* jobs that have run to their end

vars == <<phase, waiting, active, ran>>

NumBlocks(n) == (n + ThreadsPerBlock - 1) \div ThreadsPerBlock

\* The last block takes what is left of the threads.
Lanes(n, b) ==
  IF b + 1 = NumBlocks(n) THEN n - b * ThreadsPerBlock ELSE ThreadsPerBlock

Jobs(n) == {<<b, Lanes(n, b)>> : b \in 0 .. NumBlocks(n) - 1}

\* The thread ids (blockIdx * blockDim + threadIdx) a set of jobs covers.
Threads(jobs) ==
  UNION {{j[1] * ThreadsPerBlock + lane : lane \in 0 .. j[2] - 1} : j \in jobs}

-----------------------------------------------------------------------------
Idle ==
  /\ phase = "idle"
  /\ waiting = {} /\ active = {} /\ ran = {}

Init == Idle

Launch(n) ==
  /\ phase = "idle"
  /\ phase' = "running"
  /\ waiting' = Jobs(n)
  /\ active' = {}
  /\ ran' = {}

\* Some running jobs end and some waiting jobs start, in one step.
Advance ==
  /\ phase = "running"
  /\ \E ended \in SUBSET active, begun \in SUBSET waiting :
       /\ active' = (active \ ended) \cup begun
       /\ ran' = ran \cup ended
       /\ waiting' = waiting \ begun
  /\ Cardinality(active') <= Capacity
  /\ UNCHANGED phase

Complete ==
  /\ phase = "running"
  /\ waiting = {} /\ active = {}
  /\ phase' = "done"
  /\ UNCHANGED <<waiting, active, ran>>

Release ==
  /\ phase = "done"
  /\ phase' = "idle"
  /\ UNCHANGED <<waiting, active, ran>>

Reset ==
  /\ phase' = "idle"
  /\ waiting' = {} /\ active' = {} /\ ran' = {}

Next ==
  \/ \E n \in 0 .. MaxThreads : Launch(n)
  \/ Advance
  \/ Complete
  \/ Release
  \/ Reset

Spec == Init /\ [][Next]_vars
=============================================================================
