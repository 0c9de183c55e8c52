------------------------------- MODULE MCGpu -------------------------------
(* The GPU at the sizes of gpu.sv and of its memories, with the kernels of *)
(* sim_rtl on matrices of more than one block.                             *)
EXTENDS Gpu, MCPrograms

MCKernels == {WideHazardJob, MatmulJob, MatmulBranchJoinJob}

\* No block, part of one, and more blocks than cores with and without a rest.
MCThreadCounts == {0, 1, 6, 13, 16}

\* The first of them is one that the theorem on the memory left is about: no branch,
\* and no two of its threads in a race, though they share blocks, cores and channels.
ASSUME HazardKernelIsSound ==
  SoundKernel(WideHazardJob, Traces[WideHazardJob], Grid, StepBound)
=============================================================================
