------------------------------- MODULE MCCore -------------------------------
(* Instances of the core small enough for TLC: 4-bit words.                *)
EXTENDS Core, MCPrograms

SoundJobs == {HazardJob, BranchJob, NestedJob}
LoadUseJobs == {LoadUseJob}
TwoIfsJobs == {TwoIfsJob}
IfJobs == {IfJob}

\* What the theorems assume of kernels holds of one of these, not of the one
\* that loads and uses a word right behind another access.
ASSUME HazardJobIsSound ==
  HazardJob \in Jobs => SoundKernel(HazardJob, Traces[HazardJob], Grid, StepBound)
ASSUME LoadUseIsNotWellFormed == StraightLine(LoadUseProgram) /\ ~WellFormed(LoadUseProgram)
=============================================================================
