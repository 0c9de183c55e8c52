----------------------------- MODULE MCDispatch -----------------------------
(* Small instances of Dispatch for TLC.                                    *)
EXTENDS Dispatch

\* Counts around the multiples of a block of two lanes, and more blocks than cores.
MCThreadCounts == {0, 1, 2, 5, 8, 9}
=============================================================================
