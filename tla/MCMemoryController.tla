------------------------- MODULE MCMemoryController -------------------------
(* Instances of the memory controller small enough for TLC.                *)
EXTENDS MemoryController

\* Two words and two values: enough for a write to be seen by, or to overtake,
\* a read of the same address on another channel.
SmallAddresses == {0, 1}
SmallData == {0, 1}
=============================================================================
