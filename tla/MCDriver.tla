------------------------------ MODULE MCDriver ------------------------------
(* Two callers and DMA memory for both: a buffer freed by one call is soon  *)
(* allocated by the next.                                                  *)
EXTENDS Host

AllGuests == [smp : BOOLEAN, msi : BOOLEAN]
=============================================================================
