------------------------------- MODULE MCStage2 -------------------------------
(* The memory map of memmap.h with two entries to a table: GICD and GICR at  *)
(* the bottom, GICR up to the UART, then virtio, and RAM in the upper half.  *)
EXTENDS Stage2

McVirtio == [base |-> 6, size |-> 1]
McGicd == [base |-> 0, size |-> 1]
McGicr == [base |-> 1, size |-> 3]
==============================================================================
