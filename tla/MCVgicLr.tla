------------------------------ MODULE MCVgicLr -------------------------------
(* VgicLr for TLC: the interrupts of CPU 0 under xv6.                      *)
EXTENDS VgicLr
==============================================================================
