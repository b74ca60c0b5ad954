------------------------------ MODULE MCVgicMmio ------------------------------
(* VgicMmio for two CPUs and one interrupt of a kind.                       *)
EXTENDS VgicMmio
==============================================================================
