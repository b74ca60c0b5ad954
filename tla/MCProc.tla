------------------------------- MODULE MCProc -------------------------------
(***************************************************************************)
(* The processes for TLC: two CPUs and one user program at a time.         *)
(***************************************************************************)
EXTENDS Programs
=============================================================================
