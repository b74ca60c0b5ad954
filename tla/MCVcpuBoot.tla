------------------------------ MODULE MCVcpuBoot ------------------------------
(* VcpuBoot for a guest like xv6 with three CPUs.                            *)
EXTENDS VcpuBoot
==============================================================================
