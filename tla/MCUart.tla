-------------------------------- MODULE MCUart --------------------------------
(* Uart with buffer and FIFO small enough to be full.                        *)
EXTENDS Uart
==============================================================================
