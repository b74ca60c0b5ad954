----------------------------- MODULE MCVirtioBlk -----------------------------
(***************************************************************************)
(* VirtioBlk for TLC: two processes, a ring with room for both requests or *)
(* for one, and a virtual CPU that notifies with nothing new.              *)
(***************************************************************************)
EXTENDS VirtioBlk

\* Contents that all differ, so that a misplaced block is noticed.
MCData == {"zero", "img0", "img1"} \cup Proc
MCImage == [b \in 0 .. FSIMG_SIZE - 1 |-> IF b = 0 THEN "img0" ELSE "img1"]
MCPayload == [p \in Proc |-> p]

\* Two requests fill the larger ring; a third finds the smaller one empty again.
MCMaxReq == [n \in RingSize |-> IF n < 6 THEN 3 ELSE 2]
==============================================================================
