------------------------------- MODULE MCLog --------------------------------
(***************************************************************************)
(* Log for TLC.  A log of three data blocks admits two calls at a time,    *)
(* two blocks set aside for each; four home blocks and four buffers, as    *)
(* few as two pinned blocks, a reader's block and the committer's log      *)
(* block need.  With one call more admitted, or one pin never taken back,  *)
(* the log or the cache is full.                                           *)
(*                                                                         *)
(* The calls in their order: two that may meet in one transaction, on one  *)
(* block or on two, and one that writes nothing or a third block.          *)
(***************************************************************************)
EXTENDS Log

CONSTANTS p1, p2

MCCalls == <<{<<p1, {1}>>},
             {<<p2, {1}>>, <<p2, {2}>>},
             {<<p1, {}>>, <<p2, {3}>>}>>
MCReads == {1, 4}
=============================================================================
