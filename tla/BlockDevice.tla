----------------------------- MODULE BlockDevice -----------------------------
(***************************************************************************)
(* What the guest's file system expects of virtio_disk_rw: every request   *)
(* is applied to the disk exactly once, between its submission and its     *)
(* return, to the block and with the buffer that were submitted.           *)
(***************************************************************************)
CONSTANTS
    Proc,       \* guest processes that submit requests
    Block,      \* blocks of the disk
    Data        \* contents of a block

VARIABLES
    phase,      \* "idle", "pending" or "applied", per process
    req,        \* the request of each process: direction and block
    buffer,     \* the buffer of each process
    contents    \* the disk

vars == <<phase, req, buffer, contents>>

Request == [write : BOOLEAN, block : Block]

Init ==
    /\ phase = [p \in Proc |-> "idle"]
    /\ req \in [Proc -> Request]
    /\ buffer \in [Proc -> Data]
    /\ contents \in [Block -> Data]

Submit(p) ==
    /\ phase[p] = "idle"
    /\ phase' = [phase EXCEPT ![p] = "pending"]
    /\ \E r \in Request : req' = [req EXCEPT ![p] = r]
    /\ \E d \in Data : buffer' = [buffer EXCEPT ![p] = d]
    /\ UNCHANGED contents

Apply(p) ==
    /\ phase[p] = "pending"
    /\ phase' = [phase EXCEPT ![p] = "applied"]
    /\ IF req[p].write
       THEN /\ contents' = [contents EXCEPT ![req[p].block] = buffer[p]]
            /\ UNCHANGED buffer
       ELSE /\ buffer' = [buffer EXCEPT ![p] = contents[req[p].block]]
            /\ UNCHANGED contents
    /\ UNCHANGED req

Return(p) ==
    /\ phase[p] = "applied"
    /\ phase' = [phase EXCEPT ![p] = "idle"]
    /\ \E r \in Request : req' = [req EXCEPT ![p] = r]
    /\ UNCHANGED <<buffer, contents>>

Next == \E p \in Proc : Submit(p) \/ Apply(p) \/ Return(p)

Spec == Init /\ [][Next]_vars
==============================================================================
