------------------------------ MODULE FifoLock ------------------------------
(***************************************************************************)
(* What a user of spin_lock/spin_unlock relies on: one holder at a time,   *)
(* and the lock goes to the CPU that has waited longest.  `before' is the  *)
(* arrival order of the CPUs in the queue, the holder included.            *)
(***************************************************************************)
EXTENDS FiniteSets

CONSTANT CPU

VARIABLES
    queued,     \* CPUs that hold the lock or wait for it
    holder,     \* the CPU that holds it, if any (a set of at most one)
    before      \* <<c, d>>: c arrived before d

vars == <<queued, holder, before>>

Init ==
    /\ queued = {}
    /\ holder = {}
    /\ before = {}

Arrive(c) ==
    /\ c \notin queued
    /\ queued' = queued \cup {c}
    /\ before' = before \cup (queued \X {c})
    /\ UNCHANGED holder

Acquire(c) ==
    /\ c \in queued
    /\ holder = {}
    /\ \A d \in queued : <<d, c>> \notin before
    /\ holder' = {c}
    /\ UNCHANGED <<queued, before>>

Release(c) ==
    /\ holder = {c}
    /\ holder' = {}
    /\ queued' = queued \ {c}
    /\ before' = {p \in before : p[1] # c /\ p[2] # c}

Next == \E c \in CPU : Arrive(c) \/ Acquire(c) \/ Release(c)

Spec == Init /\ [][Next]_vars
=============================================================================
