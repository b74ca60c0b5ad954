----------------------------- MODULE AtomicDisk -----------------------------
(***************************************************************************)
(* What the log and the buffer cache of the guest promise together to a    *)
(* file system call: its block writes are seen at once by every later      *)
(* reader, and the disk that a reboot finds is always the result of a set  *)
(* of complete calls.                                                      *)
(***************************************************************************)
CONSTANTS Proc,    \* processes making file system calls
          Home,    \* home blocks, all the file system's blocks but the log
          Value    \* contents of a block

VARIABLES logical, \* what a process reads from each home block
          durable, \* what a reboot recovers for each home block
          active   \* processes between begin_op() and end_op()

vars == <<logical, durable, active>>

Init ==
    /\ logical \in [Home -> Value]
    /\ durable = logical
    /\ active = {}

Begin(p) ==
    /\ p \notin active
    /\ active' = active \cup {p}
    /\ UNCHANGED <<logical, durable>>

Write(p, b, v) ==
    /\ p \in active
    /\ logical' = [logical EXCEPT ![b] = v]
    /\ UNCHANGED <<durable, active>>

End(p) ==
    /\ p \in active
    /\ active' = active \ {p}
    /\ UNCHANGED <<logical, durable>>

\* A commit takes everything, so it happens only between calls.
Commit ==
    /\ active = {}
    /\ durable' = logical
    /\ UNCHANGED <<logical, active>>

Crash ==
    /\ logical' = durable
    /\ active' = {}
    /\ UNCHANGED durable

Next ==
    \/ \E p \in Proc : Begin(p) \/ End(p)
    \/ \E p \in Proc, b \in Home, v \in Value : Write(p, b, v)
    \/ Commit
    \/ Crash

Spec == Init /\ [][Next]_vars
=============================================================================
