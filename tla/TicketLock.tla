----------------------------- MODULE TicketLock -----------------------------
(***************************************************************************)
(* The ticket spinlock every shared structure of the hypervisor uses       *)
(* (include/spinlock.h).  `ticket' is the next ticket to hand out, `next'  *)
(* the ticket being served; both are u32 and wrap at Mod.  A CPU takes a   *)
(* ticket with a load-exclusive/store-exclusive pair, then sleeps in wfe   *)
(* until the ticket is served; spin_unlock advances `next' and sends the   *)
(* event that wakes the sleepers.                                          *)
(***************************************************************************)
EXTENDS Integers, FiniteSets

CONSTANTS
    CPU,    \* the physical CPUs that contend for the lock
    Mod     \* 2^32 in the code: the number of values of a ticket

\* Tickets outstanding at one time are told apart: fewer CPUs than tickets.
ASSUME TicketsSuffice ==
    /\ IsFiniteSet(CPU)
    /\ Mod \in Nat
    /\ Cardinality(CPU) < Mod

VARIABLES
    ticket,     \* lock->ticket
    next,       \* lock->next
    pc,         \* where each CPU is in spin_lock/spin_unlock
    mine,       \* %w0: the ticket a CPU has loaded (its own once stored)
    monitor,    \* the exclusive monitor that a CPU's ldaxr armed
    event       \* the event register that wfe consumes and sev sets

vars == <<ticket, next, pc, mine, monitor, event>>

U32 == 0 .. Mod - 1

\* The 32-bit `add ..., 1'.
Inc(x) == (x + 1) % Mod

TypeOK ==
    /\ ticket \in U32
    /\ next \in U32
    /\ pc \in [CPU -> {"idle", "stxr", "cmp", "wfe", "cs", "sev"}]
    /\ mine \in [CPU -> U32]
    /\ monitor \in [CPU -> BOOLEAN]
    /\ event \in [CPU -> BOOLEAN]

\* spinlock_init, before any CPU uses the lock.
Init ==
    /\ ticket = 0
    /\ next = 0
    /\ pc = [c \in CPU |-> "idle"]
    /\ mine = [c \in CPU |-> 0]
    /\ monitor = [c \in CPU |-> FALSE]
    /\ event = [c \in CPU |-> FALSE]

Goto(c, l) == pc' = [pc EXCEPT ![c] = l]
-----------------------------------------------------------------------------
\* ldaxr: load the ticket and arm the monitor.
LoadTicket(c) ==
    /\ pc[c] = "idle"
    /\ mine' = [mine EXCEPT ![c] = ticket]
    /\ monitor' = [monitor EXCEPT ![c] = TRUE]
    /\ Goto(c, "stxr")
    /\ UNCHANGED <<ticket, next, event>>

\* stxr's result is not tested, the store counts as done.
StoreUnchecked(c) ==
    /\ pc[c] = "stxr"
    /\ ticket' = Inc(mine[c])
    /\ monitor' = [d \in CPU |-> FALSE]
    /\ Goto(c, "cmp")
    /\ UNCHANGED <<next, mine, event>>

\* stxr with the monitor still armed: ticket + 1 is stored, the CPU owns the
\* ticket it loaded, and every other CPU's monitor is cleared by the store.
StoreTicket(c) ==
    /\ pc[c] = "stxr"
    /\ monitor[c]
    /\ ticket' = Inc(mine[c])
    /\ monitor' = [d \in CPU |-> FALSE]
    /\ Goto(c, "cmp")
    /\ UNCHANGED <<next, mine, event>>

\* stxr with the monitor cleared: nothing is stored, cbnz goes back to ldaxr.
StoreFails(c) ==
    /\ pc[c] = "stxr"
    /\ ~monitor[c]
    /\ Goto(c, "idle")
    /\ UNCHANGED <<ticket, next, mine, monitor, event>>

\* ldar/cmp/b.eq: the ticket is being served, spin_lock returns.
Served(c) ==
    /\ pc[c] = "cmp"
    /\ next = mine[c]
    /\ Goto(c, "cs")
    /\ UNCHANGED <<ticket, next, mine, monitor, event>>

NotServed(c) ==
    /\ pc[c] = "cmp"
    /\ next # mine[c]
    /\ Goto(c, "wfe")
    /\ UNCHANGED <<ticket, next, mine, monitor, event>>

\* wfe returns once the event register is set, and clears it.
Wfe(c) ==
    /\ pc[c] = "wfe"
    /\ event[c]
    /\ event' = [event EXCEPT ![c] = FALSE]
    /\ Goto(c, "cmp")
    /\ UNCHANGED <<ticket, next, mine, monitor>>

\* ldr/add/stlr of spin_unlock.  `ticket' and `next' are neighbours, so the
\* store may clear the monitors other CPUs hold on the same granule.
ServeNext(c) ==
    /\ pc[c] = "cs"
    /\ next' = Inc(next)
    /\ monitor' \in {monitor, [d \in CPU |-> FALSE]}
    /\ Goto(c, "sev")
    /\ UNCHANGED <<ticket, mine, event>>

\* The event is not sent.
NoSev(c) ==
    /\ pc[c] = "sev"
    /\ Goto(c, "idle")
    /\ UNCHANGED <<ticket, next, mine, monitor, event>>

\* dsb ish; sev: the event reaches every CPU after the store is visible.
Sev(c) ==
    /\ pc[c] = "sev"
    /\ event' = [d \in CPU |-> TRUE]
    /\ Goto(c, "idle")
    /\ UNCHANGED <<ticket, next, mine, monitor>>

SpinLock(c) ==
    \/ LoadTicket(c)
    \/ StoreTicket(c)
    \/ StoreFails(c)
    \/ Served(c)
    \/ NotServed(c)
    \/ Wfe(c)

SpinUnlock(c) ==
    \/ ServeNext(c)
    \/ Sev(c)

Next == \E c \in CPU : SpinLock(c) \/ SpinUnlock(c)

\* A CPU that runs hypervisor code keeps running it (nothing preempts EL2), and
\* every critical section of the code is finite.  Whether a CPU asks for the
\* lock at all is up to the guest, so LoadTicket has no fairness.
Fairness ==
    \A c \in CPU :
        /\ WF_vars(StoreTicket(c) \/ StoreFails(c) \/ Served(c) \/ NotServed(c) \/ Wfe(c))
        /\ WF_vars(SpinUnlock(c))

Spec == Init /\ [][Next]_vars /\ Fairness
-----------------------------------------------------------------------------
Holders == {c \in CPU : pc[c] = "cs"}
Waiters == {c \in CPU : pc[c] \in {"cmp", "wfe"}}
Queued == Holders \cup Waiters

\* The u32 subtraction x - n.
Dist(x, n) == (x + Mod - n) % Mod

\* How many tickets are served before x is.
Ahead(x) == Dist(x, next)

\* spin_lock gives the critical section to one CPU at a time, also when the
\* counters have wrapped and when a store-exclusive failed on the way.
MutualExclusion == \A c, d \in Holders : c = d

\* The lock spin_lock and spin_unlock implement: first come, first served, the
\* successful stxr being the arrival.
ArrivalOrder ==
    {p \in Queued \X Queued : Ahead(mine[p[1]]) < Ahead(mine[p[2]])}

Fifo == INSTANCE FifoLock WITH
            queued <- Queued, holder <- Holders, before <- ArrivalOrder

\* spin_lock/spin_unlock implement the first-come-first-served lock: no CPU
\* overtakes one whose stxr came earlier, and only the holder releases.
ImplementsFifoLock == Fifo!Spec

\* A CPU that stored its ticket gets the lock: the sev of spin_unlock is never
\* lost between a waiter's compare and its wfe.
TicketServed == \A c \in CPU : (c \in Waiters) ~> (c \in Holders)
=============================================================================
