-------------------------------- MODULE Proc --------------------------------
(***************************************************************************)
(* Processes of the guest kernel (proc.c): the process table, the per-CPU  *)
(* schedulers, sleep() and wakeup(), fork(), exit(), wait(), kill().       *)
(*                                                                         *)
(* A step is a critical section: what a CPU does from one acquire() to the *)
(* matching release(), or to the acquire() of another lock.  p->lock is    *)
(* held across steps only on the way into the scheduler (locked); the lock *)
(* of a condition only on the way into sleep() (lock).                     *)
(***************************************************************************)
EXTENDS Integers, Sequences, FiniteSets, FiniteSetsExt, SequencesExt

CONSTANTS NPROC,    \* size of the process table
          NCPU,     \* number of CPUs
          NOFILE,   \* descriptors of a process
          NFILE,    \* open files that are pipe ends
          Console,  \* the open file of the console
          MaxYield, \* timer interrupts that take the CPU from a process that
                    \* has something to do (bound)
          Text,     \* the user programs: name -> sequence of system calls
          None

Slot == 1 .. NPROC
Cpu == 1 .. NCPU
Fd == 0 .. NOFILE - 1
File == 1 .. NFILE
initproc == 1

\* What a process can sleep on.
ProcChan(p) == <<"proc", p>>
TicksChan == <<"ticks", 0>>
NreadChan == <<"nread", 0>>
NwriteChan == <<"nwrite", 0>>
InputChan == <<"input", 0>>

\* The lock that guards the condition, and where sleep() returns to.
LockOf(ch) == CASE ch[1] = "proc" -> "wait_lock"
                [] ch[1] = "ticks" -> "tickslock"
                [] ch[1] = "input" -> "cons"
                [] OTHER -> "pipe"
BackTo(ch) == CASE ch[1] = "proc" -> "wait"
                [] ch[1] = "ticks" -> "sys_sleep"
                [] ch[1] = "input" -> "consoleread"
                [] ch[1] = "nread" -> "piperead"
                [] OTHER -> "pipewrite"
Locks == {"wait_lock", "tickslock", "cons", "pipe"}

VARIABLES
    state, chan, killed, parent, xstate, pid, ofile,  \* struct proc
    cpu,      \* the process each CPU runs, None in the scheduler
    locked,   \* processes whose p->lock is held on the way to the scheduler
    lock,     \* who holds each other lock between two steps
    nextpid,
    pc,       \* where each process is in the kernel, "user" outside
    want,     \* the channel it is about to sleep on
    arg,      \* local variable of the call it is in
    user,     \* its program: name, calls left, children's pids, byte counter
    file,     \* open pipe ends: reference count, direction
    nyield,
    failed,   \* a program found a result it does not allow
    panic     \* the kernel has called panic()

table == <<state, chan, killed, parent, xstate, pid>>
sched == <<cpu, locked, lock>>
flags == <<failed, panic, nyield>>

\* p has a CPU and is not on its way into the scheduler.
Running(p) == p \notin locked /\ \E c \in Cpu : cpu[c] = p

At(p, l) == pc[p] = l

Goto(p, l) == pc' = [pc EXCEPT ![p] = l]

\* Before the next system call of p's program.
InUser(p, op) ==
    /\ pc[p] = "user" /\ ~killed[p]
    /\ user[p].prog # <<>> /\ Head(user[p].prog).op = op

Call(p) == Head(user[p].prog)

\* Does the program go on after result r?  Most of them exit(1) if not.
Allowed(p, r) ==
    LET ok == Call(p).ok IN
    CASE ok = "any" -> TRUE
      [] ok = "fail" -> r = -1
      [] ok = "succeed" -> r >= 0
      [] ok = "last" -> r = Last(user[p].kids)
      [] OTHER -> FALSE

\* Return to user mode with result r.
Return(p, r) ==
    /\ user' = [user EXCEPT ![p].prog = Tail(@)]
    /\ failed' = (failed \/ ~Allowed(p, r))
    /\ Goto(p, "user")

\* wakeup(): the state of every process after it.  It takes every p->lock
\* but the caller's in turn, so it waits while one of them is held.
CanWake == locked = {}

Woken(st, chs, p) ==
    [q \in Slot |-> IF q # p /\ st[q] = "SLEEPING" /\ chan[q] \in chs
                    THEN "RUNNABLE" ELSE st[q]]

-----------------------------------------------------------------------------
\* The scheduler of CPU c finds p runnable and switches to it; p comes back
\* from its own swtch(), clears p->chan and releases p->lock.
scheduler(c, p) ==
    /\ ~panic
    /\ cpu[c] = None /\ p \notin locked /\ state[p] = "RUNNABLE"
    /\ state' = [state EXCEPT ![p] = "RUNNING"]
    /\ chan' = [chan EXCEPT ![p] = None]
    /\ cpu' = [cpu EXCEPT ![c] = p]
    /\ UNCHANGED <<killed, parent, xstate, pid, ofile, locked, lock, nextpid,
                   pc, want, arg, user, file, flags>>

\* swtch() to the scheduler, which forgets p and releases p->lock.
Switch(c) ==
    /\ cpu[c] # None /\ cpu[c] \in locked /\ ~panic
    /\ cpu' = [cpu EXCEPT ![c] = None]
    /\ locked' = locked \ {cpu[c]}
    /\ UNCHANGED <<table, ofile, lock, nextpid, pc, want, arg, user, file, flags>>

\* A timer interrupt, taken where no spinlock is held.
yield(p) ==
    /\ Running(p) /\ pc[p] # "sleep" /\ ~panic
    /\ IF InUser(p, "spin") THEN UNCHANGED nyield
       ELSE nyield < MaxYield /\ nyield' = nyield + 1
    /\ state' = [state EXCEPT ![p] = "RUNNABLE"]
    /\ locked' = locked \cup {p}
    /\ UNCHANGED <<chan, killed, parent, xstate, pid, ofile, cpu, lock,
                   nextpid, pc, want, arg, user, file, failed, panic>>

\* sleep(): take p->lock, let go of the condition's lock, sleep.
sleep(p) ==
    /\ At(p, "sleep")
    /\ locked' = locked \cup {p}
    /\ lock' = [lock EXCEPT ![LockOf(want[p])] = None]
    /\ chan' = [chan EXCEPT ![p] = want[p]]
    /\ state' = [state EXCEPT ![p] = "SLEEPING"]
    /\ Goto(p, BackTo(want[p]))
    /\ want' = [want EXCEPT ![p] = None]
    /\ UNCHANGED <<killed, parent, xstate, pid, ofile, cpu, nextpid, arg, user,
                   file, flags>>

\* Mutant: the condition's lock is released before sleep() has p->lock.
SleepOnUnlocked(p, ch) ==
    /\ lock' = lock
    /\ want' = [want EXCEPT ![p] = ch]
    /\ Goto(p, "sleep")

\* The caller keeps its lock and goes on to sleep(ch, lk).
SleepOn(p, ch) ==
    /\ lock' = [lock EXCEPT ![LockOf(ch)] = p]
    /\ want' = [want EXCEPT ![p] = ch]
    /\ Goto(p, "sleep")

-----------------------------------------------------------------------------
\* fork(): the first unused slot, a copy of the descriptors.
FreeSlots == {q \in Slot : state[q] = "UNUSED"}

\* Mutant: the child's descriptors are copied without filedup().
RefsNoDup(q, f) == 0

Refs(q, f) == Cardinality({fd \in Fd : ofile[q][fd] = f})

ForkFails(p) ==
    /\ InUser(p, "fork") /\ FreeSlots = {} /\ CanWake
    /\ Return(p, -1)
    /\ UNCHANGED <<table, ofile, sched, nextpid, want, arg, file, panic, nyield>>

fork(p) ==
    /\ InUser(p, "fork") /\ FreeSlots # {} /\ CanWake
    /\ LET np == Min(FreeSlots) IN
       /\ pid' = [pid EXCEPT ![np] = nextpid]
       /\ nextpid' = nextpid + 1
       /\ state' = [state EXCEPT ![np] = "USED"]
       /\ ofile' = [ofile EXCEPT ![np] = ofile[p]]
       /\ file' = [f \in File |->
                    [file[f] EXCEPT !.ref = @ + Refs(p, f)]]
       /\ user' = [user EXCEPT ![np] =
                    [user[p] EXCEPT !.text = Call(p).child, !.prog = Text[Call(p).child],
                                    !.kids = <<>>]]
       /\ pc' = [pc EXCEPT ![p] = "fork_parent", ![np] = "user"]
       /\ arg' = [arg EXCEPT ![p] = np]
    /\ UNCHANGED <<chan, killed, parent, xstate, sched, want, flags>>

fork_parent(p) ==
    /\ At(p, "fork_parent") /\ lock["wait_lock"] = None
    /\ parent' = [parent EXCEPT ![arg[p]] = p]
    /\ Goto(p, "fork_runnable")
    /\ UNCHANGED <<state, chan, killed, xstate, pid, ofile, sched, nextpid,
                   want, arg, user, file, flags>>

fork_runnable(p) ==
    /\ At(p, "fork_runnable") /\ arg[p] \notin locked
    /\ state' = [state EXCEPT ![arg[p]] = "RUNNABLE"]
    /\ user' = [user EXCEPT ![p].prog = Tail(@),
                            ![p].kids = Append(@, pid[arg[p]])]
    /\ failed' = (failed \/ Call(p).ok = "fail")
    /\ Goto(p, "user")
    /\ arg' = [arg EXCEPT ![p] = None]
    /\ UNCHANGED <<chan, killed, parent, xstate, pid, ofile, sched, nextpid,
                   want, file, panic, nyield>>

-----------------------------------------------------------------------------
\* exit(): by the program, or because the process has been killed.  The
\* descriptors are closed first.
StartExit(p, status) ==
    /\ panic' = (p = initproc)
    /\ xstate' = [xstate EXCEPT ![p] = status]
    /\ Goto(p, "exit")
    /\ UNCHANGED <<state, chan, killed, parent, pid, ofile, sched, nextpid,
                   want, arg, user, file, failed, nyield>>

sys_exit(p) ==
    /\ InUser(p, "exit")
    /\ StartExit(p, Call(p).status)

\* Mutant: a killed process exits with status 0.
ExitKilledZero(p) ==
    /\ At(p, "user") /\ killed[p]
    /\ StartExit(p, 0)

\* usertrap() and userirq() on the way into the kernel and out of it.
ExitKilled(p) ==
    /\ At(p, "user") /\ killed[p]
    /\ StartExit(p, -1)

Children(p) == {q \in Slot : parent[q] = p}

exit(p) ==
    /\ At(p, "exit") /\ \A fd \in Fd : ofile[p][fd] \notin File
    /\ lock["wait_lock"] = None /\ CanWake
    /\ ofile' = [ofile EXCEPT ![p] = [fd \in Fd |-> None]]
    /\ parent' = [q \in Slot |-> IF q \in Children(p) THEN initproc
                                 ELSE parent[q]]
    /\ LET chs == {ProcChan(parent[p])} \cup
                  (IF Children(p) = {} THEN {} ELSE {ProcChan(initproc)})
       IN state' = [Woken(state, chs, p) EXCEPT ![p] = "ZOMBIE"]
    /\ locked' = locked \cup {p}
    /\ Goto(p, "dead")
    /\ UNCHANGED <<chan, killed, xstate, pid, cpu, lock, nextpid, want, arg,
                   user, file, flags>>

\* wait(): reap the first zombie child, give up, or sleep.
Zombies(p) == {q \in Children(p) : state[q] = "ZOMBIE"}

sys_wait(p) ==
    /\ InUser(p, "wait")
    /\ Goto(p, "wait")
    /\ UNCHANGED <<table, ofile, sched, nextpid, want, arg, user, file, flags>>

\* Mutant: a zombie is reaped without a look at its lock.
CanScanUnlocked(p) == lock["wait_lock"] = None

\* The lock of every child is taken, so none of them is still in exit() or
\* swtch().
CanScan(p) == lock["wait_lock"] = None /\ Children(p) \cap locked = {}

Reap(p, q) ==
    /\ state' = [state EXCEPT ![q] = "UNUSED"]
    /\ parent' = [parent EXCEPT ![q] = None]
    /\ pid' = [pid EXCEPT ![q] = 0]
    /\ chan' = [chan EXCEPT ![q] = None]
    /\ killed' = [killed EXCEPT ![q] = FALSE]
    /\ xstate' = [xstate EXCEPT ![q] = 0]

wait(p) ==
    /\ At(p, "wait") /\ CanScan(p)
    /\ \/ \E q \in Zombies(p) :
            /\ q = Min(Zombies(p))
            /\ Reap(p, q)
            /\ user' = [user EXCEPT ![p].prog = IF Call(p).again THEN @ ELSE Tail(@),
                                    ![q] = [text |-> "none", prog |-> <<>>,
                                            kids |-> <<>>, seq |-> 0]]
            /\ failed' = (failed \/ ~Allowed(p, pid[q])
                                 \/ xstate[q] \notin Call(p).status)
            /\ Goto(p, "user")
            /\ UNCHANGED <<lock, want>>
       \/ /\ Zombies(p) = {} /\ (Children(p) = {} \/ killed[p])
          /\ Return(p, -1)
          /\ UNCHANGED <<table, lock, want>>
       \/ /\ Zombies(p) = {} /\ Children(p) # {} /\ ~killed[p]
          /\ SleepOn(p, ProcChan(p))
          /\ UNCHANGED <<table, user, failed>>
    /\ UNCHANGED <<ofile, cpu, locked, nextpid, arg, file, panic, nyield>>

-----------------------------------------------------------------------------
\* kill(): the process with the pid, wherever it is.
\* A program kills a child of its own, or a pid it was given.
Targets(p) == IF Call(p).child = 0 THEN Call(p).pids
              ELSE {user[p].kids[Call(p).child]}

Victims(n) == {q \in Slot : pid[q] = n}

kill(p) ==
    /\ InUser(p, "kill") /\ CanWake
    /\ \E qs \in {Victims(n) : n \in Targets(p)} :
       /\ killed' = [q \in Slot |-> killed[q] \/ q \in qs]
       /\ state' = [q \in Slot |-> IF q \in qs /\ state[q] = "SLEEPING"
                                   THEN "RUNNABLE" ELSE state[q]]
       /\ Return(p, IF qs = {} THEN -1 ELSE 0)
    /\ UNCHANGED <<chan, parent, xstate, pid, ofile, sched, nextpid, want, arg,
                   file, panic, nyield>>
=============================================================================
