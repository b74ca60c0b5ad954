-------------------------------- MODULE Pipe --------------------------------
(***************************************************************************)
(* Pipes (pipe.c) and the open files that hold them (file.c, sysfile.c),   *)
(* with sys_sleep() and the clock (sysproc.c, trap.c): the calls in which  *)
(* processes wait for one another.                                         *)
(***************************************************************************)
EXTENDS Proc

CONSTANTS PIPESIZE,  \* bytes a pipe holds
          WRAP       \* nread and nwrite count modulo WRAP (2^32 in the code)

VARIABLE pipe        \* the pipe there is memory for

\* The ring index must not jump when a counter wraps.
ASSUME WrapFits == PIPESIZE > 0 /\ WRAP > PIPESIZE /\ WRAP % PIPESIZE = 0

NoPipe == [alloc |-> FALSE, readopen |-> FALSE, writeopen |-> FALSE,
           nread |-> 0, nwrite |-> 0, data |-> [i \in 0 .. PIPESIZE - 1 |-> 0]]

\* The byte of the buffer that a counter stands for.
Ring(n) == (n % WRAP) % PIPESIZE

InPipe == (pipe.nwrite - pipe.nread + WRAP) % WRAP

-----------------------------------------------------------------------------
\* pipealloc(), and the two lowest descriptors for its ends.
FreeFiles == {f \in File : file[f].ref = 0}

FreeFds(p) == {fd \in Fd : ofile[p][fd] = None}

sys_pipe(p) ==
    /\ InUser(p, "pipe")
    /\ IF Cardinality(FreeFiles) < 2 \/ pipe.alloc \/ Cardinality(FreeFds(p)) < 2
       THEN Return(p, -1) /\ UNCHANGED <<file, ofile, pipe>>
       ELSE LET f0 == Min(FreeFiles)
                f1 == Min(FreeFiles \ {f0})
                fd0 == Min(FreeFds(p))
                fd1 == Min(FreeFds(p) \ {fd0})
            IN /\ file' = [file EXCEPT ![f0] = [ref |-> 1, writable |-> FALSE],
                                       ![f1] = [ref |-> 1, writable |-> TRUE]]
               /\ ofile' = [ofile EXCEPT ![p][fd0] = f0, ![p][fd1] = f1]
               /\ pipe' = [NoPipe EXCEPT !.alloc = TRUE, !.readopen = TRUE,
                                         !.writeopen = TRUE]
               /\ Return(p, 0)
    /\ UNCHANGED <<table, sched, nextpid, want, arg, panic, nyield>>

sys_dup(p) ==
    /\ InUser(p, "dup")
    /\ LET f == ofile[p][Call(p).fd]
           S == FreeFds(p)
       IN IF f = None \/ S = {}
          THEN Return(p, -1) /\ UNCHANGED <<file, ofile>>
          ELSE /\ file' = [g \in File |-> IF g = f
                             THEN [file[g] EXCEPT !.ref = @ + 1] ELSE file[g]]
               /\ ofile' = [ofile EXCEPT ![p][Min(S)] = f]
               /\ Return(p, Min(S))
    /\ UNCHANGED <<table, sched, nextpid, want, arg, panic, nyield, pipe>>

\* fileclose() of descriptor fd: drop a reference; the last one frees the
\* file and goes on to pipeclose().  The console is never closed for good.
fileclose(p, fd, back) ==
    LET f == ofile[p][fd] IN
    /\ ofile' = [ofile EXCEPT ![p][fd] = None]
    /\ file' = [g \in File |-> IF g = f THEN [file[g] EXCEPT !.ref = @ - 1]
                               ELSE file[g]]
    /\ panic' = (f \in File /\ file[f].ref < 1)
    /\ IF f \in File /\ file[f].ref = 1
       THEN /\ Goto(p, "pipeclose")
            /\ arg' = [arg EXCEPT ![p] = [writable |-> file[f].writable,
                                          back |-> back]]
       ELSE Goto(p, back) /\ UNCHANGED arg
    /\ UNCHANGED <<table, sched, nextpid, want, failed, nyield, pipe>>

sys_close(p) ==
    /\ InUser(p, "close")
    /\ fileclose(p, Call(p).fd, "user")
    /\ user' = [user EXCEPT ![p].prog = Tail(@)]

exit_close(p) ==
    /\ At(p, "exit")
    /\ \E fd \in Fd : /\ ofile[p][fd] \in File
                      /\ \A e \in 0 .. fd - 1 : ofile[p][e] \notin File
                      /\ fileclose(p, fd, "exit")
    /\ UNCHANGED user

pipeclose(p) ==
    /\ At(p, "pipeclose") /\ lock["pipe"] = None /\ CanWake
    /\ LET q == IF arg[p].writable THEN [pipe EXCEPT !.writeopen = FALSE]
                ELSE [pipe EXCEPT !.readopen = FALSE]
       IN pipe' = IF q.readopen \/ q.writeopen THEN q ELSE NoPipe
    /\ state' = Woken(state, {IF arg[p].writable THEN NreadChan
                              ELSE NwriteChan}, p)
    /\ Goto(p, arg[p].back)
    /\ arg' = [arg EXCEPT ![p] = None]
    /\ UNCHANGED <<chan, killed, parent, xstate, pid, ofile, sched, nextpid,
                   want, user, file, flags>>

-----------------------------------------------------------------------------
\* write(): to a pipe, or to the console, which takes everything.
sys_write(p) ==
    /\ InUser(p, "write")
    /\ LET f == ofile[p][Call(p).fd] IN
       IF f \in File /\ file[f].writable
       THEN /\ Goto(p, "pipewrite")
            /\ arg' = [arg EXCEPT ![p] = 0]
            /\ UNCHANGED <<user, failed>>
       ELSE /\ Return(p, IF f = Console THEN Call(p).n ELSE -1)
            /\ UNCHANGED arg
    /\ UNCHANGED <<table, ofile, sched, nextpid, want, file, panic, nyield, pipe>>

\* The next m bytes of p's buffer at the write end.
Put(p, i, m) ==
    [pipe EXCEPT !.nwrite = (@ + m) % WRAP,
                 !.data = [k \in DOMAIN @ |->
                    LET J == {j \in 0 .. m - 1 :
                                Ring(pipe.nwrite + j) = k}
                    IN IF J = {} THEN @[k]
                       ELSE user[p].seq + i + (CHOOSE j \in J : TRUE)]]

WriteDone(p, r) ==
    /\ user' = [user EXCEPT ![p].prog = Tail(@), ![p].seq = @ + Call(p).n]
    /\ failed' = (failed \/ (Call(p).ok = "succeed" /\ r # Call(p).n))
    /\ Goto(p, "user")
    /\ arg' = [arg EXCEPT ![p] = None]

\* pipewrite() from acquire() to the return or to sleep().  A process that
\* has been killed may notice after any byte, and then wakes nobody.
pipewrite(p) ==
    /\ At(p, "pipewrite") /\ lock["pipe"] = None
    /\ LET left == Call(p).n - arg[p]
           room == PIPESIZE - InPipe
       IN
       \/ /\ ~pipe.readopen
          /\ WriteDone(p, -1)
          /\ UNCHANGED <<pipe, state, lock, want>>
       \/ /\ pipe.readopen /\ killed[p]
          /\ \E m \in 0 .. Min({room, left - 1}) : pipe' = Put(p, arg[p], m)
          /\ WriteDone(p, -1)
          /\ UNCHANGED <<state, lock, want>>
       \/ /\ pipe.readopen /\ ~killed[p] /\ left <= room /\ CanWake
          /\ pipe' = Put(p, arg[p], left)
          /\ state' = Woken(state, {NreadChan}, p)
          /\ WriteDone(p, Call(p).n)
          /\ UNCHANGED <<lock, want>>
       \/ /\ pipe.readopen /\ ~killed[p] /\ left > room /\ CanWake
          /\ pipe' = Put(p, arg[p], room)
          /\ state' = Woken(state, {NreadChan}, p)
          /\ arg' = [arg EXCEPT ![p] = @ + room]
          /\ SleepOn(p, NwriteChan)
          /\ UNCHANGED <<user, failed>>
    /\ UNCHANGED <<chan, killed, parent, xstate, pid, ofile, cpu, locked,
                   nextpid, file, panic, nyield>>

-----------------------------------------------------------------------------
\* read(): the program reads until end of file and checks the bytes.
sys_read(p) ==
    /\ InUser(p, "read") \/ InUser(p, "read_once") \/ InUser(p, "line")
    /\ LET f == ofile[p][Call(p).fd] IN
       IF f = Console
       THEN /\ Goto(p, "consoleread")
            /\ arg' = [arg EXCEPT ![p] = <<>>]
            /\ UNCHANGED <<user, failed>>
       ELSE /\ IF f \in File /\ ~file[f].writable
               THEN Goto(p, "piperead") /\ UNCHANGED <<user, failed>>
               ELSE Return(p, -1)
            /\ UNCHANGED arg
    /\ UNCHANGED <<table, ofile, sched, nextpid, want, file, panic, nyield, pipe>>

Byte(j) == pipe.data[Ring(pipe.nread + j)]

InOrder(p, k) == \A j \in 0 .. k - 1 : Byte(j) = user[p].seq + j

\* At end of file a program may compare the number of bytes it got.
Complete(p) == Call(p).total = 0 \/ user[p].seq = Call(p).total

piperead(p) ==
    /\ At(p, "piperead") /\ lock["pipe"] = None
    /\ LET k == Min({Call(p).n, InPipe}) IN
       \/ /\ InPipe = 0 /\ pipe.writeopen /\ killed[p]
          /\ Return(p, -1)
          /\ UNCHANGED <<pipe, state, lock, want>>
       \/ /\ InPipe = 0 /\ pipe.writeopen /\ ~killed[p]
          /\ SleepOn(p, NreadChan)
          /\ UNCHANGED <<pipe, state, user, failed>>
       \/ /\ InPipe > 0 \/ ~pipe.writeopen
          /\ CanWake
          /\ pipe' = [pipe EXCEPT !.nread = (@ + k) % WRAP]
          /\ state' = Woken(state, {NwriteChan}, p)
          /\ user' = [user EXCEPT ![p].seq = @ + k,
                                  ![p].prog = IF k > 0 /\ Call(p).op = "read"
                                              THEN @ ELSE Tail(@)]
          /\ failed' = \/ failed \/ ~InOrder(p, k)
                       \/ k = 0 /\ ~Complete(p)
                       \/ Call(p).op = "read_once" /\ k # 1
          /\ Goto(p, "user")
          /\ UNCHANGED <<lock, want>>
    /\ UNCHANGED <<chan, killed, parent, xstate, pid, ofile, cpu, locked,
                   nextpid, arg, file, panic, nyield>>

-----------------------------------------------------------------------------
\* sys_sleep(): arg counts the ticks that are left.
sys_sleep(p) ==
    /\ InUser(p, "sleep")
    /\ Goto(p, "sys_sleep")
    /\ arg' = [arg EXCEPT ![p] = Call(p).ticks]
    /\ UNCHANGED <<table, ofile, sched, nextpid, want, user, file, flags, pipe>>

SleepTicks(p) ==
    /\ At(p, "sys_sleep") /\ lock["tickslock"] = None
    /\ IF arg[p] = 0 \/ killed[p]
       THEN /\ Return(p, IF arg[p] = 0 THEN 0 ELSE -1)
            /\ arg' = [arg EXCEPT ![p] = None]
            /\ UNCHANGED <<lock, want>>
       ELSE SleepOn(p, TicksChan) /\ UNCHANGED <<arg, user, failed>>
    /\ UNCHANGED <<table, ofile, cpu, locked, nextpid, file, panic, nyield, pipe>>

\* A tick, if anyone counts it.
clockintr ==
    /\ lock["tickslock"] = None /\ CanWake /\ ~panic
    /\ LET S == {p \in Slot : pc[p] = "sys_sleep" /\ arg[p] > 0} IN
       /\ S # {}
       /\ arg' = [p \in Slot |-> IF p \in S THEN arg[p] - 1 ELSE arg[p]]
    /\ state' = Woken(state, {TicksChan}, None)
    /\ UNCHANGED <<chan, killed, parent, xstate, pid, ofile, sched, nextpid, pc,
                   want, user, file, flags, pipe>>
=============================================================================
