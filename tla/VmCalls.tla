------------------------------ MODULE VmCalls ------------------------------
(***************************************************************************)
(* The system calls of the guest that allocate, free or copy user memory:   *)
(* fork, exec, sbrk, exit, wait and pipe, and the copies in and out of      *)
(* read, write and the calls with a path.  Processes run scripts, as in     *)
(* FsCalls.  The processes share nothing of PageTable's memory but the free *)
(* list, so a step reaches from one turn of an allocating loop to the next; *)
(* frees, which never wait and never fail, belong to the step before them.  *)
(***************************************************************************)
EXTENDS PageTable

CONSTANTS NPROC,     \* process slots
          MAXARG,    \* arguments of exec()
          MAXPATH,   \* words of a path
          PIPESIZE,  \* words of a pipe's buffer
          UINT,      \* 2^32: growproc() computes the new size as an unsigned int
          FILE,      \* the words of the file that scripts read
          Image      \* the executable files: their segments, by name

VARIABLES m,      \* the memory
          kpt,    \* kernel_pagetable
          pr,     \* the processes
          failed  \* a script met a result it does not accept

vars == <<m, kpt, pr, failed>>

Pid == 1 .. NPROC
NoLocals == [pt |-> 0, a |-> 0, lo |-> 0, hi |-> 0, sz |-> 0, then |-> "", np |-> 0,
             argv |-> <<>>, img |-> <<>>, seg |-> 0, i |-> 0]
Idle == [st |-> "unused", parent |-> 0, pt |-> 0, sz |-> 0, killed |-> FALSE, xs |-> 0,
         fds |-> {}, prog |-> <<>>, pc |-> "run", l |-> NoLocals]

Cur(p) == Head(pr[p].prog)
At(p, pc) == pr[p].st = "running" /\ pr[p].pc = pc /\ pr[p].prog # <<>>
Calling(p, op) == At(p, "run") /\ ~pr[p].killed /\ Cur(p).op = op

\* The address a call is given; a negative one counts from the end of memory.
Va(p) == IF Cur(p).va < 0 THEN pr[p].sz + Cur(p).va ELSE Cur(p).va
Goto(p, pc, l) == pr' = [pr EXCEPT ![p].pc = pc, ![p].l = l]

\* The call returns r to its script: a loop's call that succeeds is made again
\* after the loop's body; a fork that fails turns to another script.
Rest(p, r) ==
  IF Cur(p).again /\ r > 0 THEN Cur(p).child \o pr[p].prog
  ELSE IF Cur(p).op = "fork" /\ r < 0 THEN Cur(p).else ELSE Tail(pr[p].prog)
Return(p, r, next) ==
  /\ failed' = (failed \/ (Cur(p).want # {} /\ r \notin Cur(p).want))
  /\ pr' = [next EXCEPT ![p].pc = "run", ![p].l = NoLocals, ![p].prog = Rest(p, r)]

-----------------------------------------------------------------------------
(* Pipes: a page that holds nread, nwrite and the ring. *)

\* pipeclose(): the page goes when the last descriptor of both ends has gone.
Used(next) == UNION {{f[1] : f \in next[q].fds} : q \in Pid}
pipeclose(x, next) ==
  FoldLeft(LAMBDA y, pg : With(y, LAMBDA z : kfree(z, pg)), x, SetToSeq(Used(pr) \ Used(next)))

Open(pg, end) == \E q \in Pid : <<pg, end>> \in pr[q].fds
PipeOf(p, end) == (CHOOSE f \in pr[p].fds : f[2] = end)[1]

\* sys_pipe(): the buffer's page, the descriptors, their numbers out to the user.
sys_pipe(p) ==
  /\ Calling(p, "pipe")
  /\ \E k \in {kalloc(m)} :
       IF k.pg = 0 THEN m' = k.m /\ Return(p, -1, pr)
       ELSE \E c \in {copyout([k.m EXCEPT !.ram[k.pg][0] = 0, !.ram[k.pg][1] = 0],
                              pr[p].pt, Va(p), <<3, 4>>)} :
              IF c.ok
              THEN m' = c.m /\ Return(p, 0, [pr EXCEPT ![p].fds = @ \cup {<<k.pg, "r">>, <<k.pg, "w">>}])
              ELSE m' = kfree(c.m, k.pg) /\ Return(p, -1, pr)
  /\ UNCHANGED kpt

sys_close(p) ==
  /\ Calling(p, "close")
  /\ \E next \in {[pr EXCEPT ![p].fds = {f \in @ : f[2] # Cur(p).end}]} :
       m' = pipeclose(m, next) /\ Return(p, 0, next)
  /\ UNCHANGED kpt

\* One turn of pipewrite()'s loop: it waits while the ring is full.
pipewrite(p) ==
  /\ Calling(p, "write") /\ Cur(p).end = "w"
  /\ \E pg \in {PipeOf(p, "w")} :
       LET i == pr[p].l.i
           nwrite == m.ram[pg][1]
           c == copyin(m, pr[p].pt, Va(p) + i, 1)
           takes == i < Cur(p).n /\ Open(pg, "r") /\ nwrite < m.ram[pg][0] + PIPESIZE
       IN  \/ i < Cur(p).n /\ ~Open(pg, "r") /\ m' = m /\ Return(p, -1, pr)
           \/ /\ i >= Cur(p).n \/ (takes /\ ~c.ok)
              /\ m' = m /\ Return(p, i, pr)
           \/ /\ takes /\ c.ok
              /\ m' = [m EXCEPT !.ram[pg][2 + (nwrite % PIPESIZE)] = c.words[1], !.ram[pg][1] = @ + 1]
              /\ pr' = [pr EXCEPT ![p].l.i = i + 1] /\ failed' = failed
  /\ UNCHANGED kpt

\* piperead(): it waits for a word while a writer is there; the word that
\* cannot be copied out is gone.
piperead(p) ==
  /\ Calling(p, "read") /\ Cur(p).end = "r"
  /\ \E pg \in {PipeOf(p, "r")} :
       LET held == m.ram[pg][1] - m.ram[pg][0]
           n == IF held < Cur(p).n THEN held ELSE Cur(p).n
           words == [j \in 1 .. n |-> m.ram[pg][2 + ((m.ram[pg][0] + j - 1) % PIPESIZE)]]
           got == Reach(m, pr[p].pt, Va(p), n)
           read == IF got < n THEN got + 1 ELSE n
       IN  /\ held > 0 \/ ~Open(pg, "w")
           /\ m' = [copyout(m, pr[p].pt, Va(p), words).m EXCEPT !.ram[pg][0] = @ + read]
           /\ Return(p, got, pr)
  /\ UNCHANGED kpt

-----------------------------------------------------------------------------
(* Calls that copy in or out: files, the console, paths; loads and stores. *)

\* sys_write() to a file and to the console: how much of it could be copied.
sys_write(p) ==
  /\ Calling(p, "write") /\ Cur(p).end # "w"
  /\ \E k \in {Reach(m, pr[p].pt, Va(p), Cur(p).n)} :
       Return(p, IF Cur(p).end = "console" \/ k = Cur(p).n THEN k ELSE -1, pr)
  /\ UNCHANGED <<m, kpt>>

\* sys_read() of a file from its start; the count is unsigned.
sys_read(p) ==
  /\ Calling(p, "read") /\ Cur(p).end = "file"
  /\ LET n == IF Cur(p).n \in 0 .. Len(FILE) THEN Cur(p).n ELSE Len(FILE)
     IN  \E c \in {copyout(m, pr[p].pt, Va(p), SubSeq(FILE, 1, n))} :
           m' = c.m /\ Return(p, IF c.ok THEN n ELSE -1, pr)
  /\ UNCHANGED kpt

\* argstr() of the calls with a path.
argstr(p) ==
  /\ Calling(p, "path")
  /\ Return(p, IF copyinstr(m, pr[p].pt, Va(p), MAXPATH).ok THEN 0 ELSE -1, pr)
  /\ UNCHANGED <<m, kpt>>

\* exit(): files closed, children left to init.
exit(p, status) ==
  \E next \in {[q \in Pid |-> IF q = p THEN [pr[p] EXCEPT !.st = "zombie", !.xs = status,
                                               !.fds = {}, !.prog = <<>>, !.l = NoLocals]
                              ELSE IF pr[q].parent = p THEN [pr[q] EXCEPT !.parent = 1]
                              ELSE pr[q]]} :
    m' = pipeclose(m, next) /\ pr' = next /\ UNCHANGED kpt

sys_exit(p) == Calling(p, "exit") /\ exit(p, Cur(p).n) /\ UNCHANGED failed

\* The hardware's view of an address: the user's half, and a user page.
Accessible(p, va) == va < PGSIZE ^ 4 /\ uva2ka(m, pr[p].pt, va) # 0

\* A load or some stores of the program; usertrap() kills it for a fault.
Access(p) ==
  /\ Calling(p, "load") \/ Calling(p, "store")
  /\ LET va == Va(p)
     IN  IF \A j \in DOMAIN Cur(p).words : Accessible(p, va + j - 1)
         THEN IF Cur(p).op = "load"
              THEN m' = m /\ Return(p, Word(m, pr[p].pt, va), pr) /\ UNCHANGED kpt
              ELSE m' = copyout(m, pr[p].pt, va, Cur(p).words).m /\ Return(p, 0, pr) /\ UNCHANGED kpt
         ELSE exit(p, -1) /\ failed' = (failed \/ ~Cur(p).faults)

\* Sleeping until killed, and the kill.
sys_sleep(p) == Calling(p, "sleep") /\ Goto(p, "sleep", NoLocals) /\ UNCHANGED <<m, kpt, failed>>
Killed(p) == (At(p, "sleep") \/ At(p, "run")) /\ pr[p].killed /\ exit(p, -1) /\ UNCHANGED failed
sys_kill(p) ==
  /\ Calling(p, "kill")
  /\ Return(p, 0, [pr EXCEPT ![Cur(p).n].killed = TRUE])
  /\ UNCHANGED <<m, kpt>>
=============================================================================
