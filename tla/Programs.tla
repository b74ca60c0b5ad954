------------------------------ MODULE Programs ------------------------------
(***************************************************************************)
(* The user programs that exercise fork, exit, wait, kill, sleep and       *)
(* pipes: init, the shell, forktest, zombie and the process tests of       *)
(* usertests, as sequences of system calls, and the system that runs one   *)
(* of them.  A call names the results after which the program goes on; any *)
(* other result is one that the program reports as a failure.              *)
(***************************************************************************)
EXTENDS ConsoleInput

CONSTANTS Loops,  \* rounds of the tests' outer loops (bound)
          Start   \* programs the shell's process may start with

-----------------------------------------------------------------------------
\* System calls.
Fork(c) == [op |-> "fork", child |-> c, ok |-> "succeed"]
Wait(ok, st) == [op |-> "wait", ok |-> ok, status |-> st, again |-> FALSE]
AnyStatus == {-1, 0, 1}
Exit(st) == [op |-> "exit", status |-> st]
KillChild(k) == [op |-> "kill", child |-> k, ok |-> "any"]
PipeCall == [op |-> "pipe", ok |-> "succeed"]
Dup(fd) == [op |-> "dup", fd |-> fd, ok |-> "succeed"]
Close(fd) == [op |-> "close", fd |-> fd]
Write(fd, n) == [op |-> "write", fd |-> fd, n |-> n, ok |-> "succeed"]
ReadAll(fd, n, total) ==
    [op |-> "read", fd |-> fd, n |-> n, room |-> n, total |-> total, ok |-> "any"]
ReadLine(n, room, lines) ==
    [op |-> "line", fd |-> 0, n |-> n, room |-> room, lines |-> lines, ok |-> "any"]
Sleep(t) == [op |-> "sleep", ticks |-> t, ok |-> "any"]
Spin == [op |-> "spin"]

Times(n, body) == FlattenSeq([i \in 1 .. n |-> body])

\* init's inner loop: wait() for orphans; the shell never exits here.
init_main == <<[Wait("succeed", AnyStatus) EXCEPT !.again = TRUE]>>

\* The shell's main loop for one command, then input that never comes.
sh_main(c) == <<Fork(c), Wait("succeed", AnyStatus), ReadAll(0, 1, 0)>>

\* runcmd() of a pipeline, and the two sides up to exec().
runcmd_pipe(left, right) ==
    <<PipeCall, Fork(left), Fork(right), Close(3), Close(4),
      Wait("any", AnyStatus), Wait("any", AnyStatus), Exit(0)>>
left_side == <<Close(1), Dup(4), Close(3), Close(4)>>
right_side == <<Close(0), Dup(3), Close(3), Close(4)>>

\* runcmd() of "cmd &": the command is left to init.
runcmd_back == <<Fork("exit0"), Exit(0)>>

echo_main == <<[Write(1, 3) EXCEPT !.ok = "any"], Exit(0)>>
cat_main == <<ReadAll(0, 2, 0), Exit(0)>>
kill_main(pids) ==
    <<[op |-> "kill", child |-> 0, pids |-> pids, ok |-> "any"], Exit(0)>>
zombie_main == <<Fork("exit0"), Sleep(1), Exit(0)>>

\* forktest: the table has room for all but init, the shell and itself.
forktest_main ==
    Times(NPROC - 3, <<Fork("exit0")>>)
    \o <<[Fork("exit0") EXCEPT !.ok = "fail"]>>
    \o Times(NPROC - 3, <<Wait("succeed", AnyStatus)>>)
    \o <<Wait("fail", AnyStatus), Exit(0)>>

\* run() of usertests: the test must exit with status 0.
usertests_run(t) == <<Fork(t), Wait("succeed", {0}), ReadAll(0, 1, 0)>>

pipe1 == <<PipeCall, Fork("pipe1_child"), Close(4), ReadAll(3, 2, 6),
           Close(3), Wait("succeed", {0}), Exit(0)>>
pipe1_child == <<Close(3), Write(4, 3), Write(4, 3), Exit(0)>>

\* A spinning child that is killed has status -1.
killstatus ==
    FlattenSeq([i \in 1 .. Loops |->
        <<Fork("spin"), Sleep(1), KillChild(i), Wait("succeed", {-1})>>])
    \o <<Exit(0)>>

\* More spinning processes than CPUs; only the timer lets the reader run.
preempt ==
    <<Fork("spin"), Fork("spin"), PipeCall, Fork("preempt_child"), Close(4),
      [ReadAll(3, 2, 0) EXCEPT !.op = "read_once", !.ok = "one"],
      Close(3), KillChild(1), KillChild(2), KillChild(3),
      Wait("succeed", AnyStatus), Wait("succeed", AnyStatus), Wait("succeed", AnyStatus),
      Exit(0)>>
preempt_child == <<Close(3), Write(4, 1), Close(4), Spin>>

exitwait ==
    <<Fork("exit0"), Wait("last", {0}), Fork("exit1"), Wait("last", {1}), Exit(0)>>

\* A parent exits while its child lives.
reparent_test ==
    Times(Loops, <<Fork("reparent_child"), Wait("last", AnyStatus)>>) \o <<Exit(0)>>
reparent_child == <<Fork("exit0"), Exit(0)>>

twochildren ==
    Times(Loops, <<Fork("exit0"), Fork("exit0"), Wait("succeed", AnyStatus),
                   Wait("succeed", AnyStatus)>>) \o <<Exit(0)>>

\* fork() twice without a look at the result.
Fork2(c) == [Fork(c) EXCEPT !.ok = "any"]
reparent2 ==
    Times(Loops, <<Fork("reparent2_child"), Wait("succeed", AnyStatus)>>)
    \o <<Exit(0)>>
reparent2_child == <<Fork2("reparent2_rest"), Fork2("exit0"), Exit(0)>>

\* Descriptors and files run out, and a read end is not written to.
full_tables ==
    <<PipeCall, [PipeCall EXCEPT !.ok = "fail"], [Dup(0) EXCEPT !.ok = "fail"],
      [Write(3, 1) EXCEPT !.ok = "fail"], [ReadAll(4, 1, 0) EXCEPT !.ok = "fail"], Exit(0)>>

\* The child is killed in, or on its way into, a read of the console.
kill_reader == <<Fork("reader"), KillChild(1), Exit(0)>>

\* cat of what is typed: a line with its corrections, and one ended by an end
\* of file, which the next read() reports.
cat_lines ==
    <<ReadLine(3, 3, {<<"y", "\n">>}), ReadLine(3, 3, {<<"z">>}),
      ReadLine(3, 3, {<<>>}), Exit(0)>>
typed_lines == <<"x", "^H", "w", "^U", "^P", "y", "\r", "z", "^D">>

\* More is typed than the buffer holds: the reader gets what fitted, a byte it
\* has no room for is lost, and what came too late may be dropped.
cat_full ==
    <<ReadLine(2, 1, {<<"x">>}), ReadLine(2, 2, {<<"x", "x">>}),
      ReadLine(2, 2, {<<"x", "\n">>, <<"\n">>, <<"x">>, <<>>}), Exit(0)>>
typed_full == <<"x", "x", "x", "x", "x", "\n", "^D">>

Typing(t) == CASE t = "sh_lines" -> typed_lines
               [] t = "sh_full" -> typed_full
               [] OTHER -> <<>>

\* Programs whose children compute for ever, or wait for input that never comes.
Endless == {"ut_killstatus", "ut_preempt", "ut_reader", "sh_full"}

Programs ==
    [init          |-> init_main,
     none          |-> <<>>,
     exit0         |-> <<Exit(0)>>,
     exit1         |-> <<Exit(1)>>,
     spin          |-> <<Spin>>,
     sh_pipe       |-> sh_main("runcmd_echo"),
     runcmd_echo   |-> runcmd_pipe("echo", "cat"),
     echo          |-> left_side \o echo_main,
     cat           |-> right_side \o cat_main,
     sh_kill       |-> sh_main("runcmd_kill"),
     runcmd_kill   |-> runcmd_pipe("echo", "kill_left"),
     kill_left     |-> right_side \o kill_main({4}),
     sh_kill2      |-> sh_main("runcmd_kill2"),
     runcmd_kill2  |-> runcmd_pipe("kill_right", "cat"),
     kill_right    |-> left_side \o kill_main({5}),
     sh_back       |-> sh_main("runcmd_back"),
     runcmd_back   |-> runcmd_back,
     sh_zombie     |-> sh_main("zombie"),
     zombie        |-> zombie_main,
     sh_forktest   |-> sh_main("forktest"),
     forktest      |-> forktest_main,
     ut_pipe1      |-> usertests_run("pipe1"),
     pipe1         |-> pipe1,
     pipe1_child   |-> pipe1_child,
     ut_killstatus |-> usertests_run("killstatus"),
     killstatus    |-> killstatus,
     ut_preempt    |-> usertests_run("preempt"),
     preempt       |-> preempt,
     preempt_child |-> preempt_child,
     ut_exitwait   |-> usertests_run("exitwait"),
     exitwait      |-> exitwait,
     ut_reparent   |-> usertests_run("reparent"),
     reparent      |-> reparent_test,
     reparent_child |-> reparent_child,
     ut_twochildren |-> usertests_run("twochildren"),
     twochildren   |-> twochildren,
     ut_reparent2  |-> usertests_run("reparent2"),
     reparent2     |-> reparent2,
     reparent2_child |-> reparent2_child,
     reparent2_rest |-> <<Fork2("exit0"), Exit(0)>>,
     ut_full       |-> usertests_run("full_tables"),
     full_tables   |-> full_tables,
     ut_reader     |-> usertests_run("kill_reader"),
     kill_reader   |-> kill_reader,
     sh_lines      |-> sh_main("cat_lines"),
     cat_lines     |-> cat_lines,
     sh_full       |-> sh_main("cat_full"),
     cat_full      |-> cat_full,
     reader        |-> <<ReadAll(0, 1, 0), Exit(0)>>]

-----------------------------------------------------------------------------
\* init waits, the shell (or usertests) is about to start a program, and
\* every other slot is free.
Init ==
    /\ state = [p \in Slot |-> CASE p = initproc -> "SLEEPING"
                                 [] p = 2 -> "RUNNABLE"
                                 [] OTHER -> "UNUSED"]
    /\ chan = [p \in Slot |-> IF p = initproc THEN ProcChan(initproc) ELSE None]
    /\ killed = [p \in Slot |-> FALSE]
    /\ parent = [p \in Slot |-> IF p = 2 THEN initproc ELSE None]
    /\ xstate = [p \in Slot |-> 0]
    /\ pid = [p \in Slot |-> IF p <= 2 THEN p ELSE 0]
    /\ ofile = [p \in Slot |-> [fd \in Fd |-> IF p <= 2 /\ fd <= 2
                                              THEN Console ELSE None]]
    /\ cpu = [c \in Cpu |-> None] /\ locked = {}
    /\ lock = [l \in Locks |-> None]
    /\ nextpid = 3
    /\ pc = [p \in Slot |-> IF p = initproc THEN "wait" ELSE "user"]
    /\ want = [p \in Slot |-> None] /\ arg = [p \in Slot |-> None]
    /\ cons = consoleinit
    /\ \E t \in Start :
         /\ keys = Typing(t)
         /\ user = [p \in Slot |->
                      LET n == CASE p = initproc -> "init" [] p = 2 -> t [] OTHER -> "none"
                      IN  [text |-> n, prog |-> Text[n], kids |-> <<>>, seq |-> 0]]
    /\ file = [f \in File |-> [ref |-> 0, writable |-> FALSE]]
    /\ pipe = NoPipe
    /\ nyield = 0 /\ failed = FALSE /\ panic = FALSE

\* What p does when it has a CPU.
Step(p) ==
    /\ Running(p) /\ ~panic
    /\ \/ /\ \/ sleep(p)
             \/ fork(p) \/ ForkFails(p) \/ fork_parent(p) \/ fork_runnable(p)
             \/ sys_exit(p) \/ ExitKilled(p) \/ exit(p)
             \/ sys_wait(p) \/ wait(p)
             \/ kill(p)
          /\ UNCHANGED <<pipe, cons, keys>>
       \/ /\ \/ sys_pipe(p) \/ sys_dup(p) \/ sys_close(p) \/ exit_close(p)
             \/ pipeclose(p)
             \/ sys_write(p) \/ pipewrite(p)
             \/ sys_read(p) \/ piperead(p)
             \/ sys_sleep(p) \/ SleepTicks(p)
          /\ UNCHANGED <<cons, keys>>
       \/ consoleread(p)

\* The command is over: init and the shell wait, every other slot is free.
Idle ==
    /\ \A p \in Slot : state[p] = IF p <= 2 THEN "SLEEPING" ELSE "UNUSED"
    /\ \A c \in Cpu : cpu[c] = None

Next ==
    \/ \E p \in Slot : Step(p)
    \/ /\ \/ \E p \in Slot : yield(p)
          \/ \E c \in Cpu, p \in Slot : scheduler(c, p)
          \/ \E c \in Cpu : Switch(c)
       /\ UNCHANGED <<pipe, cons, keys>>
    \/ clockintr /\ UNCHANGED <<cons, keys>>
    \/ consoleintr

Spec == Init /\ [][Next]_pvars

\* A process gets a CPU that is free, executes on it, and leaves it when it
\* sleeps; the clock ticks and the user types.
Progress(p) ==
    \/ Step(p)
    \/ /\ \E c \in Cpu : scheduler(c, p) \/ (cpu[c] = p /\ Switch(c))
       /\ UNCHANGED <<pipe, cons, keys>>

FairSpec ==
    /\ Spec
    /\ \A p \in Slot : WF_pvars(Progress(p))
    /\ WF_pvars(clockintr /\ UNCHANGED <<cons, keys>>)
    /\ WF_pvars(consoleintr)

-----------------------------------------------------------------------------
\* A process runs on at most one CPU, a CPU only runs a process that is
\* RUNNING or on its way into the scheduler, and no slot is handed out,
\* scheduled or reaped while a CPU is still on its kernel stack.
OneCpuPerProcess ==
    /\ \A c, d \in Cpu : c # d /\ cpu[c] = cpu[d] => cpu[c] = None
    /\ \A c \in Cpu : cpu[c] # None =>
         \/ state[cpu[c]] = "RUNNING"
         \/ cpu[c] \in locked /\ state[cpu[c]] \in {"SLEEPING", "RUNNABLE", "ZOMBIE"}
    /\ \A p \in Slot : state[p] = "RUNNING" => \E c \in Cpu : cpu[c] = p

\* The programs never see a result they report as a failure: pipe data
\* arrives complete and in order, wait() returns the right child and status,
\* fork() fails only when the table is full.  Nor does the kernel panic, in
\* fileclose() or because init exits.
ProgramsPass == ~failed /\ ~panic

\* An open pipe end has as many references as there are descriptors for it,
\* and a pipe is there while anyone is inside its functions.
InPipeCall(p) ==
    \/ pc[p] \in {"pipewrite", "piperead", "pipeclose"}
    \/ pc[p] = "sleep" /\ want[p] \in {NreadChan, NwriteChan}

FileRefsExact ==
    /\ \A f \in File :
         file[f].ref = Cardinality({<<p, fd>> \in Slot \X Fd : ofile[p][fd] = f})
    /\ \A p \in Slot : state[p] # "UNUSED" /\ InPipeCall(p) => pipe.alloc

\* Every command whose processes need no input comes to an end: they all exit,
\* are reaped by their parent or by init, and the shell waits for input.
CommandEnds == (user[2].text \notin Endless) ~> Idle
=============================================================================
