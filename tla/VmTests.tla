------------------------------ MODULE VmTests ------------------------------
(***************************************************************************)
(* The memory tests of the guest's user/usertests.c and "cmd &" of          *)
(* user/sh.c, as scripts of VmCalls, and the system that runs them.  The    *)
(* first process executes a test in the place of init, so the tests' last   *)
(* exit() is the end of the script.                                         *)
(***************************************************************************)
EXTENDS VmProc

CONSTANT Start  \* the tests that the first process may execute

\* The image's data: the name "echo" at 1, argument vectors at 3 and 5.  The stack
\* page holds the arguments from 20 on; the rest of it is the test's variables.
None == [op |-> "", want |-> {}, again |-> FALSE, va |-> 0, n |-> 0, end |-> "", argv |-> 0,
         child |-> <<>>, else |-> <<>>, words |-> <<0>>, faults |-> FALSE]
Bad == {-1}
sbrk(n, want) == [None EXCEPT !.op = "sbrk", !.n = n, !.want = want]
exits(n) == [None EXCEPT !.op = "exit", !.n = n]
waits(want) == [None EXCEPT !.op = "wait", !.want = want, !.va = 16]
forks(child) == [None EXCEPT !.op = "fork", !.want = Pid, !.child = child]
execs(va, argv, want, main) ==
  [None EXCEPT !.op = "exec", !.va = va, !.argv = argv, !.want = want, !.child = main]
pipes(va, want) == [None EXCEPT !.op = "pipe", !.va = va, !.want = want]
closes(end) == [None EXCEPT !.op = "close", !.end = end]
write(end, va, n, want) == [None EXCEPT !.op = "write", !.end = end, !.va = va, !.n = n, !.want = want]
read(end, va, n, want) == [None EXCEPT !.op = "read", !.end = end, !.va = va, !.n = n, !.want = want]
path(va, want) == [None EXCEPT !.op = "path", !.va = va, !.want = want]
load(va, want) == [None EXCEPT !.op = "load", !.va = va, !.want = want]
store(va, words) == [None EXCEPT !.op = "store", !.va = va, !.words = words]
kills(n) == [None EXCEPT !.op = "kill", !.n = n]
sleeps == [None EXCEPT !.op = "sleep"]
faults(call) == [call EXCEPT !.faults = TRUE]
while(call, body) == [call EXCEPT !.again = TRUE, !.child = body]

X == 7
Wild == <<600, 20000>>  \* an unmapped user address, and one above MAXVA
top == 24               \* the size exec() gives the test

-----------------------------------------------------------------------------
(* user/usertests.c *)

copyin_test ==
  LET Try(a) == <<write("file", a, 16, Bad), write("console", a, 16, {-1, 0}), pipes(17, {0}),
                  write("w", a, 16, {-1, 0}), closes("r"), closes("w")>>
  IN  Try(Wild[1]) \o Try(Wild[2])
copyout_test ==
  LET Try(a) == <<read("file", a, 16, {-1, 0}), pipes(17, {0}), write("w", 1, 1, {1}),
                  read("r", a, 16, {-1, 0}), closes("r"), closes("w")>>
  IN  Try(Wild[1]) \o Try(Wild[2])
copyinstr1 == <<path(Wild[1], Bad), path(Wild[2], Bad)>>
copyinstr2 ==
  <<store(16, <<X, X, X, X>>), path(16, Bad), execs(16, 3, Bad, <<>>),
    forks(<<sbrk(16, {24}), store(24, <<X, X, X, X, X, X, X, X, 0, 24, 0>>), execs(1, 33, Bad, <<>>),
            exits(7)>>), waits({7})>>
copyinstr3 == <<sbrk(16, {24}), sbrk(0, {40}), store(-1, <<X>>), path(-1, Bad), execs(-1, 3, Bad, <<>>)>>
rwsbrk == <<sbrk(16, {24}), sbrk(-16, {40}), write("file", 32, 2, Bad), read("file", 32, 2, Bad)>>
echo_main == <<load(20, {22}), load(22, {2}), load(7, {0}), exits(0)>>
exectest == <<forks(<<execs(1, 3, {0}, echo_main)>>), waits({0})>>
mem == <<forks(<<while(sbrk(16, {}), <<store(-16, <<9>>)>>), sbrk(-16, {}), sbrk(8, {}), exits(0)>>),
         waits({0, -1})>>
sbrkbasic ==
  LET Twice(a) == <<sbrk(1, {a}), sbrk(1, {a + 1})>>
  IN  <<forks(<<sbrk(1000, Bad), exits(0)>>), waits({0}),
        sbrk(1, {24}), store(24, <<1>>), sbrk(1, {25}), store(25, <<1>>)>>
      \o <<forks(Twice(26) \o <<exits(0)>>)>> \o Twice(26) \o <<waits({0})>>
sbrkmuch ==
  <<sbrk(24, {24}), store(24, <<1>>), store(32, <<1>>), store(40, <<1>>), store(47, <<99>>),
    sbrk(-8, {48}), sbrk(0, {40}), sbrk(8, {40}), sbrk(0, {48}), load(47, 0 .. 98), sbrk(-24, {48})>>
kernmem == <<forks(<<faults(load(KERNBASE + EXTMEM * PGSIZE, {})), exits(1)>>), waits(Bad)>>
MAXVAplus == <<forks(<<faults(store(MAXVA, <<99>>)), exits(1)>>), waits(Bad)>>
sbrkfail ==
  LET child == <<sbrk(24, {}), write("w", 1, 1, {1}), sleeps>>
      next == <<forks(child), read("r", 19, 1, {1})>>
  IN  <<pipes(17, {0})>> \o next \o next
      \o <<sbrk(8, {24}), kills(2), waits({}), kills(3), waits({}),
           forks(<<sbrk(400, {}), faults(load(100, {})), exits(1)>>), waits({-1, 2})>>
sbrkarg == <<sbrk(8, {24}), write("file", 24, 8, {8}), sbrk(8, {32}), pipes(32, {0})>>
validatetest == <<path(0, {}), path(8, {}), path(16, {}), path(24, {}), path(32, {})>>
bsstest == <<load(7, {0})>>
bigargtest ==
  <<forks(<<sbrk(8, {24}), store(24, <<X, X, X, X, X, 0, 24, 24>>), sbrk(8, {32}), store(32, <<0>>),
            execs(1, 30, {}, <<exits(1)>>), exits(0)>>), waits({0})>>
argptest == <<read("file", -1, -1, {})>>
stacktest == <<forks(<<faults(load(15, {})), exits(1)>>), waits(Bad)>>
\* The addresses of pgbug and badwrite lie between the user half and the kernel;
\* walk() masks them to pages that are not mapped.
pgbug == <<execs(7096, 3, {}, <<>>), pipes(7096, {})>>
sbrkbugs ==
  <<forks(<<sbrk(-24, {24}), faults(load(0, {}))>>), waits({}),
    forks(<<sbrk(-20, {24}), exits(0)>>), waits({}),
    forks(<<sbrk(20, {24}), sbrk(-1, {44}), exits(0)>>), waits({})>>
sbrklast == <<sbrk(8, {24}), sbrk(2, {32}), sbrk(-4, {34}), store(24, <<X, 0>>), path(24, {0}),
              write("file", 24, 1, {1}), store(24, <<0>>), read("file", 24, 1, {1}), load(24, {FILE[1]})>>
sbrk8000 == <<sbrk(-(UINT \div 2) + 4, {}), load(-1, {}), store(-1, <<5>>), load(-1, {5})>>
badwrite == <<write("file", 8191, 1, {}), write("file", 8191, 1, {}), write("file", 1, 1, {1})>>
badarg == <<execs(1, 5, {}, <<>>), execs(1, 5, {}, <<>>)>>
execout(avail) ==
  <<forks(<<while(sbrk(8, {}), <<store(-1, <<1>>)>>)>> \o [i \in 1 .. avail |-> sbrk(-8, {})]
          \o <<execs(1, 3, {}, echo_main), exits(0)>>), waits({0})>>
countfree ==
  <<pipes(17, {0}),
    forks(<<closes("r"), while(sbrk(8, {}), <<store(-1, <<1>>), write("w", 1, 1, {1})>>), exits(0)>>),
    closes("w"), while(read("r", 19, 1, {0, 1}), <<>>), closes("r"), waits({})>>

forktest ==
  <<forks(<<exits(0)>>), forks(<<exits(0)>>),
    [forks(<<exits(0)>>) EXCEPT !.want = Bad, !.else = <<waits({0}), waits({0}), waits({-2})>>]>>

(* What the tests leave out: each call at the end of memory, and bad arguments. *)
full_memory ==
  LET again == <<sbrk(-8, {}), execs(1, 3, Bad, <<>>), exits(0)>>
  IN  <<forks(<<while(sbrk(8, {}), <<>>), pipes(17, Bad), execs(1, 3, Bad, <<>>),
                [forks(<<exits(0)>>) EXCEPT !.want = Bad, !.else = again]>>), waits({0})>>
bad_arguments ==
  <<waits({-2}), forks(<<exits(5)>>), [waits({-2}) EXCEPT !.va = Wild[1]], waits({5}), load(16, {5}),
    pipes(17, {0}), closes("r"), write("w", 1, 1, Bad), closes("w"),
    execs(1, Wild[1], Bad, <<>>), store(16, <<1, 1, 1, 1>>), execs(1, 16, Bad, <<>>)>>
bad_files ==
  LET Try(name) == <<store(16, <<name, 0>>), execs(16, 3, Bad, <<>>)>>
  IN  Try(4) \o Try(5) \o Try(6) \o Try(7)

(* user/sh.c: two commands at once, "echo & echo"; either may run out of memory. *)
runcmd_back ==
  LET cmd == <<execs(1, 3, {}, <<exits(0)>>), exits(0)>>
  IN  <<forks(cmd), [forks(cmd) EXCEPT !.want = {}], waits({0}), waits({0, -2})>>

-----------------------------------------------------------------------------
Tests ==
  [copyin |-> copyin_test, copyout |-> copyout_test, copyinstr1 |-> copyinstr1,
   copyinstr2 |-> copyinstr2, copyinstr3 |-> copyinstr3, rwsbrk |-> rwsbrk, exectest |-> exectest,
   mem |-> mem, sbrkbasic |-> sbrkbasic, sbrkmuch |-> sbrkmuch, kernmem |-> kernmem,
   MAXVAplus |-> MAXVAplus, sbrkfail |-> sbrkfail, sbrkarg |-> sbrkarg, validatetest |-> validatetest,
   bsstest |-> bsstest, bigargtest |-> bigargtest, argptest |-> argptest, stacktest |-> stacktest,
   pgbug |-> pgbug, sbrkbugs |-> sbrkbugs, sbrklast |-> sbrklast, sbrk8000 |-> sbrk8000,
   badwrite |-> badwrite, badarg |-> badarg, execout0 |-> execout(0), execout3 |-> execout(3),
   execout5 |-> execout(5), execout7 |-> execout(7), execout8 |-> execout(8),
   countfree |-> countfree, forktest |-> forktest,
   full_memory |-> full_memory, bad_arguments |-> bad_arguments, bad_files |-> bad_files, sh_back |-> runcmd_back]

\* initcode: the name of the test's file at 1, the argument vector at 3.
initcode == <<1, 3, 0, 1, 0>>

userinit(b, text) ==
  [Idle EXCEPT !.st = "running", !.pt = b.pt, !.sz = PGSIZE,
               !.prog = <<execs(1, 3, {0}, Tests[text])>>]

Init ==
  \E b \in {Booted(initcode)}, text \in Start :
    /\ m = b.m /\ kpt = b.kpt /\ failed = FALSE
    /\ pr = [p \in Pid |-> IF p = 1 THEN userinit(b, text) ELSE Idle]

Step(p) ==
  \/ sys_sbrk(p) \/ uvmalloc(p) \/ Grown(p) \/ fork(p) \/ uvmcopy(p) \/ ForkDone(p) \/ wait(p)
  \/ sys_exec(p) \/ ExecArg(p) \/ ExecImage(p) \/ sys_exit(p) \/ Killed(p) \/ sys_kill(p)
  \/ sys_pipe(p) \/ sys_close(p) \/ pipewrite(p) \/ piperead(p) \/ sys_write(p) \/ sys_read(p)
  \/ argstr(p) \/ Access(p) \/ sys_sleep(p)

\* The test is over; nothing else stops the system.
End == /\ pr[1].st = "running" /\ \A p \in Pid : pr[p].prog = <<>> \/ At(p, "sleep")
       /\ UNCHANGED vars

Next == (\E p \in Pid : Step(p)) \/ End
Spec == Init /\ [][Next]_vars

-----------------------------------------------------------------------------
(* Properties. *)

\* The page that entry i of a table points to, and the entries that point to tables.
Sub(pg, i) == PTE2PA(m.ram[pg][i])
Subs(pg) == {i \in Words : Has(m.ram[pg][i], TABLE)}

\* The entries of the last level under a root: page number and entry.
Leaves(root) ==
  UNION {UNION {{<<PGSIZE * (PGSIZE * i + j) + k, m.ram[Sub(Sub(root, i), j)][k]>> :
                   k \in {w \in Words : m.ram[Sub(Sub(root, i), j)][w] # 0}} :
                j \in Subs(Sub(root, i))} : i \in Subs(root)}

\* The user page tables in use, each with the pages it maps: a process's own
\* (while sbrk() or fork() fills one, as far as the loop has got), and the one
\* that an exec() builds.
Growing(p) == At(p, "uvmalloc") /\ pr[p].l.then = "sbrk"
Filled(p) == IF pr[p].st = "used" THEN pr[CHOOSE q \in Pid : pr[q].l.np = p].l.a
             ELSE IF Growing(p) THEN pr[p].l.a ELSE PGROUNDUP(pr[p].sz)
Spaces ==
  {<<pr[p].pt, PageOf(Filled(p))>> : p \in {q \in Pid : pr[q].st # "unused"}} \cup
  {<<pr[p].l.pt, PageOf(pr[p].l.a)>> : p \in {q \in Pid : At(q, "uvmalloc") /\ ~Growing(q)}}

\* Who holds which page, one entry <<holder, page>> for every claim to it: the
\* tables and the pages of an address space, the kernel's tables and stacks, the
\* arguments of an exec(), pipes, and the places of the free list.
Tables(root) ==
  {<<<<root>>, root>>} \cup {<<<<root, i>>, Sub(root, i)>> : i \in Subs(root)} \cup
  UNION {{<<<<root, i, j>>, Sub(Sub(root, i), j)>> : j \in Subs(Sub(root, i))} : i \in Subs(root)}
Pages(root) == {<<<<root, -1, x[1]>>, PTE2PA(x[2])>> : x \in Leaves(root)}
Free ==
  LET Link(y, k) == IF y.at \notin Ram THEN y
                    ELSE [at |-> m.ram[y.at][0], claims |-> y.claims \cup {<<<<-1, k>>, y.at>>}]
  IN  ForEach([at |-> m.free, claims |-> {}], 1, Cardinality(Ram), Link).claims
Claims ==
  UNION {Tables(s[1]) \cup Pages(s[1]) : s \in Spaces} \cup Tables(kpt) \cup Free
  \cup {<<<<-2, i>>, PTE2PA(Entry(m, kpt, KSTACK(i)))>> : i \in 0 .. NPROC - 1}
  \cup UNION {{<<<<-2 - p, i>>, pr[p].l.argv[i]>> : i \in DOMAIN pr[p].l.argv} : p \in Pid}
  \cup {<<<<-3 - NPROC, pg>>, pg>> : pg \in Used(pr)}

\* Every page of RAM has one holder, whatever call runs out of memory at which
\* of its allocations and whoever else allocates in between: no page is lost
\* (usertests.c: "lost some free pages"), none is freed twice, none is in two
\* address spaces, and the links in the free pages are intact.
PagesAccounted ==
  /\ {c[2] : c \in Claims} = Ram
  /\ Cardinality(Claims) = Cardinality(Ram)

\* An address space maps exactly the pages below the process's size, as far as a
\* call has got with them, and all of them to the user but at most the guard page
\* of the stack; the kernel's own table always maps the devices, its text
\* read-only, the rest of RAM, and the stacks with a hole below each.
MapsMatchSize ==
  /\ \A s \in Spaces : \E leaves \in {Leaves(s[1])} :
       /\ {x[1] : x \in leaves} = 0 .. s[2] - 1
       /\ Cardinality({x \in leaves : ~Has(x[2], PTE_U)}) <= 1
       /\ \A x \in leaves : Has(x[2], AF) /\ (x[1] = 0 => Has(x[2], PTE_U))
  /\ LET Dev == UNION {d[1] .. d[1] + d[2] - 1 : d \in {DEVICES[k] : k \in DOMAIN DEVICES}}
         Stack == {PageOf(KSTACK(i) - KERNBASE) : i \in 0 .. NPROC - 1}
     IN  \E leaves \in {Leaves(kpt)} :
           /\ {x[1] : x \in leaves} = Dev \cup Stack \cup (EXTMEM .. PHYSTOP - 1)
           /\ \A x \in leaves : /\ x[1] \notin Stack => PTE2PA(x[2]) = x[1]
                                /\ Has(x[2], RO) <=> x[1] \in EXTMEM .. PageOf(ETEXT) - 1

\* No test meets a result or a value that it reports as a failure, in any order
\* of its processes, and the kernel does not panic (mappages: remap, uvmunmap,
\* walk, kfree, uvmcopy).
VmTestsPass == ~failed /\ ~m.panic
=============================================================================
