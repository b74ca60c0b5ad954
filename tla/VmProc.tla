------------------------------- MODULE VmProc -------------------------------
(***************************************************************************)
(* The calls that build and tear down an address space: sbrk, fork, wait    *)
(* and exec (kernel/proc.c, kernel/exec.c, sys_exec of kernel/sysfile.c),   *)
(* and what the kernel sets up before the first process.                    *)
(***************************************************************************)
EXTENDS VmCalls

\* uvmalloc() called for table pt, to go on as then says.
Grow(pt, oldsz, newsz, then, l) ==
  [l EXCEPT !.pt = pt, !.a = PGROUNDUP(oldsz), !.lo = PGROUNDUP(oldsz), !.hi = newsz, !.then = then]

\* sys_sbrk(), growproc(): a size below zero wraps, and is then no smaller.
sys_sbrk(p) ==
  /\ Calling(p, "sbrk")
  /\ LET sz == pr[p].sz
         newsz == (sz + Cur(p).n) % UINT
     IN  IF Cur(p).n > 0
         THEN /\ Goto(p, "uvmalloc", Grow(pr[p].pt, sz, newsz, "sbrk", NoLocals))
              /\ UNCHANGED <<m, failed>>
         ELSE /\ m' = uvmdealloc(m, pr[p].pt, sz, newsz)
              /\ Return(p, sz, [pr EXCEPT ![p].sz = IF newsz < sz THEN newsz ELSE sz])
  /\ UNCHANGED kpt

-----------------------------------------------------------------------------
(* fork and wait *)

\* allocproc(): the first unused slot and an empty page table.
fork(p) ==
  /\ Calling(p, "fork")
  /\ \E free \in {{q \in Pid : pr[q].st = "unused"}}, k \in {uvmcreate(m)} :
       IF free = {} THEN m' = m /\ Return(p, -1, pr)
       ELSE IF k.pg = 0 THEN m' = k.m /\ Return(p, -1, pr)
       ELSE \E np \in {q \in free : \A r \in free : q <= r} :
              /\ m' = k.m
              /\ pr' = [pr EXCEPT ![np] = [Idle EXCEPT !.st = "used", !.pt = k.pg],
                                  ![p].pc = "uvmcopy", ![p].l = [NoLocals EXCEPT !.np = np]]
              /\ UNCHANGED failed
  /\ UNCHANGED kpt

\* One turn of uvmcopy(), which panics where the parent has no page; when it
\* fails, what is mapped so far goes, and freeproc() takes the tables.
uvmcopy(p) ==
  /\ At(p, "uvmcopy") /\ pr[p].l.a < pr[p].sz
  /\ LET a == pr[p].l.a
         np == pr[p].l.np
         pte == Entry(m, pr[p].pt, a)
     IN  IF ~Has(pte, AF) THEN m' = [m EXCEPT !.panic = TRUE] /\ UNCHANGED <<pr, failed>>
         ELSE
         \E w \in {AddPage(m, pr[np].pt, a, m.ram[PTE2PA(pte)], PTE_FLAGS(pte) - PTE_V)} :
           IF w.pg # 0
           THEN m' = w.m /\ pr' = [pr EXCEPT ![p].l.a = @ + PGSIZE] /\ UNCHANGED failed
           ELSE m' = uvmfree(uvmunmap(w.m, pr[np].pt, 0, PageOf(a)), pr[np].pt, 0)
                /\ Return(p, -1, [pr EXCEPT ![np] = Idle])
  /\ UNCHANGED kpt

\* The child has its memory: fork() gives it the files and lets it run.
ForkDone(p) ==
  /\ At(p, "uvmcopy") /\ pr[p].l.a >= pr[p].sz
  /\ LET np == pr[p].l.np
     IN  Return(p, np, [pr EXCEPT ![np].st = "running", ![np].parent = p, ![np].sz = pr[p].sz,
                                  ![np].fds = pr[p].fds, ![np].prog = Cur(p).child])
  /\ UNCHANGED <<m, kpt>>

\* freeproc(): the child's pages and tables.
freeproc(x, q) == uvmfree(x, pr[q].pt, pr[q].sz)

\* wait(): the first zombie's status out to the user, then the zombie is freed.
wait(p) ==
  /\ Calling(p, "wait")
  /\ LET kids == {q \in Pid : pr[q].parent = p /\ pr[q].st # "unused"}
         dead == {q \in kids : pr[q].st = "zombie"}
     IN  /\ kids = {} \/ dead # {}
         /\ IF kids = {} THEN m' = m /\ Return(p, -2, pr)
            ELSE \E q \in {r \in dead : \A s \in dead : r <= s} :
                   \E c \in {copyout(m, pr[p].pt, Va(p),
                                     IF Va(p) = 0 THEN <<>> ELSE <<pr[q].xs % 256>>)} :
                     IF c.ok THEN m' = freeproc(c.m, q) /\ Return(p, pr[q].xs, [pr EXCEPT ![q] = Idle])
                     ELSE m' = c.m /\ Return(p, -2, pr)
  /\ UNCHANGED kpt

-----------------------------------------------------------------------------
(* exec *)

FreeArgs(x, p) == FoldLeft(LAMBDA y, pg : With(y, LAMBDA z : kfree(z, pg)), x, pr[p].l.argv)

\* sys_exec(): the path comes in first.
sys_exec(p) ==
  /\ Calling(p, "exec")
  /\ \E s \in {copyinstr(m, pr[p].pt, Va(p), MAXPATH)} :
       IF s.ok THEN Goto(p, "argv", [NoLocals EXCEPT !.img = s.words]) /\ UNCHANGED failed
       ELSE Return(p, -1, pr)
  /\ UNCHANGED <<m, kpt>>

\* One turn of sys_exec()'s loop: an argument pointer, a page, the string.
ExecArg(p) ==
  /\ At(p, "argv")
  /\ LET i == Len(pr[p].l.argv)
         at == Cur(p).argv + i
         arg == copyin(m, pr[p].pt, at, 1)
         Bad(x) == m' = FreeArgs(x, p) /\ Return(p, -1, pr)
     IN  IF i >= MAXARG \/ at + 1 > pr[p].sz \/ ~arg.ok THEN Bad(m)
         ELSE IF arg.words = <<0>> THEN Goto(p, "image", pr[p].l) /\ UNCHANGED <<m, failed>>
         ELSE \E k \in {kalloc(m)}, s \in {copyinstr(m, pr[p].pt, arg.words[1], PGSIZE)} :
                IF k.pg = 0 THEN Bad(k.m)
                ELSE IF ~s.ok THEN Bad(kfree(k.m, k.pg))
                ELSE /\ m' = [k.m EXCEPT !.ram[k.pg] = [j \in Words |->
                                IF j < Len(s.words) THEN s.words[j + 1]
                                ELSE IF j = Len(s.words) THEN 0 ELSE @[j]]]
                     /\ Goto(p, "argv", [pr[p].l EXCEPT !.argv = Append(@, k.pg)])
                     /\ UNCHANGED failed
  /\ UNCHANGED kpt

\* exec() gives up: the new address space goes, then sys_exec()'s pages.
ExecBad(p, x, pt, sz) ==
  m' = FreeArgs(IF pt = 0 THEN x ELSE uvmfree(x, pt, sz), p) /\ Return(p, -1, pr)

\* Memory for segment k of the file, or after the last one for the stack.
Segment(p, x, pt, k, sz) ==
  LET segs == Image[pr[p].l.img]
      top == PGROUNDUP(sz)
      Next(l) == m' = x /\ Goto(p, "uvmalloc", l) /\ UNCHANGED failed
  IN  IF k > Len(segs)
      THEN Next(Grow(pt, top, top + 2 * PGSIZE, "stack", [pr[p].l EXCEPT !.sz = top]))
      ELSE IF segs[k].memsz < segs[k].filesz THEN ExecBad(p, x, pt, sz)
      ELSE Next(Grow(pt, sz, segs[k].vaddr + segs[k].memsz, "seg", [pr[p].l EXCEPT !.seg = k, !.sz = sz]))

\* exec(): the file must be there and be an ELF file (a name of Image).
ExecImage(p) ==
  /\ At(p, "image")
  /\ \E k \in {uvmcreate(m)} :
       IF pr[p].l.img \notin DOMAIN Image THEN ExecBad(p, m, 0, 0)
       ELSE IF k.pg = 0 THEN ExecBad(p, k.m, 0, 0)
       ELSE Segment(p, k.m, k.pg, 1, 0)
  /\ UNCHANGED kpt

\* loadseg(): the file's words over the zeroed pages.  It panics where there is
\* no page, and fails where the file ends before the segment does.
loadseg(x, pt, seg) ==
  LET short == Len(seg.file) < seg.filesz
      upto == IF short THEN Len(seg.file) + 1 ELSE seg.filesz
  IN  IF Reach(x, pt, seg.vaddr, upto) < upto THEN [m |-> [x EXCEPT !.panic = TRUE], ok |-> FALSE]
      ELSE [m |-> copyout(x, pt, seg.vaddr, seg.file).m, ok |-> ~short]
ExecLoad(p) ==
  LET l == pr[p].l
      seg == Image[l.img][l.seg]
      sz == IF l.hi < l.sz THEN l.sz ELSE l.hi
  IN  IF seg.vaddr % PGSIZE # 0
      THEN ExecBad(p, m, l.pt, sz)
      ELSE \E s \in {loadseg(m, l.pt, seg)} :
             IF s.ok THEN Segment(p, s.m, l.pt, l.seg + 1, sz) ELSE ExecBad(p, s.m, l.pt, sz)

\* One argument string, or at last the array of pointers, onto the new stack:
\* s holds the memory, the stack pointer, the pointers so far and whether all fit.
Push(s, words, pt, base) ==
  LET low == s.sp - Len(words)
      sp == low - (low % 2)
  IN  IF ~s.ok \/ sp < base THEN [s EXCEPT !.ok = FALSE]
      ELSE With(copyout(s.m, pt, sp, words),
                LAMBDA c : [m |-> c.m, sp |-> sp, ustack |-> Append(s.ustack, sp), ok |-> c.ok])
String(x, pg) == LET z == CHOOSE j \in Words : x.ram[pg][j] = 0 /\ \A k \in 0 .. j - 1 : x.ram[pg][k] # 0
                 IN  [j \in 1 .. z + 1 |-> x.ram[pg][j - 1]]

\* The stack is there: its guard page, the arguments, and the new image is the
\* process's; the old one goes.
ExecCommit(p) ==
  LET l == pr[p].l
      base == l.hi - PGSIZE
      start == [m |-> uvmclear(m, l.pt, l.hi - 2 * PGSIZE), sp |-> l.hi, ustack |-> <<>>, ok |-> TRUE]
      Args(s) == FoldLeft(LAMBDA y, pg : With(y, LAMBDA z : Push(z, String(m, pg), l.pt, base)), s, l.argv)
  IN  \E s \in {With(Args(start), LAMBDA y : Push(y, Append(y.ustack, 0), l.pt, base))} :
        IF ~s.ok
        THEN ExecBad(p, s.m, l.pt, l.hi)
        ELSE /\ m' = FreeArgs(uvmfree(s.m, pr[p].pt, pr[p].sz), p)
             /\ pr' = [pr EXCEPT ![p].pt = l.pt, ![p].sz = l.hi, ![p].prog = Cur(p).child,
                                 ![p].pc = "run", ![p].l = NoLocals]
             /\ UNCHANGED failed

-----------------------------------------------------------------------------
(* One turn of uvmalloc()'s loop, and what its caller does when it is over. *)

uvmalloc(p) ==
  /\ At(p, "uvmalloc") /\ pr[p].l.a < pr[p].l.hi
  /\ LET l == pr[p].l
     IN  \E w \in {AddPage(m, l.pt, l.a, Zeroed, NORMAL + PTE_U)} :
           IF w.pg # 0
           THEN m' = w.m /\ pr' = [pr EXCEPT ![p].l.a = @ + PGSIZE] /\ UNCHANGED failed
           ELSE \E x \in {uvmdealloc(w.m, l.pt, l.a, l.lo)} :
                  IF l.then = "sbrk" THEN m' = x /\ Return(p, -1, pr) ELSE ExecBad(p, x, l.pt, l.sz)
  /\ UNCHANGED kpt

\* A size that wraps, and so is below the old one, is not taken.
Grown(p) ==
  /\ At(p, "uvmalloc") /\ pr[p].l.a >= pr[p].l.hi
  /\ \/ /\ pr[p].l.then = "sbrk"
        /\ m' = m /\ Return(p, pr[p].sz, [pr EXCEPT ![p].sz = IF pr[p].l.hi < @ THEN @ ELSE pr[p].l.hi])
     \/ pr[p].l.then = "seg" /\ ExecLoad(p)
     \/ pr[p].l.then = "stack" /\ ExecCommit(p)
  /\ UNCHANGED kpt

-----------------------------------------------------------------------------
(* The start: main(). *)

\* proc_mapstacks(): a page of stack for every process slot, a hole below each.
KSTACK(i) == MAXVA - (i + 1) * 2 * PGSIZE
proc_mapstacks(x, root) ==
  ForEach(x, 0, NPROC - 1,
          LAMBDA y, i : With(kalloc(y), LAMBDA k : kvmmap(k.m, root, KSTACK(i), k.pg, 1, NORMAL)))

\* uvminit(): initcode, in one page.
uvminit(x, pt, code) ==
  AddPage(x, pt, 0, [j \in Words |-> IF j < Len(code) THEN code[j + 1] ELSE 0], NORMAL + PTE_U).m

\* kinit1(), kvminit(), kinit2(), procinit() and the memory part of userinit():
\* the memory, the kernel's page table and the first process's.
Booted(code) ==
  LET none == [ram |-> [pg \in Ram |-> Zeroed], free |-> 0, panic |-> FALSE]
      Kernel(x) == [m |-> kvmmake(x), pg |-> x.free]
      Rest2(k) == [k EXCEPT !.m = freerange(k.m, BOOTMEM * PGSIZE, PHYSTOP * PGSIZE)]
      Stacks(k) == [k EXCEPT !.m = proc_mapstacks(k.m, k.pg)]
      User(k) == With(uvmcreate(k.m), LAMBDA u : [m |-> uvminit(u.m, u.pg, code), kpt |-> k.pg, pt |-> u.pg])
  IN  With(With(With(With(freerange(none, END, BOOTMEM * PGSIZE), Kernel), Rest2), Stacks), User)
=============================================================================
