----------------------------- MODULE PageTable -----------------------------
(***************************************************************************)
(* The guest's physical page allocator (kernel/kalloc.c) and page tables    *)
(* (kernel/vm.c), as functions on a memory                                  *)
(*   ram   : per page, its words;                                           *)
(*   free  : kmem.freelist, the first free page, or 0;                      *)
(*   panic : the kernel called panic().                                     *)
(* A word holds a byte, a pointer or a page table entry, so a page table    *)
(* page has PGSIZE entries, and a free page holds the link to the next one  *)
(* in its word 0.  Virtual addresses count words, physical ones pages.      *)
(***************************************************************************)
EXTENDS Integers, Sequences, FiniteSets, SequencesExt

CONSTANTS PGSIZE,    \* words in a page
          EXTMEM,    \* the first page of RAM, where the kernel is linked
          ETEXT,     \* the address after the kernel's text
          END,       \* the address after the kernel
          BOOTMEM,   \* the page at which the map of entry.S stops
          PHYSTOP,   \* the page after the last one of RAM
          DEVICES,   \* the device register pages the kernel maps: <<first, pages>>
          KERNBASE,  \* the first address of the kernel's half
          MAXVA      \* the first address walk() refuses

\* kernel.ld aligns etext; mappages() would map the page it lies in twice.
ASSUME TextAligned == ETEXT % PGSIZE = 0 /\ KERNBASE % (PGSIZE * PGSIZE * PGSIZE * PGSIZE) = 0

PGROUNDUP(a) == ((a + PGSIZE - 1) \div PGSIZE) * PGSIZE
PageOf(a) == a \div PGSIZE

\* The bits of an entry, and the page it points to.
VALID == 1
TABLE == 2
PTE_V == VALID + TABLE
NORMAL == 4
PTE_U == 8
RO == 16
AF == 32
XN == 64
PA2PTE(pg) == pg * 128
PTE2PA(w) == w \div 128
PTE_FLAGS(w) == (w % 128) - (IF (w \div AF) % 2 = 1 THEN AF ELSE 0)
Has(w, bit) == (w \div bit) % 2 = 1

Words == 0 .. PGSIZE - 1
Zeroed == [i \in Words |-> 0]

\* The words that kalloc() (bytes of 5) and kfree() (bytes of 1) leave, as entries.
Alloced == [i \in Words |-> VALID + NORMAL + AF]
Freed == [i \in Words |-> VALID]

\* Op of v, where v is evaluated once.
With(v, Op(_)) == CHOOSE y \in {Op(x) : x \in {v}} : TRUE

\* Op applied to m and to each of a, a + 1, ..., b in turn; halving the range
\* keeps the evaluation shallow.
ForEach(m, a, b, Op(_, _)) ==
  LET RECURSIVE Loop(_, _, _)
      Loop(x, i, j) == LET mid == (i + j) \div 2
                         IN  IF i > j THEN x ELSE IF i = j THEN Op(x, i)
                             ELSE With(Loop(x, i, mid), LAMBDA y : Loop(y, mid + 1, j))
  IN  Loop(m, a, b)

-----------------------------------------------------------------------------
(* kalloc.c *)

\* The pages that kfree() accepts.
Ram == PageOf(PGROUNDUP(END)) .. PHYSTOP - 1

kfree(m, pg) ==
  IF pg \in Ram
  THEN [m EXCEPT !.ram[pg] = [Freed EXCEPT ![0] = m.free], !.free = pg]
  ELSE [m EXCEPT !.panic = TRUE]

\* pg is 0 when there is none.
kalloc(m) ==
  IF m.free = 0 THEN [m |-> m, pg |-> 0]
  ELSE [m |-> [m EXCEPT !.free = m.ram[m.free][0], !.ram[m.free] = Alloced], pg |-> m.free]

freerange(m, vstart, vend) == ForEach(m, PageOf(PGROUNDUP(vstart)), PageOf(vend) - 1, kfree)

-----------------------------------------------------------------------------
(* vm.c: one page table. *)

PX(level, va) == (va \div PGSIZE ^ (4 - level)) % PGSIZE

\* One level of walk(): from table r.pt to the table below it, or to none, 0.
Descend(r, va, level, alloc) ==
  LET i == PX(level, va)
      New(k) == IF k.pg = 0 THEN k
                ELSE [k EXCEPT !.m.ram[k.pg] = Zeroed,
                               !.m.ram[r.pg][i] = PA2PTE(k.pg) + TABLE + VALID]
  IN  IF r.pg = 0 THEN r
      ELSE LET pte == r.m.ram[r.pg][i]
           IN  IF Has(pte, VALID) /\ Has(pte, TABLE) THEN [r EXCEPT !.pg = PTE2PA(pte)]
               ELSE IF alloc THEN With(kalloc(r.m), New) ELSE [r EXCEPT !.pg = 0]

\* walk(): the last-level table of va, 0 if there is none.
walk(m, pt, va, alloc) ==
  IF va >= MAXVA THEN [m |-> [m EXCEPT !.panic = TRUE], pg |-> 0]
  ELSE With(Descend([m |-> m, pg |-> pt], va, 1, alloc), LAMBDA r : Descend(r, va, 2, alloc))

\* The entry of va, 0 where walk() without alloc finds no table.
Entry(m, pt, va) ==
  With(walk(m, pt, va, FALSE), LAMBDA w : IF w.pg = 0 THEN 0 ELSE m.ram[w.pg][PX(3, va)])

\* uva2ka(), walkaddr(): the page that a user may access at va, or 0.
uva2ka(m, pt, va) ==
  IF va >= MAXVA THEN 0
  ELSE LET pte == Entry(m, pt, va)
       IN  IF Has(pte, VALID) /\ Has(pte, TABLE) /\ Has(pte, AF) /\ Has(pte, PTE_U)
           THEN PTE2PA(pte) ELSE 0

\* mappages() of one page; pg in the result is 0 when a table is missing.
MapPage(m, pt, va, pa, perm) ==
  LET Set(w) == IF w.pg = 0 THEN w
                ELSE [w EXCEPT !.m.panic = @ \/ pa >= PHYSTOP \/ Has(w.m.ram[w.pg][PX(3, va)], AF),
                               !.m.ram[w.pg][PX(3, va)] = PA2PTE(pa) + perm + AF + PTE_V]
  IN  With(walk(m, pt, va, TRUE), Set)

\* kvmmap(): n pages from address va on to the pages from pa on, or panic.
kvmmap(m, pt, va, pa, n, perm) ==
  LET Map(x, k) == With(MapPage(x, pt, va + k * PGSIZE, pa + k, perm),
                        LAMBDA w : [w.m EXCEPT !.panic = @ \/ w.pg = 0])
  IN  ForEach(m, 0, n - 1, Map)

\* kvmmake(): the device registers, the text read-only, and the rest of RAM.
kvmmake(m) ==
  LET Dev(x, k) == kvmmap(x.m, x.pg, KERNBASE + DEVICES[k][1] * PGSIZE, DEVICES[k][1],
                          DEVICES[k][2], XN)
      Text(x) == kvmmap(x, m.free, KERNBASE + EXTMEM * PGSIZE, EXTMEM, PageOf(ETEXT) - EXTMEM,
                        NORMAL + RO)
      Data(x) == kvmmap(x, m.free, KERNBASE + ETEXT, PageOf(ETEXT), PHYSTOP - PageOf(ETEXT),
                        NORMAL + XN)
      Root(k) == [k EXCEPT !.m.ram[k.pg] = Zeroed]
      Devices(k) == ForEach(k, 1, Len(DEVICES), LAMBDA x, d : [x EXCEPT !.m = Dev(x, d)]).m
  IN  With(With(With(With(kalloc(m), Root), Devices), Text), Data)

-----------------------------------------------------------------------------
(* vm.c: user memory. *)

\* uvmunmap() with do_free, of n pages from address va on.
uvmunmap(m, pt, va, n) ==
  LET Unmap(x, k) ==
        LET w == walk(x, pt, va + k * PGSIZE, FALSE).pg
            i == PX(3, va + k * PGSIZE)
            pte == IF w = 0 THEN 0 ELSE x.ram[w][i]
        IN  IF Has(pte, VALID) /\ Has(pte, TABLE) /\ Has(pte, AF)
            THEN [kfree(x, PTE2PA(pte)) EXCEPT !.ram[w][i] = 0]
            ELSE [x EXCEPT !.panic = TRUE]
  IN  ForEach(m, 0, n - 1, Unmap)

uvmcreate(m) == With(kalloc(m), LAMBDA k : IF k.pg = 0 THEN k ELSE [k EXCEPT !.m.ram[k.pg] = Zeroed])

\* One turn of the loops of uvmalloc() and uvmcopy(): a new page with the
\* words given, at va; without the page, or a table for it, nothing is kept (but
\* by AddPageKept, which forgets the kfree()).
AddPageKept(m, pt, va, words, perm) ==
  LET Put(k) == IF k.pg = 0 THEN k ELSE MapPage([k.m EXCEPT !.ram[k.pg] = words], pt, va, k.pg, perm)
  IN  With(kalloc(m), Put)
AddPage(m, pt, va, words, perm) ==
  LET Put(k) == IF k.pg = 0 THEN k
                ELSE With(MapPage([k.m EXCEPT !.ram[k.pg] = words], pt, va, k.pg, perm),
                          LAMBDA w : IF w.pg = 0 THEN [w EXCEPT !.m = kfree(w.m, k.pg)] ELSE w)
  IN  With(kalloc(m), Put)

\* uvmdealloc(): the pages between the two sizes, when the new one is smaller; and
\* one that rounds the new size down.
uvmdealloc_down(m, pt, oldsz, newsz) ==
  IF newsz >= oldsz THEN m
  ELSE uvmunmap(m, pt, PageOf(newsz) * PGSIZE, PageOf(PGROUNDUP(oldsz)) - PageOf(newsz))
uvmdealloc(m, pt, oldsz, newsz) ==
  IF newsz >= oldsz THEN m
  ELSE uvmunmap(m, pt, PGROUNDUP(newsz), PageOf(PGROUNDUP(oldsz) - PGROUNDUP(newsz)))

\* freewalk(): the tables below, then the table.
RECURSIVE freewalk(_, _)
freewalk(m, pt) ==
  LET Sub(x, i) == LET pte == x.ram[pt][i]
                   IN  IF Has(pte, VALID) /\ Has(pte, TABLE) /\ ~Has(pte, AF)
                       THEN [freewalk(x, PTE2PA(pte)) EXCEPT !.ram[pt][i] = 0]
                       ELSE x
  IN  With(ForEach(m, 0, PGSIZE - 1, Sub), LAMBDA x : kfree(x, pt))

uvmfree(m, pt, sz) ==
  With(IF sz > 0 THEN uvmunmap(m, pt, 0, PageOf(PGROUNDUP(sz))) ELSE m, LAMBDA x : freewalk(x, pt))

\* uvmclear(): the stack guard page is no longer the user's.
uvmclear(m, pt, va) ==
  LET w == walk(m, pt, va, FALSE).pg
  IN  IF w = 0 THEN [m EXCEPT !.panic = TRUE]
      ELSE [m EXCEPT !.ram[w][PX(3, va)] = @ - (IF Has(@, PTE_U) THEN PTE_U ELSE 0)]

-----------------------------------------------------------------------------
(* vm.c: copying between the kernel and a user. *)

\* The words of the n from va on that lie before the first page that the user
\* may not access.
Reach(m, pt, va, n) ==
  CHOOSE k \in 0 .. n : /\ \A j \in 0 .. k - 1 : uva2ka(m, pt, va + j) # 0
                        /\ k = n \/ uva2ka(m, pt, va + k) = 0

Word(m, pt, va) == m.ram[uva2ka(m, pt, va)][va % PGSIZE]

\* copyout(): what it could copy stays copied when it fails.
copyout(m, pt, va, words) ==
  LET Store(x, j) == [x EXCEPT !.ram[uva2ka(x, pt, va + j - 1)][(va + j - 1) % PGSIZE] = words[j]]
  IN  With(Reach(m, pt, va, Len(words)),
           LAMBDA k : [m |-> ForEach(m, 1, k, Store), ok |-> k = Len(words)])

copyin(m, pt, va, n) ==
  With(Reach(m, pt, va, n),
       LAMBDA k : [words |-> [j \in 1 .. k |-> Word(m, pt, va + j - 1)], ok |-> k = n])

\* copyinstr(): the string at va, if its 0 comes within max words; and one that
\* does not look whether it came.
copyinstr_any(m, pt, va, max) == copyin(m, pt, va, max)
copyinstr(m, pt, va, max) ==
  LET String(c) == LET zeros == {j \in DOMAIN c.words : c.words[j] = 0}
                   IN  IF zeros = {} THEN [words |-> <<>>, ok |-> FALSE]
                       ELSE LET z == CHOOSE j \in zeros : \A k \in zeros : j <= k
                            IN  [words |-> SubSeq(c.words, 1, z - 1), ok |-> TRUE]
  IN  With(copyin(m, pt, va, max), String)
=============================================================================
