-------------------------------- MODULE Stage2 --------------------------------
(***************************************************************************)
(* From power-on of CPU 0 to the guest: the EL2 stacks, the stage-2 tables *)
(* of the guest (mmu.c), its image, bss and RAM, the UART that is passed   *)
(* through and the regions that are left unmapped so that accesses trap    *)
(* (vm.c, mmio.c, vgic.c).  Then the guest writes whatever it can reach.   *)
(*                                                                         *)
(* A page of memory is Fanout words, and a table is a page: an entry is a  *)
(* word, and so is a piece of the image.  Addresses count pages, sizes of  *)
(* the image and of the RAM count words.  No page is given back while      *)
(* this runs, so alloc_page returns the pages in order (NoneFreeBelow of   *)
(* PageAlloc) and fails when they are used up; physical memory is zero     *)
(* when the machine starts, and the allocator does not clear pages.        *)
(***************************************************************************)
EXTENDS Integers, FiniteSets

CONSTANTS
    Fanout,     \* entries of a table (512 in the code)
    PCPU_NUM,
    RamStart,   \* ram_start, where the allocator's pages begin
    MaxPages,   \* bound on RAM_PAGE_NUM
    MaxRam,     \* bound on vmcfg->ram_size, in words
    Entry,      \* vmcfg->entrypoint, as a page number
    Uart,       \* UARTBASE, likewise
    Virtio,     \* the trapped regions: base and number of pages
    Gicd,
    Gicr

Ipa == 0 .. Fanout * Fanout * Fanout * Fanout - 1
Page == RamStart .. RamStart + MaxPages - 1
Slot == 0 .. Fanout - 1

\* A region with its end in it: ipa <= ipa_base + size.
CoversEnd(r) == r.base .. r.base + r.size

\* The pages of a region: ipa_base <= ipa < ipa_base + size.
Covers(r) == r.base .. r.base + r.size - 1

Regions == {Virtio, Gicd, Gicr}

\* The pages of the largest guest.
Ram == {Entry + n \div Fanout : n \in 0 .. MaxRam - 1}

ASSUME LayoutAssumption ==
    /\ Fanout \in Nat \ {0} /\ PCPU_NUM \in Nat \ {0} /\ MaxPages \in Nat /\ MaxRam \in Nat
    /\ RamStart \in Nat /\ Entry \in Ipa /\ Ram \subseteq Ipa /\ Uart \in Ipa \ Page

\* The memory map leaves the trapped regions apart from each other, from the
\* guest's RAM and from the UART.
ASSUME RegionsApart ==
    /\ \A r \in Regions :
          /\ r.base \in Ipa /\ r.size \in Nat \ {0}
          /\ r.base .. r.base + r.size - 1 \subseteq Ipa \ (Ram \cup {Uart})
    /\ \A r, s \in Regions :
          r.base <= s.base /\ s.base < r.base + r.size => r = s

VARIABLES
    cfg,        \* this build: filesz, memsize and ramsize in words, total pages
    pc,         \* what CPU 0 does next
    nalloc,     \* pages alloc_page has handed out
    use,        \* what each page was allocated for
    mem,        \* contents of the pages
    p,          \* the loop counter of secondary_stacks_init and of create_vm
    root,       \* vm->stage2_pt
    walk,       \* pagemap in progress: [va, pa, pgt, level, ret]
    mmio_list   \* vm->mmio_list

vars == <<cfg, pc, nalloc, use, mem, p, root, walk, mmio_list>>

\* A word of memory.
Word(k, n) == [kind |-> k, n |-> n]
Zero == Word("zero", 0)

\* A physical address that is no page: 0 from ipa2pa, -1ULL from alloc_page.
None == -1

\* The use of a page as a table of a level.
Table(level) == <<"table_0", "table_1", "table_2", "table_3">>[level + 1]

NoWalk == [va |-> 0, pa |-> None, pgt |-> None, level |-> 0, ret |-> "none"]

Use == {"free", "stack", "guest", "spis"} \cup {Table(l) : l \in 0 .. 3}
PageWalk == [va : Ipa, pa : Page \cup {None, Uart}, pgt : Page \cup {None}, level : 0 .. 3,
             ret : {"none", "image", "bss", "ram", "virtio"}]
MemWord == [kind : {"zero", "magic", "table", "leaf", "image", "guest"}, n : Int]

TypeOK ==
    /\ cfg \in [filesz : 1 .. MaxRam, memsize : 1 .. MaxRam, ramsize : 1 .. MaxRam,
                total : 0 .. MaxPages]
    /\ pc \in {"stacks", "root", "image", "bss", "ram", "uart", "walk", "virtio", "spis",
               "gicd", "gicr", "ready", "guest", "hang", "panic"}
    /\ nalloc \in 0 .. cfg.total
    /\ use \in [Page -> Use]
    /\ mem \in [Page -> [Slot -> MemWord]]
    /\ p \in Nat
    /\ root \in Page \cup {None}
    /\ walk \in PageWalk
    /\ mmio_list \subseteq Regions

\* Any guest that fits its RAM, any amount of memory.
Init ==
    /\ cfg \in [filesz : 1 .. MaxRam, memsize : 1 .. MaxRam, ramsize : 1 .. MaxRam,
                total : 0 .. MaxPages]
    /\ cfg.filesz <= cfg.memsize /\ cfg.memsize <= cfg.ramsize
    /\ pc = "stacks"
    /\ nalloc = 0
    /\ use = [q \in Page |-> "free"]
    /\ mem = [q \in Page |-> [s \in Slot |-> Zero]]
    /\ p = 1
    /\ root = None
    /\ walk = NoWalk
    /\ mmio_list = {}
-----------------------------------------------------------------------------
(* alloc_page                                                              *)

Exhausted == nalloc >= cfg.total

\* The page alloc_page returns next.
NewPage == RamStart + nalloc

\* The page is not taken out of the free ones.
AllocKeeps(u) ==
    /\ ~Exhausted
    /\ nalloc' = nalloc
    /\ use' = [use EXCEPT ![NewPage] = u]

\* The lowest free page, for u.
Alloc(u) ==
    /\ ~Exhausted
    /\ nalloc' = nalloc + 1
    /\ use' = [use EXCEPT ![NewPage] = u]

\* alloc_page returned -1ULL, which no caller takes for a failure, and the
\* first access through it faults at EL2: el2_sync_handler never returns.
AllocFault ==
    /\ Exhausted
    /\ pc' = "hang"
    /\ UNCHANGED <<cfg, nalloc, use, mem, p, root, walk, mmio_list>>
-----------------------------------------------------------------------------
(* secondary_stacks_init and the start of create_vm                        *)

\* A stack is one page with its canary in the lowest word.
SecondaryStack ==
    /\ pc = "stacks" /\ p < PCPU_NUM
    /\ Alloc("stack")
    /\ mem' = [mem EXCEPT ![NewPage][0] = Word("magic", p)]
    /\ p' = p + 1
    /\ UNCHANGED <<cfg, pc, root, walk, mmio_list>>

StacksDone ==
    /\ pc = "stacks" /\ p = PCPU_NUM
    /\ pc' = "root"
    /\ UNCHANGED <<cfg, nalloc, use, mem, p, root, walk, mmio_list>>

AllocRoot ==
    /\ pc = "root"
    /\ Alloc(Table(0))
    /\ root' = NewPage
    /\ p' = 0
    /\ pc' = "image"
    /\ UNCHANGED <<cfg, mem, walk, mmio_list>>
-----------------------------------------------------------------------------
(* pagewalk and pagemap                                                    *)

\* The pages below an entry of a table of each level.
Span == <<Fanout * Fanout * Fanout, Fanout * Fanout, Fanout, 1>>

\* PIDX
PIdx(level, va) == (va \div Span[level + 1]) % Fanout

\* pagemap(stage2_pt, va, pa, ...), to go on at ret.
PageMap(va, pa, ret) ==
    /\ pc' = "walk"
    /\ walk' = [va |-> va, pa |-> pa, pgt |-> root, level |-> 0, ret |-> ret]

Pte == mem[walk.pgt][PIdx(walk.level, walk.va)]

WalkDown ==
    /\ pc = "walk" /\ walk.level < 3
    /\ Pte.kind = "table"
    /\ walk' = [walk EXCEPT !.pgt = Pte.n, !.level = @ + 1]
    /\ UNCHANGED <<cfg, pc, nalloc, use, mem, p, root, mmio_list>>

\* A new table also where there is one.
WalkAllocAlways ==
    /\ pc = "walk" /\ walk.level < 3
    /\ Alloc(Table(walk.level + 1))
    /\ mem' = [mem EXCEPT ![walk.pgt][PIdx(walk.level, walk.va)] = Word("table", NewPage)]
    /\ walk' = [walk EXCEPT !.pgt = NewPage, !.level = @ + 1]
    /\ UNCHANGED <<cfg, pc, p, root, mmio_list>>

\* The new table is linked but not cleared.
WalkAlloc ==
    /\ pc = "walk" /\ walk.level < 3
    /\ Pte.kind # "table"
    /\ Alloc(Table(walk.level + 1))
    /\ mem' = [mem EXCEPT ![walk.pgt][PIdx(walk.level, walk.va)] = Word("table", NewPage)]
    /\ walk' = [walk EXCEPT !.pgt = NewPage, !.level = @ + 1]
    /\ UNCHANGED <<cfg, pc, p, root, mmio_list>>

\* The leaf entry, unless it is in use ("this entry has been used").
MapLeaf ==
    /\ pc = "walk" /\ walk.level = 3
    /\ Pte.kind # "leaf"
    /\ mem' = [mem EXCEPT ![walk.pgt][PIdx(3, walk.va)] = Word("leaf", walk.pa)]
    /\ pc' = walk.ret
    /\ UNCHANGED <<cfg, nalloc, use, p, root, walk, mmio_list>>

WalkFault ==
    /\ pc = "walk" /\ walk.level < 3 /\ Pte.kind # "table"
    /\ AllocFault

\* pagewalk(pgt, va, 0) below a table: the table an entry points to.
Below(t, level, va) ==
    IF t # None /\ mem[t][PIdx(level, va)].kind = "table" THEN mem[t][PIdx(level, va)].n ELSE None

LeafTable(va) == Below(Below(Below(root, 0, va), 1, va), 2, va)

\* ipa2pa, and what the hardware walk finds.
Translate(va) ==
    LET t == LeafTable(va)
    IN IF t # None /\ mem[t][PIdx(3, va)].kind = "leaf" THEN mem[t][PIdx(3, va)].n ELSE None
-----------------------------------------------------------------------------
(* The loops of create_vm over the guest's memory                          *)

\* The whole page, beyond the end of the image.
CopyWholePage == [s \in Slot |-> Word("image", p + s)]

\* memcpy of the rest of the image, at most a page of it.
CopyImage ==
    [s \in Slot |-> IF p + s < cfg.filesz THEN Word("image", p + s) ELSE mem[NewPage][s]]

ImagePage ==
    /\ pc = "image" /\ p < cfg.filesz
    /\ Alloc("guest")
    /\ mem' = [mem EXCEPT ![NewPage] = CopyImage]
    /\ PageMap(Entry + p \div Fanout, NewPage, "image")
    /\ p' = p + Fanout
    /\ UNCHANGED <<cfg, root, mmio_list>>

BssPage ==
    /\ pc = "bss" /\ p < cfg.memsize
    /\ Alloc("guest")
    /\ mem' = [mem EXCEPT ![NewPage] = [s \in Slot |-> Zero]]
    /\ PageMap(Entry + p \div Fanout, NewPage, "bss")
    /\ p' = p + Fanout
    /\ UNCHANGED <<cfg, root, mmio_list>>

RamPage ==
    /\ pc = "ram" /\ p < cfg.ramsize
    /\ Alloc("guest")
    /\ PageMap(Entry + p \div Fanout, NewPage, "ram")
    /\ p' = p + Fanout
    /\ UNCHANGED <<cfg, mem, root, mmio_list>>

\* The three loops hand on p, so that one starts where the other stopped.
LoopDone(loop, limit, next) ==
    /\ pc = loop /\ p >= limit
    /\ pc' = next
    /\ UNCHANGED <<cfg, nalloc, use, mem, p, root, walk, mmio_list>>

\* memcpy and memset fault on the address -1; pagemap finds it unaligned.
LoopFault ==
    \/ /\ \/ pc = "image" /\ p < cfg.filesz
          \/ pc = "bss" /\ p < cfg.memsize
       /\ AllocFault
    \/ /\ pc = "ram" /\ p < cfg.ramsize
       /\ Exhausted
       /\ pc' = "panic"
       /\ UNCHANGED <<cfg, nalloc, use, mem, p, root, walk, mmio_list>>

BootFault ==
    /\ pc = "stacks" /\ p < PCPU_NUM
    /\ AllocFault

\* alloc_page of stage2_pt fails: the first pagewalk through -1 faults.
RootFault ==
    /\ pc = "root"
    /\ AllocFault
-----------------------------------------------------------------------------
(* Devices                                                                 *)

MapUart ==
    /\ pc = "uart"
    /\ PageMap(Uart, Uart, "virtio")
    /\ UNCHANGED <<cfg, nalloc, use, mem, p, root, mmio_list>>

\* mmio_reg_handler; its 64 entries are more than the regions there are.
RegHandler(r) == mmio_list' = mmio_list \cup {r}

\* s2_pt_trap: were there a leaf table at the base, pageunmap would run.
Trap(here, r, next) ==
    /\ pc = here
    /\ LeafTable(r.base) = None
    /\ RegHandler(r)
    /\ pc' = next
    /\ UNCHANGED <<cfg, nalloc, use, mem, p, root, walk>>

\* new_vgic takes a page for the SPIs, and does not look whether it got one.
AllocSpis ==
    /\ pc = "spis"
    /\ \/ Alloc("spis")
       \/ Exhausted /\ UNCHANGED <<nalloc, use>>
    /\ pc' = "gicd"
    /\ UNCHANGED <<cfg, mem, p, root, walk, mmio_list>>

EnterGuest ==
    /\ pc = "ready"
    /\ pc' = "guest"
    /\ UNCHANGED <<cfg, nalloc, use, mem, p, root, walk, mmio_list>>

\* The guest, or virtio_dev.c on its behalf, stores a word.
GuestWrite(va) ==
    /\ pc = "guest"
    /\ Translate(va) \in Page
    /\ \E s \in Slot : mem' = [mem EXCEPT ![Translate(va)][s] = Word("guest", 0)]
    /\ UNCHANGED <<cfg, pc, nalloc, use, p, root, walk, mmio_list>>

\* el2_sync_handler and panic do not return.
Stopped ==
    /\ pc \in {"hang", "panic"}
    /\ UNCHANGED vars

Boot ==
    \/ SecondaryStack \/ StacksDone \/ AllocRoot
    \/ ImagePage \/ LoopDone("image", cfg.filesz, "bss")
    \/ BssPage \/ LoopDone("bss", cfg.memsize, "ram")
    \/ RamPage \/ LoopDone("ram", cfg.ramsize, "uart")
    \/ WalkDown \/ WalkAlloc \/ MapLeaf
    \/ MapUart
    \/ Trap("virtio", Virtio, "spis")
    \/ AllocSpis
    \/ Trap("gicd", Gicd, "gicr")
    \/ Trap("gicr", Gicr, "ready")
    \/ EnterGuest

Fault == BootFault \/ RootFault \/ LoopFault \/ WalkFault \/ Stopped

Next == Boot \/ Fault \/ \E va \in Ipa : GuestWrite(va)

Spec == Init /\ [][Next]_vars
-----------------------------------------------------------------------------
\* A page the guest can reach was allocated for the guest: it is no stage-2
\* table, no EL2 stack and not vgic->spis, and no two guest pages share it.
GuestIsolated ==
    \A v \in Ipa : Translate(v) \in Page =>
        /\ use[Translate(v)] = "guest"
        /\ \A w \in Ipa : w # v => Translate(w) # Translate(v)

\* When the guest is entered it finds its image at the entry point, zeros up to
\* its memory size, its RAM and the UART mapped, and nothing else.
ImageLoaded ==
    pc = "ready" =>
        /\ \A n \in 0 .. cfg.memsize - 1 :
              mem[Translate(Entry + n \div Fanout)][n % Fanout] =
                  IF n < cfg.filesz THEN Word("image", n) ELSE Zero
        /\ {v \in Ipa : Translate(v) # None} =
              {Uart} \cup {Entry + n \div Fanout : n \in 0 .. cfg.ramsize - 1}

\* Every access to a region that was registered with mmio_reg_handler traps,
\* the last page of the region included, and no other region claims it.
TrapsUnmapped ==
    pc \in {"ready", "guest"} =>
        /\ mmio_list = Regions
        /\ \A r \in mmio_list : \A v \in Covers(r) :
              /\ Translate(v) = None
              /\ \A s \in mmio_list : v \in Covers(s) => s = r

Map == INSTANCE AddressMap WITH
           Memory <- Page, Device <- {Uart}, map <- [v \in Ipa |-> Translate(v)]

\* Building the tables adds one translation at a time and changes none, and
\* nothing the guest writes changes one.
ImplementsAddressMap == Map!Spec
==============================================================================
