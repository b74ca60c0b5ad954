# TLA+ specification of hyper_poc

hyper_poc is a type-1 hypervisor for Armv8 (EL2) that boots one guest, a port
of xv6, on four CPUs. This directory models the parts of it whose
correctness depends on order, on several CPUs or on what the hardware does in
between, checks them with TLC on small instances, and proves the most important
results with TLAPS for every value of the constants. `PROJECT.json` lists the
components, the runs, the mapping from definitions to source lines, the hazards
and the theorems. Paths below are relative to `src/`, the repository.

## 1. The system

| part | code | state | operations |
|---|---|---|---|
| ticket spinlock | `include/spinlock.h` | `ticket`, `next`, exclusive monitor, event register | `spin_lock`, `spin_unlock` |
| page allocator | `src/page_alloc.c` | bitmap, `last_alloc` | `alloc_pages`, `free_pages` |
| EL2 stacks | `src/sp_init.c` | one page and a canary per secondary CPU | `secondary_stacks_init`, `sp_canary_check` |
| VM creation, stage-2 | `src/vm.c`, `src/mmu.c` | page tables, guest pages | `create_vm`, `pagemap`, `ipa2pa`, `s2_pt_trap` |
| MMIO dispatch | `src/mmio.c` | list of trapped regions | `mmio_reg_handler`, `mmio_emulate` |
| virtual CPUs, PSCI, traps | `src/vcpu.c`, `src/psci.c`, `src/trap.c`, `src/init.c` | vcpu pool, saved registers, `TPIDR_EL2` | `new_vcpu`, `enter_vcpu`, `psci_cpu_on`, `lower_el_sync_handler` |
| emulated GIC | `src/vgic.c`, `src/gic_v3.c` | the state the guest reads, and the real GIC | `vgicd_mmio_write`, `vgicr_mmio_write` |
| interrupt injection | `src/trap.c`, `src/vgic.c`, `src/gic_v3.c` | list registers, `used_lr`, pending and active | `lower_el_irq_handler`, `vgic_inject_virq` |
| virtio-blk backend, ramdisk | `src/virtio_dev.c`, `src/ramdisk.c` | rings in guest memory, `g_vq` | `virtio_blk_req_handler` |
| guest disk driver | `guest/xv6/kernel/virtio_disk.c` | descriptors, `disk` | `virtio_disk_rw`, `virtio_disk_intr` |
| UART, passed through | `guest/xv6/kernel/uart.c`, `src/uart.c` | device registers, `uart_tx_buf` | `uartputc`, `uartintr`, `uartputc_sync`, both inits |
| xv6 processes | `guest/xv6/kernel/proc.c`, `trap.c` | process table, CPUs, sleep channels | `fork`, `exit`, `wait`, `kill`, `sleep`, `wakeup`, `scheduler` |
| xv6 pipes, console | `pipe.c`, `console.c`, `file.c` | ring and counters, line buffer, open files | `pipewrite`, `piperead`, `pipeclose`, `consoleintr`, `consoleread` |
| xv6 log, buffer cache | `log.c`, `bio.c` | log header, buffers and pins, the disk | `begin_op`, `log_write`, `end_op`, recovery |
| xv6 file system | `fs.c`, `sysfile.c`, `file.c`, `mkfs/mkfs.c` | bitmap, inodes, directories, inode table | `namex`, `create`, `link`, `unlink`, `open`, `read`, `write`, `mkfs` |
| xv6 memory | `vm.c`, `kalloc.c`, `exec.c`, `proc.c` | RAM, free list, page tables | `walk`, `uvmalloc`, `uvmcopy`, `copyin`, `copyout`, `sbrk`, `exec` |
| user programs, tests | `guest/xv6/user` | what they have called so far | scripts of system calls with the results they accept |
| timer, printing, dumps | `src/timer.c`, `src/printf.c`, ... | none shared | see section 8 |

How they meet. In the hypervisor, the allocator feeds the stacks, the tables and the guest's
pages; an unmapped region turns a guest access into a data abort, which
`mmio_emulate` hands to the virtio backend or to the emulated GIC; the backend
translates guest addresses through the stage-2 tables, takes a ticket lock and
signals completion through the physical GIC; the interrupt comes back as a trap
and is put in a list register; the guest's end of interrupt deactivates it. In
the guest, the file system calls run inside the log's transactions, the log
writes through the buffer cache, and the cache through the disk driver; each of
these three steps is a module above the promise of the one below
(`AtomicDisk`, `BlockDevice`).

What is hard here: two CPUs in one handler; an interrupt that arrives while the
previous one is active; free-running 16- and 32-bit indices that wrap; pages,
list registers and descriptors that run out; state of another virtual CPU
written without a lock; a device that belongs to the guest and is initialised
again by the hypervisor; sleep and wake-up; a power failure between two disk
writes; a call that runs out of something half way. Section 5 says which
property looks at which.

## 2. Plan

In order of importance, with what is done:

1. `TicketLock` under everything: implements `FifoLock`. Done, proved.
2. `VirtioBlk`: the longest path through the system; implements `BlockDevice`.
   Done; safety and the refinement proved.
3. `VgicLr`: delivery of interrupts. Done, safety proved.
4. `PageAlloc`, then `Stage2` (which relies on it); implements `AddressMap`.
   Done, proved.
5. `VcpuBoot`: virtual CPUs, PSCI and traps. Done, safety proved.
6. `VgicMmio`: the emulated GIC against the real one. Done, safety proved.
7. `Uart`: the device two owners initialise. Done, model-checked.

8. `Log` over `BufCache`: group commit with a crash between any two block
   writes; implements `AtomicDisk`. Done; the refinement and the log's own
   panics proved.
9. `Proc`, `Pipe`, `ConsoleInput`: sleep and wake-up, fork, exit, wait and kill
   under `Programs`, the user programs that use them. Done, model-checked.
10. `FsImage`, `FsCalls`: the file system and its calls on an atomic disk, under
    `FsTests`. Done, model-checked.
11. `PageTable`, `VmCalls`, `VmProc`: the guest's memory under `VmTests`. Done,
    model-checked.

Next, in this order:

12. Proofs about the rest of the guest: `OneCpuPerProcess` of `Proc`.
13. The numeric helpers of `timer.c` (`muldiv64`) against a reference.
14. Queue set-up in `VirtioBlk`, and the host's own interrupts.

Modules are written without recursive operators, with named assumptions on
their constants, so that each can be proved about; only `PageTable`, whose walks
and frees follow the depth of a table, has recursive operators and is for TLC
alone.

## 3. Modules

A module named `MC...` instantiates the module of that name for TLC; a module
named `...Proofs` holds its theorems. In each module, the operators that differ
from the next definition by a fault (a dropped guard, an index off by one) are
used only to see that the properties notice it.

**TicketLock, FifoLock.** One step per exclusive load, store, `wfe` and `sev`.
`mine` is the register with the ticket, `monitor` the exclusive monitor armed by
`ldaxr`, `event` the event register. `StoreFails` is the `stxr` that fails
because the monitor was cleared in between, and `Wfe` returns when an event is there. Counters
are reduced modulo `Mod`, 2^32 in the code. `FifoLock` is a queue without
tickets: CPUs arrive, and the first to have arrived gets the lock.

**VirtioBlk, BlockDevice.** `pc` follows a guest process through
`virtio_disk_rw`, the NOTIFY trap and back. Guest side: `AcquireDisk`,
`AllocFails`, `Format`, `Publish`, `SleepOnBuf`, `FreeChain`. Hypervisor side:
`LockQueue`, `Serve` (walk the chain, `RamdiskRw`, write the
status), `PutUsed`, `BumpUsed`, `AdvanceAvail`, `UnlockQueue`, `Signal`. Interrupt:
`InjectIrq`, `TakeIrq`, `IntrAcquire`, `IntrComplete`, `IntrRelease`, `IntrEoi`.
The part between two lock operations that other CPUs cannot see is one step; the
used element and its index, which they can see, are two. `BlockDevice` says what
a file system expects: a request is applied once, to its block, before it
returns.

**VgicLr.** The GIC's pending and active sets for one CPU, the list registers,
and `used_lr`. `EnterEl2` is the trap with `vgic_used_lr_update`; `Forward` reads
IAR, drops the priority and injects; `ForwardSpurious` is the same with 1023,
when the line was withdrawn in between. `GuestAck`, `GuestEoi` and
`GuestIgnores` are the guest's `devintr`. Each CPU has its own copy of all this.

**PageAlloc.** `Runs` is the closed form of `__find_free_range`, in the order in
which its two loops visit the pages; `MCPageAlloc` writes the loops out.

**Stage2, AddressMap.** From the stacks of the secondary CPUs to the guest's
first instruction. `PageMap`, `WalkDown`, `WalkAlloc` and `MapLeaf` are
`pagemap` over `pagewalk`, a level at a time; `ImagePage`, `BssPage` and
`RamPage` the three loops of `create_vm`; `Trap` is `s2_pt_trap`. Afterwards
`GuestWrite` lets the guest write any page it can reach. Failure of `alloc_page`
can happen at each call. `AddressMap` is a map from guest pages to pages that
only grows.

**VcpuBoot.** The pool of virtual CPUs and what each CPU does, from off to the
guest. `CpuOnEntry`, `CpuOnReady` and `CpuOnSmc` are the three effects of
`psci_cpu_on` in their order, visible to the other CPU one by one. The
hardware's choice of return address for each trap is in `TrapWith`.

**VgicMmio.** What the guest reads (`en`, `prio`, `target`, ...) and what the
GIC does (`gicd`, `gicr`, `router`), changed by each register write. `FarIds` are
the interrupt numbers `vgicr_mmio_write` computes for redistributors other than
the first, and `spiprio` extends over the memory they lead to.

**Uart.** The PL011 as a FIFO with mask and raw status, `uartputc`,
`uartstart`, `uartintr` and `uartputc_sync` of the guest, and the register writes
of both init functions in order. Bytes are numbered as they enter the buffer;
those of `uartputc_sync` are 0.

**Log, BufCache, AtomicDisk.** `BufCache` is `bio.c` as functions on a cache: the
LRU list, reference counts, pins. `Log` adds processes that call `begin_op`,
modify home blocks through `log_write`, some twice, and call `end_op`; the last one
runs `write_log`, `WriteHead`, `Install` and `ClearHead`. A round of the loops of
`write_log` and `install_trans` takes two steps. `GetLogBlock` is the `bread` of the log
block, after which the process holds it. The second step has the rest of the round:
the home block is pinned, so its `bread` takes no buffer and reads nothing, and the
copy, the one disk write and the releases happen under the sleep locks of both
buffers. In between a reader meets the cache with the log block in use and the
home blocks pinned.
`Crash` keeps the disk and nothing else, and `Recover` is `recover_from_log`,
which a second crash may interrupt. The refinement reads `durable` off the disk
as a reboot would: blocks named in the header come from the log, others
from their home.

**Proc, Pipe, ConsoleInput, Programs.** A step is a critical section: from one
`acquire` to its `release` or to the next `acquire`. `lock` has the lock of a
condition from the check to `sleep`, `locked` the processes whose `p->lock` is
held on the way into the scheduler, so that both halves of the sleep and wake-up
protocol are visible. `fork` takes three steps, as it drops the child's lock
twice. `Pipe` has the ring with counters modulo `WRAP`, and the open files;
`ConsoleInput` the line buffer between `consoleintr` and `consoleread`.
`Programs` holds `init`, the shell, `echo`, `cat`, `kill`, `zombie`, `forktest`
and the process tests of `usertests`, as sequences of calls with the results after
which the program goes on. `ReadLine` is `gets`.

**FsImage, FsCalls, FsTests.** `FsImage` has `balloc`, `bmap`, `writei`,
`readi`, `itrunc`, `ialloc`, `dirlookup`, `dirlink` and `mkfs` as functions from image
to image. `FsCalls` has the calls: `namex` a directory a step, with the lock
dropped before the next is taken; `iput`, which frees an inode without a name;
`Create`, `LinkCount` / `LinkMake` / `LinkBad`, `UnlinkDir` / `Unlink`, `Chdir`,
`filewrite` a transaction a step, `fork` and `exit` as far as files go. `fs` is
what the running system sees and `dsk` what a crash leaves, by the promise of
`AtomicDisk`: `dsk` becomes `fs` when the last open transaction ends. `FsTests` has
the file system tests and commands, and `Crash`, after which `init` runs on what
is left.

**PageTable, VmCalls, VmProc, VmTests.** `PageTable` is `kalloc.c` and `vm.c` on a
RAM of pages of words, where a word is a byte, a link of the free list or an
entry of a table, and freed and allocated pages hold the junk that `kfree` and
`kalloc` write. `VmCalls` and `VmProc` have the calls, with one step for each turn of a
loop that allocates, so that two processes share out the last pages in every
way. The panics of `loadseg` and `uvmcopy` and a file that is shorter than its header
says are among them. `Booted` is the memory part of `main`. `VmTests` has the memory tests.

## 4. Runs

| run | asks | instance |
|---|---|---|
| `ticket_lock` | one holder, in ticket order, every ticket served | 3 CPUs, tickets modulo 4 |
| `virtio_blk` | chains stay whole; driver, rings, handler, ramdisk and interrupt are a block device; every request returns | 2 processes, rings of 5 and of 6 descriptors, indices modulo 30 from 29, a CPU that notifies with nothing new |
| `vgic_lr` | what a list register holds is not lost or duplicated; an interrupt is dropped only when none is free; the others are served | 3 interrupts, each raised twice, 2 list registers, one line that may be withdrawn |
| `page_alloc` | one owner a page, failure only when full, search equals the loops | 7 pages |
| `stage2` | the guest reaches its own pages only, finds its image, traps where it should | tables of 2 entries, every image, bss and RAM size up to 5 words, every amount of memory up to 14 pages |
| `vcpu_boot` | own virtual CPU, right return address, no panic but for what the guest asks and nobody serves, CPUs come up | 3 CPUs, 4 traps each |
| `vgic_mmio` | what reads as enabled is forwarded; a CPU's banked state is untouched until it is up | 2 CPUs, one PPI, one SPI |
| `uart` | order and loss in the transmit path | 2 writers, 5 bytes, buffer and FIFO of 2, a key, a secondary CPU, a CPU in `uartputc_sync` |
| `log` | no panic for want of log space or buffers, calls atomic across a crash, every call returns | 2 processes, 3 calls of a block, 4 home blocks, log of 3 data blocks, 4 buffers, a block logged twice, a read, 2 crashes |
| `proc` | one CPU a process, programs see what they accept, descriptors and pipe ends exact, commands end | 6 slots, 2 CPUs, 17 programs, one preemption, pipe of 2 bytes with counters modulo 4, 2 open pipe ends, line buffer of 4 |
| `fs` | image consistent in memory and after a crash, references exact, tests pass, calls fit the log, no deadlock of inode locks | 32 scripts, 3 processes, 13 inodes, 20 blocks of 2 units, 4 direct and 2 indirect blocks, 5 in-memory inodes, 4 files, a crash |
| `vm` | every page has one holder, spaces map what their size says, tests pass | 36 scripts, 3 processes, pages of 8 words, 40 pages behind the kernel, three levels of tables |

Why the bounds are enough. Tickets modulo 4 for 3 CPUs are as few as
the assumption allows, and wrap every few acquisitions. The
virtio indices start one short of the wrap and cross it in every behaviour; a
ring of 5 holds one request and not two, so `alloc3_desc` fails with a part of
its descriptors taken, and one of 6 holds both. Two list registers for three
interrupts run out. Seven pages have a first, a last and inner pages on both
sides of `last_alloc`. In `stage2` two entries to a table make every walk allocate at
every level, and the sizes cover an image that ends in the middle of a page and
each order of the loops' ends. Three CPUs let one be started while another
traps. In `uart` both buffers are full in many states. In `log` there are
more home blocks than the log can hold and more blocks to cache than buffers: the log
of 3 data blocks admits two calls that reserve 2 and no third, and 4 buffers are as few
as two pinned blocks, a reader's and the log block of the commit need. With one call
more admitted `log_write` panics, and with one buffer fewer, or a pin not taken back,
`bget` does. `Calls` says which process may make the first, the second and the third
call, and to write what: two calls that share a transaction, on the same block or not,
then one that writes nothing or a third block; a block is written a second time once
(`MaxAgain`), and `Reads` are a block that is written and one that never is. Of the
two crashes the second may interrupt the recovery from the first. In `proc` the process table,
the descriptors, the pipe and the line buffer all fill up, and the pipe's counters wrap; two CPUs interleave critical
sections in any order, and the preemption may come wherever no lock is held.
In `fs` a file reaches `MAXFILE`, writes take more than one transaction, and the
file table fills up. `MAXOPBLOCKS` is 6, the smallest value for which
`filewrite`'s formula gives a chunk. In `vm` the scripts `execout...` and `full_memory`
run out of memory at different allocations of `exec`, `fork` and `sbrk`.
Loop counts and sizes of the tests are scaled to these instances.

Deadlock is checked in `ticket_lock`, `page_alloc`, `stage2`, `fs` and `vm`; in the
last two `End` is the one state in which the system may stay, so a test that
hangs is an error. The other models stop when their bounds on requests,
interrupts, traps, bytes or calls are used up, or when the shell waits for input.

Fairness. `ticket_lock`: a CPU inside `spin_lock` or `spin_unlock` goes on,
since nothing preempts EL2 and critical sections are finite; whether a CPU asks
for the lock is left open. `virtio_blk`: a CPU at EL2 runs its handler
to the end with interrupts masked; the queue lock is strongly fair, which is
what `TicketServed` shows; guest processes are scheduled, and CPU 0 does not
keep its interrupts masked. `vgic_lr`: the CPU takes a signalled interrupt, and
the guest goes on. `vcpu_boot`: EL2 code is not descheduled, and firmware starts
a CPU it was asked for; the guest need not trap, nor ask. The CPU that
notifies does so a bounded number of times: without end, the guest's own
`vdisk_lock`, which is not first come, first served, could starve a process.
`log`: each process that is not asleep runs on (`Run`), and the first one recovers;
calls, reads and crashes need not come. `proc`: each
process gets a CPU that stays free for it and goes on (`scheduler` scans the whole
table), the clock ticks and the user types what the script has; preemption is
possible but not fair, so commands with a process that computes for ever or waits
for input that never comes (`Endless`) are left out of `CommandEnds`.

## 5. Properties and hazards

The hazards, with the lines they are at, are in `PROJECT.json`. In short:

- *Two CPUs in one handler*: `CompletionsValid`, `ImplementsBlockDevice`;
  underneath, `ImplementsFifoLock`.
- *Lost wake-ups and interrupts*: `TicketServed` (an unlock between the check of
  `next` and `wfe`), `InterruptOnItsWay` (a completion signalled while the last
  one is active), `RequestCompletes`, `RaisedIsServed`; in the guest `CommandEnds`
  (`sleep` against `wakeup`, `wait` against `exit`) and `CallReturns`.
- *Power failure*: `ImplementsAtomicDisk` for the log, `FsConsistent` for the tree
  it protects.
- *Stale state*: `NoLrOverwritten` for `used_lr`, `FailsOnlyWhenFull` for
  `last_alloc`; `TestsPass` and `RefsExact` for what `namex`, `create` and `iput`
  found before they let a lock go; `OneCpuPerProcess` for a zombie that is still
  on its stack.
- *Resources that run out*: `ChainIntact`, `LostOnlyWhenFull`, `HandedOutOnce`,
  `FailsOnlyWhenFull`, `GuestIsolated`; log blocks and buffers (`NoPanic`,
  `OpFits`), which run out if `begin_op` admits one call too many; descriptors and files (`FileRefsExact`, `RefsExact`); pages
  (`PagesAccounted`, `MapsMatchSize`).
- *Wrap-around and off-by-one*: the indices of rings and tickets, the seam of the
  page search (`SearchIsExact`), the last page of the image (`ImageLoaded`), the
  end of a region (`TrapsUnmapped`), the pipe's counters (`ProgramsPass`), sizes
  that are no whole pages, the end of a string and of the stack (`VmTestsPass`).
- *Everyone waiting for everyone*: `LocksLead` for inode locks, `CommandEnds` for
  pipes.
- *Another CPU's state*: `OwnVcpu`, `ResumesNext`, `NoPanic`, `BankedUntilUp`.
  `NoPanic` of `VcpuBoot` allows a panic for what the CPU's own guest did, an access
  that no region emulates, a class without handler, a call that is not known, and
  none for the order in which CPUs come up.
- *Two owners of a device*: `OutputInOrder`.

Smaller ones that the same properties reach: a line withdrawn before IAR is read,
a driver that sleeps after its request was served, a handler's nonzero result,
a full transmit ring, a second call that begins during a commit, a child seen
half made by `kill`, a pipe freed under a reader, a writer killed with bytes in the
pipe, a full line buffer, an end of file behind a partial line, offsets that
parent and child share, the first indirect block, no descriptor left after
`create`, `freewalk` on tables with leaves, a bad status address in `wait`, and a
read whose copy to the user fails after it took the byte.

Hazards of the code that no property covers: the ring that is set up a second
time (the guest does so once), rings across pages that are not neighbours in
memory, redistributor priorities of other CPUs, interrupts cleared after they are
handled (`uart.c`), a file unlinked while open at a crash, a root directory of
whole blocks, and user addresses above the user half that `walk` masks to a mapped
page. Each has its reason in section 7 or 8.

## 6. Theorems

All are proved for every value of the constants that the named assumptions
allow.

**TicketLockProofs** (assumption `TicketsSuffice`: fewer CPUs than tickets).
`MutualExclusion` is not inductive: it does not say which tickets are out. The
invariant `QueueInv` does: the tickets in use are pairwise different, lie in the
interval from `next` up to `ticket`, as many as CPUs queue, and a holder's ticket
is `next`. Distance modulo `Mod` replaces order, and the lemmas on `Dist` carry
the proof through wrap-around. From it follow `TypeCorrect`, `Exclusion` and
`Refinement`: every step is a step of `FifoLock` or none.

**VgicProofs** holds the theorems of both parts of the emulated GIC. For `VgicLr`
(`LrAssumption`), `LrInv` adds to the types that `used_lr` covers
the list registers in use and that what they carry is active and carried once.
`TypeCorrect`, `LiveIsCovered`, `CarriedOnce` and the action properties
`LrNotOverwritten` and `LossMeansFull` follow for any number of list registers,
also when they run out and lines are withdrawn. `LossMeansFull` also needs `FreshInv`: between the
trap and the acknowledge `used_lr` is exactly the registers in use (lemmas
`FreshStep`, `LossStep`). `NothingLost` needs the converse, active only if
carried, and so the condition `EnoughLrs`: at least as many list registers as
interrupts, and no line withdrawn between the trap and the acknowledge. A pigeonhole
argument on finite sets (`LrIsFree`) shows that a list register is then always
free. For `VgicMmio` (`IrqAssumption`, and that a CPU writes its own redistributor
only, as xv6 does), `OwnInv` gives `EnabledIsForwarded` and `BankedStaysBanked`.

**PageAllocProofs** (`AllocAssumption`, and requests of one page, the only
size the code asks for). `AllocInv`: the bitmap is the set of owned pages, no two
ranges overlap, and nothing below `last_alloc` is free. The last part makes the
search complete, hence `FullWhenFailed`; the first two give `PagesHandedOutOnce`.

**VcpuBootProofs** (`CpuAssumption`: at least one CPU, and a pool with a place
for each). That `psci_cpu_on` writes another virtual CPU's saved registers without
a lock is harmless only because of where that CPU is, so `BootInv` says, for every
CPU, how far it is on its way from off to the guest (`OffUntilAsked`), which state
and which saved `elr_el2` its virtual CPU has there (`StateFollows`, `ElrRight`),
that `vm->vcpus` and the pool have the same order (`PoolInOrder`), and that the
target of a CPU_ON in progress is still off (`TargetOff`). `NoPanicAlways`,
`OwnVcpuAlways` and the action property `ResumesNextAlways` follow.

**Stage2Proofs** (`LayoutAssumption` and `RegionsApart`: RAM and the devices are
addresses a four-level table reaches, and the trapped regions neither overlap nor
meet the UART or RAM). `GuestIsolated` is not inductive, since a guest that could write a
table would change what it reaches. `TreeInv` says that the tables are a tree:
an entry of a table leads to a table of the next level or, at the last, to a page of
the guest or the UART (`EntriesOk`), no page has two entries (`LinkedOnce`), there is
one root (`RootOk`), pages not yet allocated are zero (`FreeIsZero`, without which a new
table would not be empty), and a walk in progress is at the table of its level
(`WalkOk`). Two addresses with the same page then have the same four indices and are
equal (`OneWalk`, `PIdxInjective`, by division with remainder): `GuestIsolatedAlways`.
A page of the guest is not a table, so a write of the guest changes no
translation, and a new table or entry none but that of the address being mapped:
`AddressMapRefined`. `LoadInv` follows the three loops of `create_vm` by the number
of pages they have mapped, with what each page holds: `ImageLoadedAlways`.
`MappedOk` and `Registered` give `TrapsUnmappedAlways`.

**VirtioBlkProofs** (`RingAssumption`: a ring of at least three descriptors whose size
divides the range of the indices, and finitely many processes). `DiskInv` has six
parts. `LocksOk` ties the two locks to the places between
acquire and release. `ChainsOk` gives every request in flight three
descriptors that are not free and hold its block, buffer and status; two requests
cannot share one, as each descriptor leads back to its process (`ChainsApart`). `QueueOk`
is the state of both rings: some number `o` of requests is published and not yet
consumed, the first `u` of them are completed, their heads are pairwise different
and belong to waiting processes, and the one after may be in the hands of the
handler (`Window`). `StatusOk` and `IrqOk` relate the status byte and the interrupt
to these. That positions `o` apart do not fall on one slot after wrap-around is
modular arithmetic (`SlotApart`, `PosInc`, `PosShift`); that a ring never
overflows is counting (`RoomInRing`). From `DiskInv` follow `ChainIntactAlways`,
`CompletionsValidAlways` and, with `SpiOk`, `InterruptOnItsWayAlways`. In
`BlockDeviceImplemented`, `CallRw` is the call, the step of `Serve` that runs `RamdiskRw`
the effect, `FreeChain` the return, and every other step a stutter (`QuietSteps`).

**LogInvProofs, LogProofs** (`LogConstants`: the sizes are natural numbers, there are
finitely many processes, and `None` is no block, buffer or process; `WritesFit`, for
`LogNeverPanics` alone: a call writes fewer blocks than it reserves, and its share is
not the whole log). That a crash
leaves complete calls only is a statement about the disk, but it holds because of
the cache. `Inv`, the invariant of `LogInvAlways`, therefore relates three copies of
a block: what the cache shows of it (`Shown`), its place in the log and its home.
Outside the blocks the log holds (`Dirty`) the cache and the home agree (`Clean`);
a block of the log has a buffer with a reference that keeps it from being evicted
(`Pinned`); and `RefsOk` counts the references, one for each process that has the
buffer and one for `log_write`'s pin, without which `bunpin` or `brelse` could free
a buffer in use. `HoldOk` says which block that buffer has: for a process in a call
the block it is about to read or write, for the one that commits the log block of its
round. `RunOk` and `RecoverOk` say, for each stage of `commit` and of
`recover_from_log`, how far the copies have been made: the header on disk is empty
until `write_head`, and from then until `ClearHead` every log block is what the cache
shows of its home. `CallsOk` has `outstanding` count the open calls and lets one
process commit, when none is open. `LogInvProofs` proves first what `bget`, `bread`,
`bwrite`, `brelse`, `bpin` and `bunpin` do to the cache, then one lemma per action;
the states after a panic are left out (`panic \/ LogInv`), as the kernel stops.

`LogProofs` draws three results. `AtomicDiskImplemented`: the disk of `AtomicDisk` is
what recovery would leave (`RecoveredIs`), so `WriteHead`, the one write that turns an
empty header into a full one, is the abstract commit, `begin_op` and `end_op` are
`Begin` and `End`, `Modify` is the abstract write, `Crash` the abstract crash, and every
other step is `Hidden`. `LogNeverPanics`: `log_write`
finds room and its call open, also when it only comes back to a block that the log
has, and `end_op` no commit running. That a call writes fewer blocks than the
`MAXOPBLOCKS` it reserves (`WritesFit`) is what `filewrite` sees to
(`guest/xv6/kernel/file.c:155`). `SpaceInv` says that, while a call is open, the blocks
in the log and those that the open calls have still to write and the log does not
have (`Reserved`, counted as pairs of a call and a block) stay two short of `LOGSIZE`
(`Room`): one block for the header, and one because `log_write` looks for room before it
looks for the block. A second call is admitted only with a spare block for itself and
one for the first; the first one finds the log empty, since between transactions it
is (`Emptied`).

The runs check `ImplementsFifoLock`, `OneLrPerIrq`, `NoLrOverwritten`,
`LostOnlyWhenFull`, `HandedOutOnce`, `FailsOnlyWhenFull`, `ForwardedWhenEnabled`,
`BankedUntilUp` and every safety property of `VcpuBoot`, `Stage2` and `VirtioBlk` on
small instances; the inductive invariants, `MutualExclusion`, `UsedCoversLive`,
`ActiveIsCarried` (under `EnoughLrs`) and the type invariants are proved and not
checked by a run of their own.

Only model-checked: liveness (`TicketServed`, `RequestCompletes`,
`RaisedIsServed`, `CpusComeUp`, `CallReturns`, `CommandEnds`), which the prover does
not handle; the panic of `bget` when no buffer is left, the other half of the log's
`NoPanic`, since `param.h` gives the cache as many buffers as the log has blocks
and nothing bounds the processes that hold one; `OutputInOrder`, which compares
filtered sequences, and `SearchIsExact`, whose reference is a fold, as both need
induction over data; what `PageTable` computes, which has recursive operators;
and everything else about the guest kernel.

## 7. Where code and comments disagree

The models do what the code does; none of these is a run of its own.

- `VgicMmio`: `vgicr_mmio_write` computes the interrupt number from the offset in
  the whole region (`src/vgic.c:560`), so for every CPU but the first a priority
  lands behind the array of SPIs. The guest does this for each CPU, and never
  reads it.
- `Uart`: a secondary CPU's `uart_init` (`src/init.c:183`, `src/uart.c:100`)
  unmasks reception only, after the guest's `uartinit` enabled both.
- `VgicLr`: IAR 1023 is forwarded as an interrupt (`src/trap.c:305`), although
  `src/gic_v3.c:392` calls these numbers reserved. `GuestIgnores` never ends it.
- `PageAlloc`: `__find_free_range` does not reset its count between its loops
  (`src/page_alloc.c:70`), so a range of two or more pages may run past the end.
- `Stage2`: `alloc_page` fails with -1ULL (`src/page_alloc.c:100`) and its callers
  compare with NULL (`src/vm.c:83`, `src/mmu.c:15`, `src/sp_init.c:27`). The models
  stop in `el2_sync_handler` instead of in their panics.
- `Stage2`: tables are allocated between guest pages, so the page after
  `vring_pa` is the guest's next page only if none was allocated there
  (`src/virtio_dev.c:37`).
- `VcpuBoot`: PSCI_VERSION and PSCI_FEATURES are implemented (`src/psci.c:52`,
  `src/psci.c:58`), but `syscall_handler` (`src/trap.c:174`) panics on their
  32-bit ids.
- `VgicMmio`: enabling through another CPU's redistributor acts on the caller's
  (`src/gic_v3.c:341`; excluded by `CrossCpu = FALSE`), and `gic_irq_disable`
  writes ISENABLER, which disables nothing (`src/gic_v3.c:354`).
- `Uart`: `uartintr` clears interrupts after `uartstart`
  (`guest/xv6/kernel/uart.c:199`), so one raised in between is lost; and
  `uartputc_sync` writes without the lock, so it can cost a buffered byte
  (`guest/xv6/kernel/uart.c:133`), which is the allowance in `OutputInOrder`.
- `Log`: `begin_op` shares out `LOGSIZE` blocks (`guest/xv6/kernel/log.c:133`), while
  `log_write` refuses the last of `log.size`, in which `mkfs` counts the header.
  `NoPanic` and `LogNeverPanics` need calls that write less than they reserve
  (`WritesFit`).
- `FsCalls`: `iput` is to free an inode when the "last reference" goes and it has no
  links (`guest/xv6/kernel/fs.c:328`), but it looks only before it drops
  `itable.lock` to free the inode, and not again before it counts down
  (`guest/xv6/kernel/fs.c:337`, `:357`). If another process allocates the freed number,
  uses it and unlinks it in between, its own `iput` still sees the first holder and
  leaves the inode to it, and the first holder only counts down. The inode stays
  allocated without name and holder. Two children of `manywrites` reach this. `lost`
  records exactly these inodes, and `FsConsistent` excepts them and no others.
- `FsCalls`: a file that is created in a directory that was removed while it was a
  working directory has a link count of 1 and no name, although `fs.h:36` calls
  `nlink` the number of links in the file system. No program of the repository
  does this, and no script.
- `FsImage`: `mkfs` rounds the root's size up even if it is a whole number of
  blocks (`guest/xv6/mkfs/mkfs.c:167`); `RootFits` excludes that case, which the
  build does not meet.
- `PageTable`: `walkaddr` says it returns "0 if not mapped" (`vm.c:142`), but `walk`
  masks the indices (`vm.c:127`), so an address above the user half and below
  `MAXVA` finds the page of the masked address. `pgbug` and `badwrite` use such addresses
  and so do their scripts, but they mask to pages that are not mapped.

## 8. Not modelled

- Decoding of ESR and of register fields (the classes that only panic are one trap,
  `NoHandler`), emulated registers that only log, and reads of the emulated GIC (among them
  GICR_ICFGR0, whose value is computed with one bit per SGI at `src/vgic.c:458`).
- `el2_irq_handler` and the hypervisor's timer: interrupts are never enabled at
  EL2 once the guest runs. It does not deactivate what it ends
  (`src/trap.c:60`), which would matter if they were.
- Register set-up (HCR, VTCR, the GIC's groups and priorities), context save and
  restore beyond `elr_el2`, TLB maintenance, cache attributes, and weak memory:
  steps are sequentially consistent, with barriers where the code has them.
- A second CPU_ON for a CPU, a second set-up of the queue, and a guest that
  turns CPUs off: the guest in the repository does none of these.
- How deep handlers use the one-page stacks.
- In xv6: the assembly of vectors and context switch, the guest's GIC and timer
  set-up, page table registers and TLB, `printf`, and `ramdisk.c`, which is not in
  the build. `sys_open`'s check of a device's major number, the check of
  a segment's end for overflow in `exec`, and the console's echo.
- The user libraries (`ulib.c` but for `gets`, `umalloc.c`, `printf.c`), `grep` and
  `wc`, which are sequential code; the shell's parser; `grind`, an endless
  random sequence of the calls the tests make; and of `usertests` `forkfork` and
  `forkforkfork` (minutes of forks) and `fsfull` (which fills the disk
  until `balloc` panics).
- A file that is unlinked while open when the power fails stays allocated: the code
  has no recovery for it, and `FsConsistent` asks for a holder of an inode without
  a name until the first crash only.
- A `kill` between a sleeper's check of `killed` and its `sleep` is noticed at the
  next wake-up, for the console the next line typed; `CommandEnds` leaves those
  commands out.
- Printing, dumps, string functions and the build.
