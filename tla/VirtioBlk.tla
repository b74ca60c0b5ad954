------------------------------ MODULE VirtioBlk ------------------------------
(***************************************************************************)
(* The virtual disk, end to end: the guest's driver (virtio_disk.c of      *)
(* xv6), the rings it shares with the hypervisor, the QUEUE_NOTIFY handler *)
(* that serves them from the ramdisk (virtio_dev.c, ramdisk.c) and the way *)
(* of the completion interrupt, SPI 48, from the pending bit the handler   *)
(* sets to the list register of CPU 0 and to virtio_disk_intr.             *)
(*                                                                         *)
(* A process of the guest keeps the CPU it runs on while it is inside the  *)
(* NOTIFY trap, so one program counter follows it through guest code and   *)
(* EL2 code.  A kick is a QUEUE_NOTIFY write that announces no new         *)
(* request, which any virtual CPU may make at any time.                    *)
(***************************************************************************)
EXTENDS Integers, FiniteSets

CONSTANTS
    Proc,       \* processes that call virtio_disk_rw
    Kicker,     \* virtual CPUs that write QUEUE_NOTIFY with nothing new
    RingSize,   \* sizes of the rings ({8} in the code)
    IdxMod,     \* 2^16 in the code: values of the free-running u16 indices
    FSIMG_SIZE, \* blocks of the ramdisk (1000 in the code)
    Data,       \* contents of a block
    Zero,       \* what a buffer of the cache holds before its first use
    Payload,    \* what each process writes
    Image,      \* contents of the ramdisk when the behaviour begins
    Nobody,     \* no holder, no buffer
    Start,      \* requests (mod 2^16) served before the behaviour begins
    MaxReq,     \* bound: requests made in a behaviour, by the size of the rings
    MaxKick     \* bound: notifications that announce nothing

ASSUME RingAssumption ==
    /\ IdxMod \in Nat /\ IdxMod > 0
    /\ \A n \in RingSize : n \in Nat /\ n >= 3 /\ IdxMod % n = 0
    /\ FSIMG_SIZE \in Nat \ {0}
    /\ IsFiniteSet(Proc) /\ Proc \cap Kicker = {}
    /\ Nobody \notin Proc \cup Kicker /\ "intr" \notin Proc \cup {Nobody}
    /\ Zero \in Data /\ Payload \in [Proc -> Data]
    /\ Image \in [0 .. FSIMG_SIZE - 1 -> Data]
    /\ Start \in 0 .. IdxMod - 1 /\ MaxReq \in [RingSize -> Nat] /\ MaxKick \in Nat

VARIABLES
    NUM,        \* size of the rings, which QUEUE_NUM told the hypervisor
    pc,         \* of every process and kicker
    req,        \* arguments of virtio_disk_rw: direction and block
    head,       \* idx[0] of virtio_disk_rw, the head of the chain
    data,       \* b->data
    busy,       \* b->disk
    vdisk_lock, \* disk.vdisk_lock: its holder
    free,       \* disk.free
    ops,        \* disk.ops
    info,       \* disk.info
    desc,       \* the descriptor table, shared with the hypervisor
    avail,      \* the avail ring, shared: [idx, ring]
    used,       \* the used ring, shared: [idx, ring]
    used_idx,   \* disk.used_idx
    avail_idx,  \* g_vq.avail_idx of the hypervisor
    virtq_lock, \* g_vq.virtq_lock: its holder
    cur,        \* desc_idx of the handler that holds virtq_lock
    ramdisk,    \* the image the hypervisor serves
    irq,        \* SPI 48 at the GIC and its list register on CPU 0
    ipc,        \* where CPU 0 is in devintr/virtio_disk_intr
    made,       \* requests made so far (only bounds the model)
    kicks       \* notifications by kickers so far (only bounds the model)

guestVars == <<req, head, data, busy, vdisk_lock, free, ops, info, used_idx, made, kicks>>
hypVars == <<NUM, avail_idx, virtq_lock, cur, ramdisk>>
vars == <<pc, guestVars, desc, avail, used, hypVars, irq, ipc>>

Idx == 0 .. NUM - 1
Block == 0 .. FSIMG_SIZE - 1
Actor == Proc \cup Kicker
Request == [write : BOOLEAN, block : Block]
NoRequest == [write |-> FALSE, block |-> 0]

\* A descriptor's addr, as what it points to.
NullAddr == <<"null", 0>>
NoDesc == [addr |-> NullAddr, more |-> FALSE, next |-> 0]
Unserved == 255     \* status 0xff
Failed == 238       \* status 0xee

Label == {"idle", "acquire", "alloc", "free_sleep", "publish", "notify", "loop", "put_used",
          "bump_used", "advance", "signal", "await", "buf_sleep", "reacquire"}
Addr == {NullAddr} \cup {<<t, i>> : t \in {"op", "status"}, i \in Idx} \cup {<<"buf", p>> : p \in Proc}
Descriptor == [addr : Addr, more : BOOLEAN, next : Idx]
Ring == [idx : 0 .. IdxMod - 1, ring : [Idx -> Idx]]
Header == [write : BOOLEAN, sector : Nat]
Info == [b : Proc \cup {Nobody}, status : {0, Unserved, Failed}]
Spi == [pend : BOOLEAN, active : BOOLEAN, lr : {"invalid", "pending", "active"}]

TypeOK ==
    /\ NUM \in RingSize
    /\ pc \in [Actor -> Label]
    /\ req \in [Proc -> Request]
    /\ head \in [Proc -> Idx]
    /\ data \in [Proc -> Data]
    /\ busy \in [Proc -> BOOLEAN]
    /\ vdisk_lock \in Proc \cup {"intr", Nobody}
    /\ free \subseteq Idx
    /\ ops \in [Idx -> Header]
    /\ info \in [Idx -> Info]
    /\ desc \in [Idx -> Descriptor]
    /\ avail \in Ring
    /\ used \in Ring
    /\ used_idx \in 0 .. IdxMod - 1
    /\ avail_idx \in 0 .. IdxMod - 1
    /\ virtq_lock \in Actor \cup {Nobody}
    /\ cur \in Idx
    /\ ramdisk \in [Block -> Data]
    /\ irq \in Spi
    /\ ipc \in {"none", "acquire", "scan", "eoi"}
    /\ made \in 0 .. MaxReq[NUM] /\ kicks \in 0 .. MaxKick

\* After virtio_disk_init and Start requests, all of them completed: every
\* descriptor is free and the four indices agree.
Init ==
    /\ NUM \in RingSize
    /\ pc = [a \in Actor |-> "idle"]
    /\ req = [p \in Proc |-> NoRequest]
    /\ head = [p \in Proc |-> 0]
    /\ data = [p \in Proc |-> Zero]
    /\ busy = [p \in Proc |-> FALSE]
    /\ vdisk_lock = Nobody
    /\ free = Idx
    /\ ops = [i \in Idx |-> [write |-> FALSE, sector |-> 0]]
    /\ info = [i \in Idx |-> [b |-> Nobody, status |-> 0]]
    /\ desc = [i \in Idx |-> NoDesc]
    /\ avail = [idx |-> Start, ring |-> [i \in Idx |-> 0]]
    /\ used = [idx |-> Start, ring |-> [i \in Idx |-> 0]]
    /\ used_idx = Start
    /\ avail_idx = Start
    /\ virtq_lock = Nobody
    /\ cur = 0
    /\ ramdisk = Image
    /\ irq = [pend |-> FALSE, active |-> FALSE, lr |-> "invalid"]
    /\ ipc = "none"
    /\ made = 0 /\ kicks = 0

Goto(a, l) == pc' = [pc EXCEPT ![a] = l]

\* The u16 `+= 1' of the ring indices.
Inc16(i) == (i + 1) % IdxMod
-----------------------------------------------------------------------------
(* The guest's driver                                                      *)

\* free_desc that wakes nobody.
NoWakeFree(f) == f

\* wakeup(chan): every sleeper on the channel becomes runnable and will take
\* vdisk_lock again before it returns from sleep.
WakeFree(f) ==
    [a \in Actor |-> IF f[a] = "free_sleep" THEN "acquire" ELSE f[a]]

WakeBuf(f, p) ==
    IF f[p] = "buf_sleep" THEN [f EXCEPT ![p] = "reacquire"] ELSE f

\* bread/bwrite call virtio_disk_rw(b, write) with b locked, and a block has
\* one buffer: no two requests in flight are for one block.
CallRw(p) ==
    /\ pc[p] = "idle"
    /\ made < MaxReq[NUM]
    /\ made' = made + 1
    /\ \E w \in BOOLEAN, k \in Block :
          /\ \A q \in Proc \ {p} : pc[q] # "idle" => req[q].block # k
          /\ req' = [req EXCEPT ![p] = [write |-> w, block |-> k]]
          /\ data' = IF w THEN [data EXCEPT ![p] = Payload[p]] ELSE data
    /\ Goto(p, "acquire")
    /\ UNCHANGED <<kicks, head, busy, vdisk_lock, free, ops, info, used_idx,
                   desc, avail, used, hypVars, irq, ipc>>

AcquireDisk(p) ==
    /\ vdisk_lock = Nobody
    /\ \/ pc[p] = "acquire" /\ Goto(p, "alloc")
       \/ pc[p] = "reacquire" /\ Goto(p, "await")
    /\ vdisk_lock' = p
    /\ UNCHANGED <<made, kicks, req, head, data, busy, free, ops, info, used_idx,
                   desc, avail, used, hypVars, irq, ipc>>

\* alloc3_desc gives back one entry of idx[] more than it filled.
AllocFailsFreesMore(p) ==
    /\ pc[p] = "alloc"
    /\ Cardinality(free) < 3
    /\ pc' = [(IF free = {} THEN pc ELSE WakeFree(pc)) EXCEPT ![p] = "free_sleep"]
    /\ \E i \in Idx : free' = free \cup {i}
    /\ desc' = [i \in Idx |-> IF i \in free THEN NoDesc ELSE desc[i]]
    /\ vdisk_lock' = Nobody
    /\ UNCHANGED <<made, kicks, req, head, data, busy, ops, info, used_idx,
                   avail, used, hypVars, irq, ipc>>

\* alloc3_desc finds too few descriptors: those it took it gives back, which
\* wakes the sleepers on free[0], and the caller joins them.
AllocFails(p) ==
    /\ pc[p] = "alloc"
    /\ Cardinality(free) < 3
    /\ pc' = [(IF free = {} THEN pc ELSE WakeFree(pc)) EXCEPT ![p] = "free_sleep"]
    /\ desc' = [i \in Idx |-> IF i \in free THEN NoDesc ELSE desc[i]]
    /\ vdisk_lock' = Nobody
    /\ UNCHANGED <<made, kicks, req, head, data, busy, free, ops, info, used_idx,
                   avail, used, hypVars, irq, ipc>>

\* The block number taken for a sector number.
SectorIsBlock(k) == k

\* b->blockno * (BSIZE / 512)
SectorOf(k) == k * 2

\* The descriptor alloc_desc finds in S, scanning up from 0.
alloc_desc(S, i) == i \in S /\ \A d \in S : i <= d

\* alloc3_desc takes the three lowest free descriptors; the chain, the command
\* header and the ring slot are filled in before avail->idx moves.
Format(p) ==
    /\ pc[p] = "alloc"
    /\ \E i, j, k \in free :
          /\ alloc_desc(free, i)
          /\ alloc_desc(free \ {i}, j)
          /\ alloc_desc(free \ {i, j}, k)
          /\ free' = free \ {i, j, k}
          /\ head' = [head EXCEPT ![p] = i]
          /\ ops' = [ops EXCEPT ![i] = [write |-> req[p].write,
                                        sector |-> SectorOf(req[p].block)]]
          /\ desc' = [desc EXCEPT
                ![i] = [addr |-> <<"op", i>>, more |-> TRUE, next |-> j],
                ![j] = [addr |-> <<"buf", p>>, more |-> TRUE, next |-> k],
                ![k] = [addr |-> <<"status", i>>, more |-> FALSE, next |-> 0]]
          /\ info' = [info EXCEPT ![i] = [b |-> p, status |-> Unserved]]
          /\ avail' = [avail EXCEPT !.ring[avail.idx % NUM] = i]
    /\ busy' = [busy EXCEPT ![p] = TRUE]
    /\ Goto(p, "publish")
    /\ UNCHANGED <<made, kicks, req, data, vdisk_lock, used_idx, used, hypVars, irq, ipc>>

\* avail->idx += 1 between its two barriers; the NOTIFY write traps next.
Publish(p) ==
    /\ pc[p] = "publish"
    /\ avail' = [avail EXCEPT !.idx = Inc16(@)]
    /\ Goto(p, "notify")
    /\ UNCHANGED <<guestVars, desc, used, hypVars, irq, ipc>>

\* while (b->disk == 1) sleep(b, &vdisk_lock)
SleepOnBuf(p) ==
    /\ pc[p] = "await"
    /\ busy[p]
    /\ vdisk_lock' = Nobody
    /\ Goto(p, "buf_sleep")
    /\ UNCHANGED <<made, kicks, req, head, data, busy, free, ops, info, used_idx,
                   desc, avail, used, hypVars, irq, ipc>>

\* The chain free_chain walks.
Chain(i) ==
    LET j == desc[i].next
        k == desc[j].next
    IN {i} \cup (IF desc[i].more THEN {j} ELSE {})
           \cup (IF desc[i].more /\ desc[j].more THEN {k} ELSE {})

\* The request is done: free_chain gives the descriptors back and wakes the
\* processes that wait for some.  req and head are locals of the call.
FreeChain(p) ==
    /\ pc[p] = "await"
    /\ ~busy[p]
    /\ info' = [info EXCEPT ![head[p]].b = Nobody]
    /\ free' = free \cup Chain(head[p])
    /\ desc' = [i \in Idx |-> IF i \in Chain(head[p]) THEN NoDesc ELSE desc[i]]
    /\ vdisk_lock' = Nobody
    /\ pc' = [WakeFree(pc) EXCEPT ![p] = "idle"]
    /\ req' = [req EXCEPT ![p] = NoRequest]
    /\ head' = [head EXCEPT ![p] = 0]
    /\ UNCHANGED <<made, kicks, data, busy, ops, used_idx, avail, used, hypVars, irq, ipc>>
-----------------------------------------------------------------------------
(* The hypervisor: virtio_mmio_write(QUEUE_NOTIFY)                         *)

Kick(a) ==
    /\ a \in Kicker
    /\ pc[a] = "idle"
    /\ kicks < MaxKick
    /\ kicks' = kicks + 1
    /\ Goto(a, "notify")
    /\ UNCHANGED <<made, req, head, data, busy, vdisk_lock, free, ops, info,
                   used_idx, desc, avail, used, hypVars, irq, ipc>>

\* The queue served without its lock.
EnterUnlocked(a) ==
    /\ pc[a] = "notify"
    /\ virtq_lock' = a
    /\ Goto(a, "loop")
    /\ UNCHANGED <<guestVars, desc, avail, used, NUM, avail_idx, cur, ramdisk, irq, ipc>>

LockQueue(a) ==
    /\ pc[a] = "notify"
    /\ virtq_lock = Nobody
    /\ virtq_lock' = a
    /\ Goto(a, "loop")
    /\ UNCHANGED <<guestVars, desc, avail, used, NUM, avail_idx, cur, ramdisk, irq, ipc>>

\* next_desc: NUM ends the chain.
NextDesc(i) == IF desc[i].more /\ desc[i].next < NUM THEN desc[i].next ELSE NUM

\* sector / (BLOCK_SIZE / 512)
BlockOf(sector) == sector \div 2

\* ramdisk_rw copies a block from or to buffer b, and refuses one beyond the
\* image.
RamdiskRw(blk, b, is_write) ==
    LET ok == blk < FSIMG_SIZE
    IN /\ ramdisk' = IF ok /\ is_write THEN [ramdisk EXCEPT ![blk] = data[b]] ELSE ramdisk
       /\ data' = IF ok /\ ~is_write THEN [data EXCEPT ![b] = ramdisk[blk]] ELSE data

\* virtio_blk_process_desc on a chain of three: the block is copied, then the
\* status is written.
ServeChain(i, j, k) ==
    LET op == ops[desc[i].addr[2]]
        s == desc[k].addr[2]
        blk == BlockOf(op.sector)
    IN /\ RamdiskRw(blk, desc[j].addr[2], op.write)
       /\ info' = [info EXCEPT ![s].status = IF blk < FSIMG_SIZE THEN 0 ELSE Failed]

\* One turn of the while loop: fetch the head, serve the chain.  A chain of
\* another length is reported used without being served.
Serve(a) ==
    /\ pc[a] = "loop"
    /\ avail_idx # avail.idx
    /\ LET i == avail.ring[avail_idx % NUM]
           j == NextDesc(i)
           k == IF j = NUM THEN NUM ELSE NextDesc(j)
       IN /\ cur' = i
          /\ IF j # NUM /\ k # NUM /\ NextDesc(k) = NUM
             THEN ServeChain(i, j, k)
             ELSE UNCHANGED <<ramdisk, data, info>>
    /\ Goto(a, "put_used")
    /\ UNCHANGED <<made, kicks, req, head, busy, vdisk_lock, free, ops, used_idx,
                   desc, avail, used, NUM, avail_idx, virtq_lock, irq, ipc>>

PutUsed(a) ==
    /\ pc[a] = "put_used"
    /\ used' = [used EXCEPT !.ring[used.idx % NUM] = cur]
    /\ Goto(a, "bump_used")
    /\ UNCHANGED <<guestVars, desc, avail, hypVars, irq, ipc>>

BumpUsed(a) ==
    /\ pc[a] = "bump_used"
    /\ used' = [used EXCEPT !.idx = Inc16(@)]
    /\ Goto(a, "advance")
    /\ UNCHANGED <<guestVars, desc, avail, hypVars, irq, ipc>>

AdvanceAvail(a) ==
    /\ pc[a] = "advance"
    /\ avail_idx' = Inc16(avail_idx)
    /\ Goto(a, "loop")
    /\ UNCHANGED <<guestVars, desc, avail, used, NUM, virtq_lock, cur, ramdisk, irq, ipc>>

UnlockQueue(a) ==
    /\ pc[a] = "loop"
    /\ avail_idx = avail.idx
    /\ virtq_lock' = Nobody
    /\ Goto(a, "signal")
    /\ UNCHANGED <<guestVars, desc, avail, used, NUM, avail_idx, cur, ramdisk, irq, ipc>>

\* A signal that is not latched while the interrupt is active.
SignalUnlatched(a) ==
    /\ pc[a] = "signal"
    /\ irq' = [irq EXCEPT !.pend = @ \/ ~irq.active]
    /\ Goto(a, IF a \in Proc THEN "await" ELSE "idle")
    /\ UNCHANGED <<guestVars, desc, avail, used, hypVars, ipc>>

\* virtio_signal_vq sets SPI 48 pending and the trap returns to the guest.
Signal(a) ==
    /\ pc[a] = "signal"
    /\ irq' = [irq EXCEPT !.pend = TRUE]
    /\ Goto(a, IF a \in Proc THEN "await" ELSE "idle")
    /\ UNCHANGED <<guestVars, desc, avail, used, hypVars, ipc>>
-----------------------------------------------------------------------------
(* The interrupt on CPU 0                                                  *)

\* lower_el_irq_handler: acknowledge, drop the priority, inject through a list
\* register whose deactivation is tied to the physical interrupt (HW = 1).
InjectIrq ==
    /\ irq.pend /\ ~irq.active /\ irq.lr = "invalid"
    /\ irq' = [pend |-> FALSE, active |-> TRUE, lr |-> "pending"]
    /\ UNCHANGED <<pc, guestVars, desc, avail, used, hypVars, ipc>>

\* The guest's devintr reads the virtual IAR and calls virtio_disk_intr.
TakeIrq ==
    /\ ipc = "none"
    /\ irq.lr = "pending"
    /\ irq' = [irq EXCEPT !.lr = "active"]
    /\ ipc' = "acquire"
    /\ UNCHANGED <<pc, guestVars, desc, avail, used, hypVars>>

IntrAcquire ==
    /\ ipc = "acquire"
    /\ vdisk_lock = Nobody
    /\ vdisk_lock' = "intr"
    /\ ipc' = "scan"
    /\ UNCHANGED <<made, kicks, pc, req, head, data, busy, free, ops, info, used_idx,
                   desc, avail, used, hypVars, irq>>

UsedId == used.ring[used_idx % NUM]

\* One completed chain: panic("virtio_disk_intr status") unless its status is 0.
IntrComplete ==
    /\ ipc = "scan"
    /\ used_idx # used.idx
    /\ info[UsedId].status = 0
    /\ busy' = [busy EXCEPT ![info[UsedId].b] = FALSE]
    /\ pc' = WakeBuf(pc, info[UsedId].b)
    /\ used_idx' = Inc16(used_idx)
    /\ UNCHANGED <<made, kicks, req, head, data, vdisk_lock, free, ops, info,
                   desc, avail, used, hypVars, irq, ipc>>

IntrRelease ==
    /\ ipc = "scan"
    /\ used_idx = used.idx
    /\ vdisk_lock' = Nobody
    /\ ipc' = "eoi"
    /\ UNCHANGED <<made, kicks, pc, req, head, data, busy, free, ops, info, used_idx,
                   desc, avail, used, hypVars, irq>>

\* gic_eoi of the guest: the list register empties and, HW = 1, the physical
\* interrupt is deactivated with it.
IntrEoi ==
    /\ ipc = "eoi"
    /\ irq' = [irq EXCEPT !.lr = "invalid", !.active = FALSE]
    /\ ipc' = "none"
    /\ UNCHANGED <<pc, guestVars, desc, avail, used, hypVars>>
-----------------------------------------------------------------------------
Driver(p) ==
    \/ AcquireDisk(p)
    \/ AllocFails(p)
    \/ Format(p)
    \/ Publish(p)
    \/ SleepOnBuf(p)
    \/ FreeChain(p)

Notify(a) ==
    \/ LockQueue(a)
    \/ Serve(a)
    \/ PutUsed(a)
    \/ BumpUsed(a)
    \/ AdvanceAvail(a)
    \/ UnlockQueue(a)
    \/ Signal(a)

Interrupt ==
    \/ InjectIrq
    \/ TakeIrq
    \/ IntrAcquire
    \/ IntrComplete
    \/ IntrRelease
    \/ IntrEoi

Next ==
    \/ \E p \in Proc : CallRw(p) \/ Driver(p)
    \/ \E a \in Kicker : Kick(a)
    \/ \E a \in Actor : Notify(a)
    \/ Interrupt

\* A CPU in EL2 runs its handler to the end and virtq_lock is first come, first
\* served (TicketLock), so no handler waits for it for ever.  The guest's
\* processes are scheduled, and CPU 0 does not keep its interrupts masked.
Fairness ==
    /\ \A p \in Proc : WF_vars(Driver(p))
    /\ \A a \in Actor : WF_vars(Notify(a)) /\ SF_vars(LockQueue(a))
    /\ WF_vars(Interrupt)

Spec == Init /\ [][Next]_vars

FairSpec == Spec /\ Fairness
-----------------------------------------------------------------------------
InHandler == {a \in Actor : pc[a] \in {"loop", "put_used", "bump_used", "advance", "signal"}}

\* Positions of the used ring that the driver has not looked at.
NewlyUsed == {(used_idx + n) % IdxMod : n \in 0 .. ((used.idx - used_idx + IdxMod) % IdxMod) - 1}

\* Whatever virtio_blk_req_handler has put in the used ring and the driver has
\* not consumed is a request in flight, complete and reported once, so that
\* virtio_disk_intr meets status 0 and a buffer that is waited for.
CompletionsValid ==
    /\ Cardinality(NewlyUsed) <= Cardinality(Proc)
    /\ \A m, n \in NewlyUsed :
          LET i == used.ring[m % NUM]
          IN /\ info[i].status = 0
             /\ info[i].b \in Proc
             /\ busy[info[i].b] /\ head[info[i].b] = i
             /\ m # n => i # used.ring[n % NUM]

\* free_chain of the driver never meets a free descriptor ("free_desc 2"), and
\* frees the three descriptors the request was built from.
ChainIntact ==
    \A p \in Proc :
        pc[p] \in {"publish", "notify", "loop", "put_used", "bump_used", "advance",
                   "signal", "await", "buf_sleep", "reacquire"} =>
            /\ Chain(head[p]) \cap free = {}
            /\ Cardinality(Chain(head[p])) = 3
            /\ info[head[p]].b = p

\* SPI 48 is never lost: once every NOTIFY handler is back in the guest, a
\* completion the driver has not seen still has an interrupt on its way, also
\* when it was signalled while the previous one was active.
InterruptOnItsWay ==
    NewlyUsed # {} /\ InHandler = {} =>
        irq.pend \/ irq.lr = "pending" \/ ipc \in {"acquire", "scan"}

\* Where a request is, as the file system sees it: served when the hypervisor
\* has written its status.
Phase ==
    [p \in Proc |->
        IF pc[p] = "idle" THEN "idle"
        ELSE IF pc[p] \in {"acquire", "alloc", "free_sleep"} THEN "pending"
        ELSE IF info[head[p]].status = 0 THEN "applied" ELSE "pending"]

Disk == INSTANCE BlockDevice WITH
            phase <- Phase, buffer <- data, contents <- ramdisk

\* Driver, rings, handler and ramdisk together are a block device: every
\* request is applied once, to its own block and buffer, before virtio_disk_rw
\* returns.
ImplementsBlockDevice == Disk!Spec

\* virtio_disk_rw returns: the request is served, its completion interrupt
\* arrives and wakes the process.
RequestCompletes == \A p \in Proc : (pc[p] = "acquire") ~> (pc[p] = "idle")
==============================================================================
