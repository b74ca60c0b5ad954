-------------------------------- MODULE Log ---------------------------------
(***************************************************************************)
(* The guest's write-ahead log (log.c) over the buffer cache (bio.c), with *)
(* crashes.  A process makes file system calls: begin_op(), some bread() / *)
(* log_write() / brelse() of home blocks, end_op().  The last end_op()     *)
(* commits, one disk write per step, and the power may fail between any    *)
(* two steps; fsinit() then recovers from the disk alone.                  *)
(*                                                                         *)
(* A step is a critical section of log.lock or bcache.lock, or one disk    *)
(* transfer under a buffer's sleep lock.                                   *)
(***************************************************************************)
EXTENDS BufCache

CONSTANTS Proc,         \* processes
          NHOME,        \* number of home blocks
          MAXOPBLOCKS,  \* blocks begin_op() reserves for a call
          LOGSIZE,      \* log blocks that begin_op() shares out
          MaxWrites,    \* blocks a call really writes (bound)
          MaxOps,       \* file system calls (bound)
          Calls,        \* who may make the n-th call, to write what (bound)
          Reads,        \* blocks read outside a call (bound)
          MaxAgain,     \* repeated writes of a block by a call (bound)
          MaxReads,     \* reads outside a call (bound)
          MaxCrash      \* power failures (bound)

VARIABLES
    disk,         \* block -> contents; block LogStart holds a log header
    bc,           \* the buffer cache
    lh,           \* log.lh: block numbers of the transaction being built
    outstanding,  \* log.outstanding
    committing,   \* log.committing
    pc,           \* where each process is
    todo,         \* blocks its call has still to write
    val,          \* what its call writes
    cur,          \* buffer it is getting or holding
    tail,         \* loop index of write_log() and install_trans()
    boot,         \* "up", or the stage of recover_from_log()
    panic,        \* the kernel has called panic()
    nops, nagain, nreads, ncrash

vars == <<disk, bc, lh, outstanding, committing, pc, todo, val, cur, tail,
          boot, panic, nops, nagain, nreads, ncrash>>

logVars == <<lh, outstanding, committing>>
procVars == <<todo, val, cur>>
counts == <<nops, nagain, nreads, ncrash>>

Home == 1 .. NHOME
Value == 0 .. MaxOps
LogStart == NHOME + 1
LogBlock(t) == LogStart + t

\* mkfs makes a log of LOGSIZE blocks, the header among them: log.size.
log_size == LOGSIZE
Disk == Home \cup (LogStart .. LogStart + log_size - 1)

\* Some process runs fsinit(), and None is no buffer, block or process.
ASSUME LogConstants ==
    /\ NBUF \in Nat /\ NHOME \in Nat /\ LOGSIZE \in Nat \ {0}
    /\ MAXOPBLOCKS \in Nat /\ MaxWrites \in Nat /\ MaxOps \in Nat
    /\ Proc # {} /\ IsFiniteSet(Proc) /\ Reads \subseteq Home
    /\ None \notin Buf \cup Disk \cup Proc

\* begin_op() shares out LOGSIZE blocks and the log holds one fewer: a call
\* must not write all it has reserved, nor may its share be the whole log.
ASSUME WritesFit == MaxWrites < MAXOPBLOCKS /\ MAXOPBLOCKS < LOGSIZE

Init ==
    /\ disk = [b \in Disk |-> IF b = LogStart THEN <<>> ELSE 0]
    /\ bc = binit
    /\ lh = <<>> /\ outstanding = 0 /\ committing = FALSE
    /\ pc = [p \in Proc |-> "idle"]
    /\ todo = [p \in Proc |-> {}]
    /\ val = [p \in Proc |-> 0]
    /\ cur = [p \in Proc |-> None]
    /\ tail = 1 /\ boot = "head" /\ panic = FALSE
    /\ nops = 0 /\ nagain = 0 /\ nreads = 0 /\ ncrash = 0

Goto(p, l) == pc' = [pc EXCEPT ![p] = l]

\* wakeup(&log): everyone sleeping in begin_op() tries again.
WakeLog(q, l) ==
    pc' = [p \in Proc |-> IF p = q THEN l
                          ELSE IF pc[p] = "asleep" THEN "begin" ELSE pc[p]]

-----------------------------------------------------------------------------
\* A process enters a call that will write the blocks bs.
Call(p, bs) ==
    /\ boot = "up" /\ pc[p] = "idle" /\ nops < MaxOps
    /\ <<p, bs>> \in Calls[nops + 1]
    /\ nops' = nops + 1
    /\ val' = [val EXCEPT ![p] = nops + 1]
    /\ todo' = [todo EXCEPT ![p] = bs]
    /\ Goto(p, "begin")
    /\ UNCHANGED <<disk, bc, logVars, cur, tail, boot, panic, nagain,
                   nreads, ncrash>>

\* Mutant: the call that asks is not counted.
MustWaitOthers ==
    \/ committing
    \/ Len(lh) + outstanding * MAXOPBLOCKS > LOGSIZE

MustWait ==
    \/ committing
    \/ Len(lh) + (outstanding + 1) * MAXOPBLOCKS > LOGSIZE

begin_op(p) ==
    /\ pc[p] = "begin"
    /\ IF MustWait
       THEN Goto(p, "asleep") /\ UNCHANGED outstanding
       ELSE Goto(p, "op") /\ outstanding' = outstanding + 1
    /\ UNCHANGED <<disk, bc, lh, committing, procVars, tail, boot, panic,
                   counts>>

\* bread() up to the buffer's sleep lock, for a block of the call or, with
\* no call open, for a plain read().
Get(p, b, next) ==
    /\ panic' = NoBuffers(bc, b)
    /\ IF NoBuffers(bc, b)
       THEN UNCHANGED <<bc, cur, pc>>
       ELSE /\ bc' = bget(bc, b)
            /\ cur' = [cur EXCEPT ![p] = Slot(bc', b)]
            /\ Goto(p, next)
    /\ UNCHANGED <<disk, logVars, todo, val, tail, boot, nops, nagain, ncrash>>

GetToWrite(p) ==
    /\ pc[p] = "op"
    /\ \E b \in todo[p] : Get(p, b, "got")
    /\ UNCHANGED nreads

GetToRead(p) ==
    /\ boot = "up" /\ pc[p] = "idle" /\ nreads < MaxReads
    /\ nreads' = nreads + 1
    /\ \E b \in Reads : Get(p, b, "reading")

\* The block is one of the transaction's already: log absorption.
InLog(b) == \E t \in 1 .. Len(lh) : lh[t] = b

\* Mutant: the block is recorded and its buffer is not pinned.
LogWriteNoPin(p, c) ==
    /\ panic' = (Len(lh) >= log_size - 1)
    /\ lh' = IF InLog(c.blockno[cur[p]]) THEN lh
             ELSE Append(lh, c.blockno[cur[p]])
    /\ bc' = c

\* log_write(): absorb a block already in the transaction, else pin it.
log_write(p, c) ==
    LET b == c.blockno[cur[p]] IN
    /\ panic' = \/ Len(lh) >= LOGSIZE \/ Len(lh) >= log_size - 1
                \/ outstanding < 1
    /\ IF InLog(b)
       THEN lh' = lh /\ bc' = c
       ELSE lh' = Append(lh, b) /\ bc' = bpin(c, cur[p])

\* The sleep lock is free: read if needed, modify the data, log_write().  The
\* call may come back to the same block, as to an inode or a bitmap block.
Modify(p) ==
    /\ pc[p] = "got" /\ bc.owner[cur[p]] = None
    /\ \E c \in {acquire_read(bc, disk, cur[p], p)} :
         log_write(p, [c EXCEPT !.data[cur[p]] = val[p]])
    /\ \/ /\ todo' = [todo EXCEPT ![p] = @ \ {bc.blockno[cur[p]]}]
          /\ UNCHANGED nagain
       \/ /\ nagain < MaxAgain
          /\ nagain' = nagain + 1
          /\ UNCHANGED todo
    /\ Goto(p, "release")
    /\ UNCHANGED <<disk, outstanding, committing, val, cur, tail, boot, nops,
                   nreads, ncrash>>

Read(p) ==
    /\ pc[p] = "reading" /\ bc.owner[cur[p]] = None
    /\ bc' = acquire_read(bc, disk, cur[p], p)
    /\ Goto(p, "done")
    /\ UNCHANGED <<disk, logVars, procVars, tail, boot, panic, counts>>

Release(p) ==
    /\ pc[p] \in {"release", "done"}
    /\ bc' = brelse(bc, cur[p])
    /\ cur' = [cur EXCEPT ![p] = None]
    /\ Goto(p, IF pc[p] = "release" THEN "op" ELSE "idle")
    /\ UNCHANGED <<disk, logVars, todo, val, tail, boot, panic, counts>>

\* The last call out commits; the others make room for who waits.
end_op(p) ==
    /\ pc[p] = "op" /\ todo[p] = {}
    /\ outstanding' = outstanding - 1
    /\ panic' = committing
    /\ IF outstanding = 1
       THEN /\ committing' = TRUE
            /\ Goto(p, IF lh = <<>> THEN "committed" ELSE "write_log")
       ELSE /\ UNCHANGED committing
            /\ WakeLog(p, "idle")
    /\ tail' = 1
    /\ UNCHANGED <<disk, bc, lh, procVars, boot, counts>>

-----------------------------------------------------------------------------
\* bread() of block b, when nobody holds it: the caches it can leave, none
\* of them if it panics.
Bread(c, b, p) ==
    {bread(c1, disk, b, p) : c1 \in {c2 \in {c} : ~NoBuffers(c2, b)}}

\* memmove() from one of the two buffers to the other.
Copied(c, from, to) == [c EXCEPT !.data[Slot(c, to)] = c.data[Slot(c, from)]]

\* bwrite().
Written(c, b) == [disk EXCEPT ![b] = c.data[Slot(c, b)]]

Panic == panic' = TRUE /\ UNCHANGED <<disk, bc>>

\* The loops of write_log() and install_trans() first read the log block.
GetLogBlock(p) ==
    LET l == LogBlock(tail) IN
    /\ pc[p] \in {"write_log", "install"} /\ cur[p] = None /\ Readable(bc, l)
    /\ \/ NoBuffers(bc, l) /\ Panic /\ UNCHANGED cur
       \/ \E c \in Bread(bc, l, p) :
            /\ bc' = c
            /\ cur' = [cur EXCEPT ![p] = Slot(c, l)]
            /\ UNCHANGED <<disk, panic>>
    /\ UNCHANGED <<logVars, pc, todo, val, tail, boot, counts>>

\* With the log block held they wait for the home block h, which log_write()
\* has pinned: no other buffer is needed and nothing is read.  The copying,
\* the write and the two releases follow under both sleep locks.
write_log(p) ==
    LET l == LogBlock(tail)
        h == lh[tail]
    IN
    /\ pc[p] = "write_log" /\ cur[p] # None /\ Readable(bc, h)
    /\ \/ NoBuffers(bc, h) /\ Panic
       \/ \E c \in Bread(bc, h, p) : \E d \in {Copied(c, h, l)} :
            /\ disk' = Written(d, l)
            /\ bc' = brelse(brelse(d, Slot(d, h)), Slot(d, l))
            /\ UNCHANGED panic
    /\ cur' = [cur EXCEPT ![p] = None]
    /\ tail' = IF tail = Len(lh) THEN 1 ELSE tail + 1
    /\ Goto(p, IF tail = Len(lh) THEN "write_head" ELSE "write_log")
    /\ UNCHANGED <<logVars, todo, val, boot, counts>>

\* write_head(): bread() the header block, fill it in, bwrite(), brelse().
write_head(p, n) ==
    /\ Readable(bc, LogStart)
    /\ \/ NoBuffers(bc, LogStart) /\ Panic
       \/ \E c \in Bread(bc, LogStart, p) :
            \E d \in {[c EXCEPT !.data[Slot(c, LogStart)] = n]} :
              /\ disk' = Written(d, LogStart)
              /\ bc' = brelse(d, Slot(d, LogStart))
              /\ UNCHANGED panic

\* The true point at which the transaction commits.
WriteHead(p) ==
    /\ pc[p] = "write_head"
    /\ write_head(p, lh)
    /\ Goto(p, "install")
    /\ UNCHANGED <<logVars, procVars, tail, boot, counts>>

\* The rest of a round of install_trans(recovering), from cache c in which
\* p holds the log block: it goes to its home location.
install_trans(p, c, recovering) ==
    LET l == LogBlock(tail)
        h == lh[tail]
    IN
    /\ Readable(c, h)
    /\ \/ NoBuffers(c, h) /\ Panic
       \/ \E d \in Bread(c, h, p) : \E e \in {Copied(d, l, h)} :
            /\ disk' = Written(e, h)
            /\ \E f \in {IF recovering THEN e ELSE bunpin(e, Slot(e, h))} :
                 bc' = brelse(brelse(f, Slot(f, l)), Slot(f, h))
            /\ UNCHANGED panic
    /\ tail' = IF tail = Len(lh) THEN 1 ELSE tail + 1

Install(p) ==
    /\ pc[p] = "install" /\ cur[p] # None
    /\ install_trans(p, bc, FALSE)
    /\ cur' = [cur EXCEPT ![p] = None]
    /\ Goto(p, IF tail = Len(lh) THEN "clear" ELSE "install")
    /\ UNCHANGED <<logVars, todo, val, boot, counts>>

\* Erase the transaction from the log.
ClearHead(p) ==
    /\ pc[p] = "clear"
    /\ lh' = <<>>
    /\ write_head(p, <<>>)
    /\ Goto(p, "committed")
    /\ UNCHANGED <<outstanding, committing, procVars, tail, boot, counts>>

\* Mutant: the commit ends without wakeup(&log).
CommittedNoWake(p) ==
    /\ pc[p] = "committed"
    /\ committing' = FALSE
    /\ Goto(p, "idle")
    /\ UNCHANGED <<disk, bc, lh, outstanding, procVars, tail, boot, panic,
                   counts>>

\* The end of end_op() for the process that committed.
Committed(p) ==
    /\ pc[p] = "committed"
    /\ committing' = FALSE
    /\ WakeLog(p, "idle")
    /\ UNCHANGED <<disk, bc, lh, outstanding, procVars, tail, boot, panic,
                   counts>>

-----------------------------------------------------------------------------
\* Power fails: only the disk is left.  Its writes are of whole blocks.
Crash ==
    /\ ncrash < MaxCrash
    /\ ncrash' = ncrash + 1
    /\ bc' = binit
    /\ lh' = <<>> /\ outstanding' = 0 /\ committing' = FALSE
    /\ pc' = [p \in Proc |-> "idle"]
    /\ todo' = [p \in Proc |-> {}]
    /\ val' = [p \in Proc |-> 0]
    /\ cur' = [p \in Proc |-> None]
    /\ tail' = 1 /\ boot' = "head" /\ panic' = FALSE
    /\ UNCHANGED <<disk, nops, nagain, nreads>>

\* The first process to run calls fsinit() before anyone makes a call.
Booter == CHOOSE p \in Proc : TRUE

read_head ==
    /\ boot = "head"
    /\ \E c \in Bread(bc, LogStart, Booter) :
         /\ lh' = c.data[Slot(c, LogStart)]
         /\ bc' = brelse(c, Slot(c, LogStart))
    /\ boot' = IF lh' = <<>> THEN "clear" ELSE "install"
    /\ UNCHANGED <<disk, outstanding, committing, pc, procVars, tail, panic,
                   counts>>

\* Nobody else runs yet: the log block is read in the same step.
RecoverInstall ==
    /\ boot = "install"
    /\ \E c \in Bread(bc, LogBlock(tail), Booter) : install_trans(Booter, c, TRUE)
    /\ boot' = IF tail = Len(lh) THEN "clear" ELSE "install"
    /\ UNCHANGED <<logVars, pc, procVars, counts>>

RecoverClear ==
    /\ boot = "clear"
    /\ lh' = <<>>
    /\ write_head(Booter, <<>>)
    /\ boot' = "up"
    /\ UNCHANGED <<outstanding, committing, pc, procVars, tail, counts>>

-----------------------------------------------------------------------------
Step(p) ==
    \/ begin_op(p)
    \/ GetToWrite(p)
    \/ Modify(p)
    \/ Read(p)
    \/ Release(p)
    \/ end_op(p)
    \/ GetLogBlock(p)
    \/ write_log(p)
    \/ WriteHead(p)
    \/ Install(p)
    \/ ClearHead(p)
    \/ Committed(p)

Recover == read_head \/ RecoverInstall \/ RecoverClear

\* A process takes a step in a call, or as the one that runs fsinit().
Run(p) == ~panic /\ (Step(p) \/ (p = Booter /\ Recover))

Next ==
    /\ ~panic
    /\ \/ \E p \in Proc : Step(p) \/ GetToRead(p)
       \/ \E p \in Proc, bs \in SUBSET Home :
            Cardinality(bs) <= MaxWrites /\ Call(p, bs)
       \/ Crash
       \/ Recover

Spec == Init /\ [][Next]_vars

\* The guest's scheduler runs every runnable process again and again, and
\* the disk answers every request; nobody has to make a call or to crash.
FairSpec == Spec /\ \A p \in Proc : WF_vars(Run(p))

-----------------------------------------------------------------------------
\* The kernel never panics in bget() for want of a buffer, in log_write()
\* for want of log space or of an open call, or in end_op() because a
\* commit is running.
NoPanic == ~panic

\* What a reboot would recover: the blocks named in the header on disk come
\* from the log, all others from their home.
Recovered(b) ==
    LET n == disk[LogStart]
        S == {t \in 1 .. Len(n) : n[t] = b}
    IN IF S = {} THEN disk[b] ELSE disk[LogBlock(CHOOSE t \in S : TRUE)]

\* What a process sees: the cached copy where there is a valid one.
Seen(b) ==
    IF boot # "up" THEN Recovered(b)
    ELSE LET S == {i \in CachedAt(bc, b) : bc.valid[i]}
         IN IF S = {} THEN disk[b] ELSE bc.data[CHOOSE i \in S : TRUE]

InCall == {"op", "got", "release"}

Atomic == INSTANCE AtomicDisk WITH
    Home    <- Home,
    Value   <- Value,
    logical <- [b \in Home |-> Seen(b)],
    durable <- [b \in Home |-> Recovered(b)],
    active  <- {p \in Proc : pc[p] \in InCall}

\* log.c and bio.c together are a disk on which calls are atomic: a write is
\* seen at once, eviction and installation change nothing a process can
\* see, and whatever the moment of a crash, also one during recovery, the
\* recovered blocks are those of complete calls.
ImplementsAtomicDisk == Atomic!Spec

\* Every call that asks for log space gets it and comes back from end_op(),
\* unless the power fails first.
CallReturns ==
    \A p \in Proc : (pc[p] = "begin") ~> (pc[p] = "idle")
=============================================================================
