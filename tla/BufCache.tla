------------------------------ MODULE BufCache ------------------------------
(***************************************************************************)
(* The buffer cache of the guest kernel (bio.c) as operators on a cache    *)
(* value: which block each buffer holds, its reference count, its sleep    *)
(* lock and its place in the recently-used list.  Each operator is one     *)
(* critical section of bcache.lock or of a buffer's sleep lock.            *)
(***************************************************************************)
EXTENDS Integers, Sequences, FiniteSets

CONSTANTS NBUF,     \* size of the buffer cache
          None      \* no block, no owner

Buf == 1 .. NBUF

\* Every buffer is linked in at the head, so the last one is most recent.
binit ==
    [blockno |-> [i \in Buf |-> None],
     valid   |-> [i \in Buf |-> FALSE],
     refcnt  |-> [i \in Buf |-> 0],
     owner   |-> [i \in Buf |-> None],
     data    |-> [i \in Buf |-> None],
     lru     |-> [k \in Buf |-> NBUF + 1 - k]]

CachedAt(c, b) == {i \in Buf : c.blockno[i] = b}

Slot(c, b) == CHOOSE i \in CachedAt(c, b) : TRUE

Unused(c) == {k \in Buf : c.refcnt[c.lru[k]] = 0}

\* bget() has neither the block nor a buffer to recycle: it panics.
NoBuffers(c, b) == CachedAt(c, b) = {} /\ Unused(c) = {}

\* The unused buffer nearest the tail of the list.
Victim(c) == c.lru[CHOOSE k \in Unused(c) : \A j \in Unused(c) : j <= k]

\* bget() up to the sleep lock: one more reference to the block's buffer.
bget(c, b) ==
    IF CachedAt(c, b) # {}
    THEN [c EXCEPT !.refcnt[Slot(c, b)] = @ + 1]
    ELSE LET v == Victim(c)
         IN [c EXCEPT !.blockno[v] = b, !.valid[v] = FALSE, !.refcnt[v] = 1]

\* The rest of bread(): take the buffer's lock, read the block if need be.
acquire_read(c, disk, i, p) ==
    [c EXCEPT !.owner[i] = p,
              !.data[i] = IF c.valid[i] THEN @ ELSE disk[c.blockno[i]],
              !.valid[i] = TRUE]

\* The list with buffer i unlinked and put in at the head.
MoveToFront(lru, i) ==
    LET k == CHOOSE j \in Buf : lru[j] = i
    IN [j \in Buf |-> IF j = 1 THEN i ELSE IF j <= k THEN lru[j - 1] ELSE lru[j]]

\* releasesleep(), one reference fewer, and a buffer nobody waits for is
\* moved to the head of the list.
brelse(c, i) ==
    [c EXCEPT !.owner[i] = None,
              !.refcnt[i] = @ - 1,
              !.lru = IF c.refcnt[i] = 1 THEN MoveToFront(@, i) ELSE @]

bpin(c, i) == [c EXCEPT !.refcnt[i] = @ + 1]

bunpin(c, i) == [c EXCEPT !.refcnt[i] = @ - 1]

\* bread() of a block no other process holds, in one step.
bread(c, disk, b, p) ==
    LET g == bget(c, b) IN acquire_read(g, disk, Slot(g, b), p)

\* bread() of b can go ahead in one step.
Readable(c, b) == \A i \in CachedAt(c, b) : c.owner[i] = None
=============================================================================
