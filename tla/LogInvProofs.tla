--------------------------- MODULE LogInvProofs -----------------------------
(***************************************************************************)
(* The inductive invariant of the guest's log, for any number of           *)
(* processes, buffers, home blocks and log blocks.  It says, for each      *)
(* stage of commit() and of recover_from_log(), which copies of a block    *)
(* agree: the one in the cache, the one in the log and the one at home.    *)
(* What a step does to the cache comes first, then a lemma for each        *)
(* action; LogProofs draws the theorems from them.                         *)
(***************************************************************************)
EXTENDS Log, TLAPS

Label == {"idle", "begin", "asleep", "op", "got", "release", "reading",
          "done", "write_log", "write_head", "install", "clear", "committed"}

\* Where a process is in end_op()'s commit(), where in one of the loops that
\* copy blocks, and where it has a buffer for a home block.
CommitAt == {"write_log", "write_head", "install", "clear", "committed"}
CopyAt == {"write_log", "install"}
HoldsAt == {"got", "release", "reading", "done"}

\* Some process is at l.
At(l) == \E p \in Proc : pc[p] = l

\* What a disk block or a buffer holds: data, a header, or nothing yet.
Content == Value \cup Seq(Home) \cup {None}

Cache == [blockno : [Buf -> Disk \cup {None}], valid : [Buf -> BOOLEAN],
          refcnt : [Buf -> Nat], owner : [Buf -> Proc \cup {None}],
          data : [Buf -> Content], lru : [Buf -> Buf]]

\* Buffer i has the contents of block b.
Has(c, i, b) == i \in Buf /\ c.blockno[i] = b /\ c.valid[i]

\* What cache c over disk d shows of block b: Seen while the system is up.
Shown(c, d, b) ==
    LET S == {i \in CachedAt(c, b) : c.valid[i]}
    IN IF S = {} THEN d[b] ELSE c.data[CHOOSE i \in S : TRUE]

\* No block is cached twice, and what is valid is a block's contents.
Sound(c) ==
    /\ c \in Cache
    /\ \A i, j \in Buf : c.blockno[i] = c.blockno[j] /\ c.blockno[i] # None
                         => i = j
    /\ \A i \in Buf : c.valid[i] => c.blockno[i] \in Disk

\* A block outside D is cached as it is on disk d.
Clean(c, d, D) == \A b \in Disk \ D : Shown(c, d, b) = d[b]

\* A block of D is cached and its buffer is in use.
Pinned(c, D) == \A b \in D : \E i \in Buf : Has(c, i, b) /\ c.refcnt[i] > 0

CacheOk(c, d, D) == Sound(c) /\ Clean(c, d, D) /\ Pinned(c, D)

\* The blocks of the transaction that are not yet at home: pinned.
Dirty ==
    {b \in Home : /\ boot = "up" /\ ~At("clear")
                  /\ \E k \in 1 .. Len(lh) :
                       lh[k] = b /\ (At("install") => tail <= k)}

\* A log header: each block at most once, and room for all of them.
IsLog(n) ==
    /\ n \in Seq(Home) /\ Len(n) <= log_size - 1
    /\ \A s, t \in 1 .. Len(n) : n[s] = n[t] => s = t

\* The values of the variables; val and todo are what a call is to write.
TypeOK ==
    /\ disk \in [Disk -> Content]
    /\ outstanding \in Nat /\ committing \in BOOLEAN
    /\ pc \in [Proc -> Label] /\ todo \in [Proc -> SUBSET Home]
    /\ val \in [Proc -> Value] /\ cur \in [Proc -> Buf \cup {None}]
    /\ tail \in Nat \ {0} /\ boot \in {"up", "head", "install", "clear"}
    /\ nops \in Value

\* A process has a buffer while it is between bget() and brelse(): for a home
\* block, or for the log block of a round of commit().
HoldOk ==
    \A p \in Proc : IF pc[p] \in HoldsAt
                    THEN cur[p] \in Buf /\ bc.blockno[cur[p]] \in Home
                    ELSE \/ cur[p] = None
                         \/ pc[p] \in CopyAt /\ Has(bc, cur[p], LogBlock(tail))

\* log.outstanding counts the open calls; one process commits, after them.
CallsOk ==
    /\ outstanding = Cardinality({p \in Proc : pc[p] \in InCall})
    /\ committing <=> \E p \in Proc : pc[p] \in CommitAt
    /\ \A p, q \in Proc : pc[p] \in CommitAt /\ pc[q] \in CommitAt => p = q
    /\ committing => \A p \in Proc : pc[p] \notin InCall
    /\ boot # "up" => \A p \in Proc : pc[p] = "idle"

\* A buffer's references: the processes that have it, and log_write()'s pin.
RefsOk ==
    \A i \in Buf : bc.refcnt[i] = Cardinality({p \in Proc : cur[p] = i})
                                  + (IF bc.blockno[i] \in Dirty THEN 1 ELSE 0)

\* The block of lh[k] has been copied to the log.
Logged(k) ==
    \/ At("write_log") /\ k < tail
    \/ At("write_head") \/ At("install") \/ At("clear")

\* The disk while the system is up.
RunOk ==
    /\ disk[LogStart] = IF At("install") \/ At("clear") THEN lh ELSE <<>>
    /\ At("write_log") \/ At("install") => tail <= Len(lh)
    /\ At("write_head") => tail = 1 /\ lh # <<>>
    /\ At("committed") => lh = <<>>
    /\ \A k \in 1 .. Len(lh) :
         Logged(k) => disk[LogBlock(k)] = Shown(bc, disk, lh[k])

\* The disk during recovery.
RecoverOk ==
    /\ boot = "head" => tail = 1
    /\ boot \in {"install", "clear"} => lh = disk[LogStart]
    /\ boot = "install" => tail <= Len(lh)
    /\ \A k \in 1 .. Len(lh) :
         (boot = "install" /\ k < tail) \/ boot = "clear"
         => disk[LogBlock(k)] = disk[lh[k]]

\* The inductive invariant, of the running system and of recovery.
LogInv ==
    /\ TypeOK /\ HoldOk /\ CallsOk /\ RefsOk
    /\ CacheOk(bc, disk, Dirty)
    /\ IsLog(lh) /\ IsLog(disk[LogStart])
    /\ boot = "up" => RunOk
    /\ boot # "up" => RecoverOk

\* A kernel that panicked stands still.
Inv == panic \/ LogInv

-----------------------------------------------------------------------------
\* One buffer's contents are what the cache shows of its block.
LEMMA ShownAt ==
  ASSUME NEW c, NEW d, NEW b \in Disk, NEW i \in Buf, Sound(c), Has(c, i, b)
  PROVE  Shown(c, d, b) = c.data[i]
  <1>1. b # None
    BY LogConstants, Zenon
  <1>2. {j \in CachedAt(c, b) : c.valid[j]} = {i}
    <2>1. ASSUME NEW j \in CachedAt(c, b), c.valid[j]
          PROVE  j = i
      BY <1>1, <2>1, Zenon DEF Sound, Has, CachedAt
    <2> QED  BY <2>1, Zenon DEF Has, CachedAt
  <1>3. (CHOOSE j \in {i} : TRUE) = i
    BY Zenon
  <1> QED  BY <1>2, <1>3, Zenon DEF Shown

\* A block without a valid buffer is shown as the disk has it.
LEMMA ShownDisk ==
  ASSUME NEW c, NEW d, NEW b, \A i \in Buf : ~Has(c, i, b)
  PROVE  Shown(c, d, b) = d[b]
  BY Zenon DEF Shown, Has, CachedAt

\* Caches with the same valid buffers show the same.
LEMMA ShownSame ==
  ASSUME NEW c, NEW e, NEW d, NEW b, e.data = c.data,
         \A i \in Buf : Has(e, i, b) <=> Has(c, i, b)
  PROVE  Shown(e, d, b) = Shown(c, d, b)
  <1>1. {i \in CachedAt(e, b) : e.valid[i]} = {i \in CachedAt(c, b) : c.valid[i]}
    BY Zenon DEF Has, CachedAt
  <1>2. CASE {i \in CachedAt(c, b) : c.valid[i]} = {}
    BY <1>1, <1>2, Zenon DEF Shown
  <1>3. CASE {i \in CachedAt(c, b) : c.valid[i]} # {}
    <2>1. Shown(c, d, b) = c.data[CHOOSE i \in {i \in CachedAt(c, b) : c.valid[i]} : TRUE]
      BY <1>3, Zenon DEF Shown
    <2>2. Shown(e, d, b) = e.data[CHOOSE i \in {i \in CachedAt(e, b) : e.valid[i]} : TRUE]
      BY <1>1, <1>3, Zenon DEF Shown
    <2> QED  BY <1>1, <2>1, <2>2, Zenon
  <1> QED  BY <1>2, <1>3, Zenon

\* A set of buffers has a greatest one.
MaxExists == \A S \in SUBSET Buf : S # {} => \E k \in S : \A j \in S : j <= k

\* What bget() leaves of cache c: g, with block b in buffer s.
Got(c, g, b, s) ==
    /\ Sound(g) /\ s \in Buf /\ Slot(g, b) = s
    /\ g.blockno = [c.blockno EXCEPT ![s] = b]
    /\ g.refcnt = [c.refcnt EXCEPT ![s] = c.refcnt[s] + 1]
    /\ g.data = c.data
    /\ \/ c.blockno[s] = b /\ g.valid = c.valid
       \/ /\ c.refcnt[s] = 0 /\ CachedAt(c, b) = {}
          /\ g.valid = [c.valid EXCEPT ![s] = FALSE]

\* The buffer of a block that is cached once.
LEMMA SlotIs ==
  ASSUME NEW c, Sound(c), NEW b \in Disk, NEW i \in Buf, c.blockno[i] = b
  PROVE  Slot(c, b) = i
  <1>1. b # None
    BY LogConstants, Zenon
  <1>2. CachedAt(c, b) = {i}
    BY <1>1, Zenon DEF Sound, CachedAt
  <1>3. (CHOOSE j \in {i} : TRUE) = i
    BY Zenon
  <1> QED  BY <1>2, <1>3, Zenon DEF Slot

\* bget(), when it does not panic.
LEMMA BgetGot ==
  ASSUME NEW c, Sound(c), NEW b \in Disk, ~NoBuffers(c, b), MaxExists
  PROVE  \E s \in Buf : Got(c, bget(c, b), b, s)
  \* bget() of a block that is not cached recycles an unused buffer.
  \* bget() of a cached block.
  <1>a. ASSUME NEW s \in Buf, c.blockno[s] = b
        PROVE  Got(c, bget(c, b), b, s)
    <2> USE <1>a
    <2> DEFINE g == bget(c, b)
    <2>1. Slot(c, b) = s
      BY SlotIs, Zenon
    <2>2. g = [c EXCEPT !.refcnt[s] = c.refcnt[s] + 1]
      BY <2>1, Zenon DEF bget, CachedAt
    <2>3. c \in Cache
      BY Zenon DEF Sound
    <2> HIDE DEF g
    <2>4. /\ g \in Cache /\ g.blockno = c.blockno /\ g.valid = c.valid
          /\ g.data = c.data /\ g.refcnt = [c.refcnt EXCEPT ![s] = c.refcnt[s] + 1]
      BY <2>2, <2>3 DEF Cache
    <2>5. Sound(g)
      BY <2>4, Zenon DEF Sound
    <2>6. g.blockno = [c.blockno EXCEPT ![s] = b]
      <3>1. c.blockno \in [Buf -> Disk \cup {None}]
        BY <2>3, Zenon DEF Cache
      <3>2. c.blockno = [c.blockno EXCEPT ![s] = b]
        BY <3>1, SMT
      <3> QED  BY <2>4, <3>2, Zenon
    <2>7. Slot(g, b) = s
      <3>1. g.blockno[s] = b
        BY <2>4, Zenon
      <3> QED  BY <2>5, <3>1, SlotIs, Zenon
    <2>8. Got(c, g, b, s)
      BY <2>4, <2>5, <2>6, <2>7, Zenon DEF Got
    <2> QED  BY <2>8, Zenon DEF g
  <1>b. ASSUME CachedAt(c, b) = {}, Unused(c) # {}
        PROVE  \E s \in Buf : Got(c, bget(c, b), b, s)
    <2> USE <1>b
    <2> DEFINE g == bget(c, b)
               s == Victim(c)
    <2>1. c \in Cache
      BY Zenon DEF Sound
    <2>2. PICK k \in Unused(c) : s = c.lru[k]
      <3>1. Unused(c) \in SUBSET Buf
        BY Zenon DEF Unused
      <3>2. \E k \in Unused(c) : \A j \in Unused(c) : j <= k
        BY <3>1, Zenon DEF MaxExists
      <3> QED  BY <3>2, Zenon DEF Victim
    <2>3. s \in Buf /\ c.refcnt[s] = 0
      BY <2>1, <2>2 DEF Unused, Cache
    <2>4. g = [c EXCEPT !.blockno[s] = b, !.valid[s] = FALSE, !.refcnt[s] = 1]
      BY Zenon DEF bget
    <2> HIDE DEF s, g
    <2>5. /\ g \in Cache /\ g.blockno = [c.blockno EXCEPT ![s] = b]
          /\ g.valid = [c.valid EXCEPT ![s] = FALSE] /\ g.data = c.data
          /\ g.refcnt = [c.refcnt EXCEPT ![s] = 1]
      <3>1. g.blockno = [c.blockno EXCEPT ![s] = b]
        BY <2>1, <2>4, Zenon DEF Cache
      <3>2. g.valid = [c.valid EXCEPT ![s] = FALSE]
        BY <2>1, <2>4, Zenon DEF Cache
      <3>3. g.refcnt = [c.refcnt EXCEPT ![s] = 1] /\ g.data = c.data
        BY <2>1, <2>4, Zenon DEF Cache
      <3>4. /\ [c.blockno EXCEPT ![s] = b] \in [Buf -> Disk \cup {None}]
            /\ [c.valid EXCEPT ![s] = FALSE] \in [Buf -> BOOLEAN]
            /\ [c.refcnt EXCEPT ![s] = 1] \in [Buf -> Nat]
        BY <2>1, <2>3, Zenon DEF Cache
      <3>5. g \in Cache
        BY <2>1, <2>4, <3>4, Zenon DEF Cache
      <3> QED  BY <3>1, <3>2, <3>3, <3>5, Zenon
    <2>6. g.refcnt = [c.refcnt EXCEPT ![s] = c.refcnt[s] + 1]
      BY <2>3, <2>5
    <2>7. Sound(g)
      <3>1. \A i \in Buf : g.blockno[i] = IF i = s THEN b ELSE c.blockno[i]
        BY <2>1, <2>5, Zenon DEF Cache
      <3>2. \A i \in Buf : c.blockno[i] # b
        BY Zenon DEF CachedAt
      <3>3. \A i \in Buf : g.valid[i] => i # s /\ c.valid[i]
        BY <2>1, <2>5 DEF Cache
      <3>4. ASSUME NEW i \in Buf, NEW j \in Buf, g.blockno[i] = g.blockno[j],
                   g.blockno[i] # None
            PROVE  i = j
        BY <3>1, <3>2, <3>4, Zenon DEF Sound
      <3>5. ASSUME NEW i \in Buf, g.valid[i]
            PROVE  g.blockno[i] \in Disk
        BY <3>1, <3>3, <3>5, Zenon DEF Sound
      <3> QED  BY <2>5, <3>4, <3>5, Zenon DEF Sound
    <2>8. g.blockno[s] = b
      BY <2>1, <2>3, <2>5 DEF Cache
    <2>9. Slot(g, b) = s
      BY <2>3, <2>7, <2>8, SlotIs, Zenon
    <2>10. Got(c, g, b, s)
      BY <2>3, <2>5, <2>6, <2>7, <2>9, Zenon DEF Got
    <2> QED  BY <2>3, <2>10, Zenon DEF g
  <1>1. CASE CachedAt(c, b) = {}
    BY <1>1, <1>b, Zenon DEF NoBuffers
  <1>2. CASE CachedAt(c, b) # {}
    <2>1. PICK s \in Buf : c.blockno[s] = b
      BY <1>2, Zenon DEF CachedAt
    <2> QED  BY <2>1, <1>a, Zenon
  <1> QED  BY <1>1, <1>2, Zenon

\* bget() shows every block as before: the buffer it recycles was clean.
LEMMA GotShows ==
  ASSUME NEW c, NEW d, NEW D \in SUBSET Disk, CacheOk(c, d, D),
         NEW b \in Disk, NEW g, NEW s \in Buf, Got(c, g, b, s)
  PROVE  \A x \in Disk : Shown(g, d, x) = Shown(c, d, x)
  <1>1. c \in Cache /\ Sound(c) /\ Sound(g) /\ g.data = c.data
    BY Zenon DEF CacheOk, Sound, Got
  <1>2. \A i \in Buf : g.blockno[i] = IF i = s THEN b ELSE c.blockno[i]
    BY <1>1, Zenon DEF Cache, Got
  <1>3. CASE c.blockno[s] = b /\ g.valid = c.valid
    <2>1. \A i \in Buf, x \in Disk : Has(g, i, x) <=> Has(c, i, x)
      BY <1>2, <1>3, Zenon DEF Has
    <2> QED  BY <1>1, <2>1, ShownSame
  <1>4. CASE /\ c.refcnt[s] = 0 /\ CachedAt(c, b) = {}
             /\ g.valid = [c.valid EXCEPT ![s] = FALSE]
    <2>1. \A i \in Buf : g.valid[i] = IF i = s THEN FALSE ELSE c.valid[i]
      BY <1>1, <1>4, Zenon DEF Cache
    <2>2. \A i \in Buf : c.blockno[i] # b
      BY <1>4, Zenon DEF CachedAt
    <2>3. SUFFICES ASSUME NEW x \in Disk
                   PROVE  Shown(g, d, x) = Shown(c, d, x)
      OBVIOUS
    <2>4. CASE Has(c, s, x)
      <3>1. x \notin D
        <4>1. SUFFICES ASSUME x \in D
                       PROVE  FALSE
          OBVIOUS
        <4>2. PICK i \in Buf : Has(c, i, x) /\ c.refcnt[i] > 0
          BY <4>1, Zenon DEF CacheOk, Pinned
        <4>3. x # None
          BY LogConstants, Zenon
        <4>4. i = s
          BY <1>1, <2>4, <4>2, <4>3, Zenon DEF Sound, Has
        <4> QED  BY <1>4, <4>2, <4>4
      <3>2. Shown(c, d, x) = d[x]
        BY <3>1, Zenon DEF CacheOk, Clean
      <3>3. ASSUME NEW i \in Buf
            PROVE  ~Has(g, i, x)
        <4>1. x # None /\ x # b
          BY <2>2, <2>4, LogConstants, Zenon DEF Has
        <4> QED  BY <1>1, <1>2, <2>1, <2>4, <4>1, Zenon DEF Has, Sound
      <3> QED  BY <3>2, <3>3, ShownDisk, Zenon
    <2>5. CASE ~Has(c, s, x)
      <3>1. \A i \in Buf : Has(g, i, x) <=> Has(c, i, x)
        BY <1>2, <2>1, <2>5, Zenon DEF Has
      <3> QED  BY <1>1, <3>1, ShownSame
    <2> QED  BY <2>4, <2>5, Zenon
  <1> QED  BY <1>3, <1>4, Zenon DEF Got

\* bget() leaves the buffers in use where they are.
LEMMA GotKeeps ==
  ASSUME NEW c, Sound(c), NEW b \in Disk, NEW g, NEW s \in Buf, Got(c, g, b, s)
  PROVE  /\ \A i \in Buf : g.refcnt[i] = c.refcnt[i] + (IF i = s THEN 1 ELSE 0)
         /\ \A i \in Buf : c.refcnt[i] # 0 => /\ g.blockno[i] = c.blockno[i]
                                              /\ g.valid[i] = c.valid[i]
         /\ g.blockno[s] = b
  <1>1. c \in Cache
    BY Zenon DEF Sound
  <1>2. \A i \in Buf : g.refcnt[i] = c.refcnt[i] + (IF i = s THEN 1 ELSE 0)
    BY <1>1 DEF Cache, Got
  <1>3. \A i \in Buf : g.blockno[i] = IF i = s THEN b ELSE c.blockno[i]
    BY <1>1, Zenon DEF Cache, Got
  <1>4. CASE c.blockno[s] = b /\ g.valid = c.valid
    BY <1>2, <1>3, <1>4, Zenon
  <1>5. CASE c.refcnt[s] = 0 /\ g.valid = [c.valid EXCEPT ![s] = FALSE]
    <2>1. \A i \in Buf : i # s => g.valid[i] = c.valid[i]
      BY <1>1, <1>5 DEF Cache
    <2> QED  BY <1>2, <1>3, <1>5, <2>1, Zenon
  <1> QED  BY <1>4, <1>5, Zenon DEF Got

\* bget() keeps the cache in order.
LEMMA GotOk ==
  ASSUME NEW c, NEW d, NEW D \in SUBSET Disk, CacheOk(c, d, D),
         NEW b \in Disk, NEW g, NEW s \in Buf, Got(c, g, b, s)
  PROVE  CacheOk(g, d, D)
  <1>1. Sound(c) /\ Sound(g) /\ c \in Cache
    BY Zenon DEF CacheOk, Sound, Got
  <1>2. Clean(g, d, D)
    <2>1. \A x \in Disk : Shown(g, d, x) = Shown(c, d, x)
      BY GotShows
    <2> QED  BY <2>1, Zenon DEF CacheOk, Clean
  <1>3. ASSUME NEW x \in D
        PROVE  \E i \in Buf : Has(g, i, x) /\ g.refcnt[i] > 0
    <2>1. PICK i \in Buf : Has(c, i, x) /\ c.refcnt[i] > 0
      BY <1>3, Zenon DEF CacheOk, Pinned
    <2>2. c.refcnt[i] \in Nat
      BY <1>1, Zenon DEF Cache
    <2>3. /\ g.refcnt[i] = c.refcnt[i] + (IF i = s THEN 1 ELSE 0)
          /\ c.refcnt[i] # 0 => g.blockno[i] = c.blockno[i] /\ g.valid[i] = c.valid[i]
      BY <1>1, GotKeeps
    <2>4. c.refcnt[i] # 0 /\ g.refcnt[i] > 0
      BY <2>1, <2>2, <2>3
    <2>5. Has(g, i, x)
      BY <2>1, <2>3, <2>4, Zenon DEF Has
    <2> QED  BY <2>4, <2>5, Zenon
  <1> QED  BY <1>1, <1>2, <1>3, Zenon DEF CacheOk, Pinned

\* The buffer of the block is valid and locked, and nothing else changes.
LEMMA AcquireEffect ==
  ASSUME NEW c, Sound(c), NEW d \in [Disk -> Content], NEW i \in Buf,
         NEW b \in Disk, c.blockno[i] = b, NEW p \in Proc
  PROVE  LET a == acquire_read(c, d, i, p) IN
         /\ Sound(a) /\ Has(a, i, b)
         /\ a.blockno = c.blockno /\ a.refcnt = c.refcnt
         /\ \A j \in Buf : j # i => a.valid[j] = c.valid[j] /\ a.data[j] = c.data[j]
         /\ a.data[i] = IF c.valid[i] THEN c.data[i] ELSE d[b]
  <1> DEFINE a == acquire_read(c, d, i, p)
             x == IF c.valid[i] THEN c.data[i] ELSE d[b]
  <1>1. c \in Cache
    BY Zenon DEF Sound
  <1>2. a = [c EXCEPT !.owner[i] = p, !.data[i] = x, !.valid[i] = TRUE]
    BY Zenon DEF acquire_read
  <1>3. x \in Content
    BY <1>1, Zenon DEF Cache
  <1> HIDE DEF a, x
  <1>4. /\ a.blockno = c.blockno /\ a.refcnt = c.refcnt /\ a.lru = c.lru
        /\ a.owner = [c.owner EXCEPT ![i] = p]
    BY <1>1, <1>2, Zenon DEF Cache
  <1>5. a.data = [c.data EXCEPT ![i] = x] /\ a.valid = [c.valid EXCEPT ![i] = TRUE]
    BY <1>1, <1>2, Zenon DEF Cache
  <1>6. a \in Cache
    <2>1. /\ [c.data EXCEPT ![i] = x] \in [Buf -> Content]
          /\ [c.valid EXCEPT ![i] = TRUE] \in [Buf -> BOOLEAN]
          /\ [c.owner EXCEPT ![i] = p] \in [Buf -> Proc \cup {None}]
      BY <1>1, <1>3, Zenon DEF Cache
    <2> QED  BY <1>1, <1>2, <2>1, Zenon DEF Cache
  <1>7. \A j \in Buf : j # i => a.valid[j] = c.valid[j] /\ a.data[j] = c.data[j]
    BY <1>1, <1>5, Zenon DEF Cache
  <1>8. a.valid[i] /\ a.data[i] = x
    BY <1>1, <1>5 DEF Cache
  <1>9. Sound(a)
    <2>1. ASSUME NEW j \in Buf, a.valid[j]
          PROVE  a.blockno[j] \in Disk
      BY <1>4, <1>7, <2>1, Zenon DEF Sound
    <2> QED  BY <1>4, <1>6, <2>1, Zenon DEF Sound
  <1>10. Has(a, i, b)
    BY <1>4, <1>8, Zenon DEF Has
  <1>11. a.data[i] = IF c.valid[i] THEN c.data[i] ELSE d[b]
    BY <1>8, Zenon DEF x
  <1> QED  BY <1>4, <1>7, <1>9, <1>10, <1>11, Zenon DEF a

\* Cache a is c with buffer i locked and its block read.
Acquired(c, a, d, D, i) ==
    /\ CacheOk(a, d, D) /\ Has(a, i, c.blockno[i])
    /\ a.blockno = c.blockno /\ a.refcnt = c.refcnt
    /\ \A j \in Buf : j # i => a.valid[j] = c.valid[j]
    /\ a.data[i] = Shown(c, d, c.blockno[i])
    /\ \A x \in Disk : Shown(a, d, x) = Shown(c, d, x)

\* Reading a block into its buffer shows nothing new.
LEMMA AcquireOk ==
  ASSUME NEW c, NEW d \in [Disk -> Content], NEW D \in SUBSET Disk,
         CacheOk(c, d, D), NEW i \in Buf, c.blockno[i] \in Disk, NEW p \in Proc
  PROVE  Acquired(c, acquire_read(c, d, i, p), d, D, i)
  <1> DEFINE b == c.blockno[i]
  <1> DEFINE a == acquire_read(c, d, i, p)
  <1>1. Sound(c)
    BY Zenon DEF CacheOk
  <1>2. /\ Sound(a) /\ Has(a, i, b)
        /\ a.blockno = c.blockno /\ a.refcnt = c.refcnt
        /\ \A j \in Buf : j # i => a.valid[j] = c.valid[j] /\ a.data[j] = c.data[j]
        /\ a.data[i] = IF c.valid[i] THEN c.data[i] ELSE d[b]
    BY <1>1, AcquireEffect
  <1> HIDE DEF a
  <1>3. b # None
    BY LogConstants, Zenon
  <1>4. a.data[i] = Shown(c, d, b)
    <2>1. CASE c.valid[i]
      <3>1. Has(c, i, b)
        BY <2>1, Zenon DEF Has
      <3> QED  BY <1>1, <1>2, <2>1, <3>1, ShownAt
    <2>2. CASE ~c.valid[i]
      <3>1. \A j \in Buf : ~Has(c, j, b)
        BY <1>1, <1>3, <2>2, Zenon DEF Has, Sound
      <3> QED  BY <1>2, <2>2, <3>1, ShownDisk
    <2> QED  BY <2>1, <2>2, Zenon
  <1>5. ASSUME NEW x \in Disk
        PROVE  Shown(a, d, x) = Shown(c, d, x)
    <2>1. CASE x = b
      BY <1>2, <1>4, <2>1, ShownAt
    <2>2. CASE x # b
      <3>1. \A j \in Buf : Has(a, j, x) <=> Has(c, j, x)
        BY <1>2, <2>2, Zenon DEF Has
      <3>2. CASE \E j \in Buf : Has(c, j, x)
        <4>1. PICK j \in Buf : Has(c, j, x)
          BY <3>2, Zenon
        <4>2. j # i
          BY <2>2, <4>1, Zenon DEF Has
        <4>3. Shown(c, d, x) = c.data[j]
          BY <1>1, <4>1, ShownAt, Zenon
        <4>4. Shown(a, d, x) = a.data[j]
          BY <1>2, <3>1, <4>1, ShownAt
        <4> QED  BY <1>2, <4>2, <4>3, <4>4, Zenon
      <3>3. CASE \A j \in Buf : ~Has(c, j, x)
        <4>1. \A j \in Buf : ~Has(a, j, x)
          BY <3>1, <3>3, Zenon
        <4> QED  BY <3>3, <4>1, ShownDisk
      <3> QED  BY <3>2, <3>3, Zenon
    <2> QED  BY <2>1, <2>2, Zenon
  <1>6. Clean(a, d, D)
    BY <1>5, Zenon DEF CacheOk, Clean
  <1>7. ASSUME NEW x \in D
        PROVE  \E j \in Buf : Has(a, j, x) /\ a.refcnt[j] > 0
    <2>1. PICK j \in Buf : Has(c, j, x) /\ c.refcnt[j] > 0
      BY <1>7, Zenon DEF CacheOk, Pinned
    <2>2. Has(a, j, x)
      BY <1>2, <2>1, Zenon DEF Has
    <2> QED  BY <1>2, <2>1, <2>2, Zenon
  <1>8. CacheOk(a, d, D)
    BY <1>2, <1>6, <1>7, Zenon DEF CacheOk, Pinned
  <1> QED  BY <1>2, <1>4, <1>5, <1>8, Zenon DEF Acquired, a

\* What bread() of block b leaves of cache c over disk d: r, with b in s.
ReadInto(c, r, d, D, b, s) ==
    /\ CacheOk(r, d, D) /\ s \in Buf /\ Has(r, s, b)
    /\ r.data[s] = Shown(c, d, b)
    /\ \A x \in Disk : Shown(r, d, x) = Shown(c, d, x)
    /\ \A i \in Buf : r.refcnt[i] = c.refcnt[i] + (IF i = s THEN 1 ELSE 0)
    /\ \A i \in Buf : c.refcnt[i] # 0 => r.blockno[i] = c.blockno[i]
    /\ \A i \in Buf, x \in Disk : c.refcnt[i] # 0 /\ Has(c, i, x) => Has(r, i, x)

\* bread(), when bget() does not panic.
LEMMA BreadOk ==
  ASSUME NEW c, NEW d \in [Disk -> Content], NEW D \in SUBSET Disk,
         CacheOk(c, d, D), NEW b \in Disk, ~NoBuffers(c, b), NEW p \in Proc,
         MaxExists
  PROVE  \E s \in Buf : ReadInto(c, bread(c, d, b, p), d, D, b, s)
  <1> DEFINE g == bget(c, b)
  <1>1. Sound(c)
    BY Zenon DEF CacheOk
  <1>2. PICK s \in Buf : Got(c, g, b, s)
    BY <1>1, BgetGot, Zenon
  <1> DEFINE r == acquire_read(g, d, s, p)
  <1>3. bread(c, d, b, p) = r
    BY <1>2, Zenon DEF bread, Got
  <1> HIDE DEF g
  <1>4. CacheOk(g, d, D) /\ \A x \in Disk : Shown(g, d, x) = Shown(c, d, x)
    BY <1>2, GotOk, GotShows
  <1>5. /\ \A i \in Buf : g.refcnt[i] = c.refcnt[i] + (IF i = s THEN 1 ELSE 0)
        /\ \A i \in Buf : c.refcnt[i] # 0 => /\ g.blockno[i] = c.blockno[i]
                                             /\ g.valid[i] = c.valid[i]
        /\ g.blockno[s] = b
    BY <1>1, <1>2, GotKeeps
  <1>6. /\ CacheOk(r, d, D) /\ Has(r, s, b)
        /\ r.blockno = g.blockno /\ r.refcnt = g.refcnt
        /\ r.data[s] = Shown(g, d, b)
        /\ \A x \in Disk : Shown(r, d, x) = Shown(g, d, x)
        /\ \A j \in Buf : j # s => r.valid[j] = g.valid[j]
    <2>1. Acquired(g, r, d, D, s)
      BY <1>4, <1>5, AcquireOk, Zenon
    <2> QED  BY <1>5, <2>1, Zenon DEF Acquired
  <1> HIDE DEF r
  <1>7. ASSUME NEW i \in Buf, NEW x \in Disk, c.refcnt[i] # 0, Has(c, i, x)
        PROVE  Has(r, i, x)
    BY <1>5, <1>6, <1>7, Zenon DEF Has
  <1>8. ReadInto(c, r, d, D, b, s)
    <2>1. r.data[s] = Shown(c, d, b)
      BY <1>4, <1>6, Zenon
    <2>2. \A x \in Disk : Shown(r, d, x) = Shown(c, d, x)
      BY <1>4, <1>6, Zenon
    <2>3. \A i \in Buf : r.refcnt[i] = c.refcnt[i] + (IF i = s THEN 1 ELSE 0)
      BY <1>5, <1>6, Zenon
    <2>4. \A i \in Buf : c.refcnt[i] # 0 => r.blockno[i] = c.blockno[i]
      BY <1>5, <1>6, Zenon
    <2> QED  BY <1>6, <1>7, <2>1, <2>2, <2>3, <2>4, Zenon DEF ReadInto
  <1> QED  BY <1>3, <1>8, Zenon

\* The buffer that bread() has read into is the block's.
LEMMA ReadSlot ==
  ASSUME NEW c, NEW r, NEW d, NEW D, NEW b \in Disk, NEW s, ReadInto(c, r, d, D, b, s)
  PROVE  Slot(r, b) = s
  <1>1. Sound(r) /\ s \in Buf /\ r.blockno[s] = b
    BY Zenon DEF ReadInto, CacheOk, Has
  <1> QED  BY <1>1, SlotIs, Zenon

\* Cache e is c with new contents in buffer i, which has block b.
Filled(c, e, d, i, b, v) ==
    /\ Sound(e) /\ e.blockno = c.blockno /\ e.valid = c.valid
    /\ e.refcnt = c.refcnt /\ e.data[i] = v
    /\ \A x \in Disk : Shown(e, d, x) = IF x = b THEN v ELSE Shown(c, d, x)

\* New contents for one buffer change what the cache shows of its block.
LEMMA SetEffect ==
  ASSUME NEW c, Sound(c), NEW b \in Disk, NEW i \in Buf, Has(c, i, b),
         NEW v \in Content, NEW d
  PROVE  Filled(c, [c EXCEPT !.data[i] = v], d, i, b, v)
  <1> DEFINE e == [c EXCEPT !.data[i] = v]
  <1>1. c \in Cache
    BY Zenon DEF Sound
  <1>2. /\ e.blockno = c.blockno /\ e.valid = c.valid /\ e.refcnt = c.refcnt
        /\ e.data = [c.data EXCEPT ![i] = v]
    BY <1>1, Zenon DEF Cache
  <1>3. e \in Cache
    <2>1. [c.data EXCEPT ![i] = v] \in [Buf -> Content]
      BY <1>1, Zenon DEF Cache
    <2> QED  BY <1>1, <2>1, Zenon DEF Cache
  <1> HIDE DEF e
  <1>4. Sound(e)
    BY <1>2, <1>3, Zenon DEF Sound
  <1>5. e.data[i] = v /\ \A j \in Buf : j # i => e.data[j] = c.data[j]
    BY <1>1, <1>2, Zenon DEF Cache
  <1>6. \A j \in Buf, x \in Disk : Has(e, j, x) <=> Has(c, j, x)
    BY <1>2, Zenon DEF Has
  <1>7. ASSUME NEW x \in Disk
        PROVE  Shown(e, d, x) = IF x = b THEN v ELSE Shown(c, d, x)
    <2>1. CASE x = b
      <3>1. Has(e, i, x)
        BY <1>6, <2>1, Zenon
      <3> QED  BY <1>4, <1>5, <2>1, <3>1, ShownAt
    <2>2. CASE x # b /\ \E j \in Buf : Has(c, j, x)
      <3>1. PICK j \in Buf : Has(c, j, x)
        BY <2>2, Zenon
      <3>2. j # i
        BY <2>2, <3>1, Zenon DEF Has
      <3>3. Shown(c, d, x) = c.data[j]
        BY <3>1, ShownAt, Zenon
      <3>4. Has(e, j, x)
        BY <1>6, <3>1, Zenon
      <3>5. Shown(e, d, x) = e.data[j]
        BY <1>4, <3>4, ShownAt, Zenon
      <3> QED  BY <1>5, <2>2, <3>2, <3>3, <3>5, Zenon
    <2>3. CASE x # b /\ ~\E j \in Buf : Has(c, j, x)
      <3>1. \A j \in Buf : ~Has(c, j, x) /\ ~Has(e, j, x)
        BY <1>6, <2>3, Zenon
      <3>2. Shown(e, d, x) = d[x] /\ Shown(c, d, x) = d[x]
        BY <3>1, ShownDisk, Zenon
      <3> QED  BY <2>3, <3>2, Zenon
    <2> QED  BY <2>1, <2>2, <2>3, Zenon
  <1> QED  BY <1>2, <1>4, <1>5, <1>7, Zenon DEF Filled, e

\* Two caches that differ in references, locks and recency only.
Alike(c, e) ==
    /\ Sound(e) /\ e.blockno = c.blockno /\ e.valid = c.valid /\ e.data = c.data

\* Caches alike show the same.
LEMMA AlikeShows ==
  ASSUME NEW c, NEW e, Alike(c, e), NEW d
  PROVE  \A x : Shown(e, d, x) = Shown(c, d, x)
  <1>1. \A i, x : Has(e, i, x) <=> Has(c, i, x)
    BY Zenon DEF Alike, Has
  <1>2. e.data = c.data
    BY Zenon DEF Alike
  <1> QED  BY <1>1, <1>2, ShownSame

\* bpin() and bunpin(): the references of one buffer change.
LEMMA PinEffect ==
  ASSUME NEW c, Sound(c), NEW i \in Buf, NEW n \in Nat
  PROVE  LET e == [c EXCEPT !.refcnt[i] = n] IN
         Alike(c, e) /\ \A j \in Buf : e.refcnt[j] = IF j = i THEN n ELSE c.refcnt[j]
  <1> DEFINE e == [c EXCEPT !.refcnt[i] = n]
  <1>1. c \in Cache
    BY Zenon DEF Sound
  <1>2. /\ e.blockno = c.blockno /\ e.valid = c.valid /\ e.data = c.data
        /\ e.refcnt = [c.refcnt EXCEPT ![i] = n]
    BY <1>1, Zenon DEF Cache
  <1>3. e \in Cache
    <2>1. [c.refcnt EXCEPT ![i] = n] \in [Buf -> Nat]
      BY <1>1, Zenon DEF Cache
    <2> QED  BY <1>1, <2>1, Zenon DEF Cache
  <1>4. \A j \in Buf : e.refcnt[j] = IF j = i THEN n ELSE c.refcnt[j]
    BY <1>1, <1>2, Zenon DEF Cache
  <1> HIDE DEF e
  <1>5. Sound(e)
    BY <1>2, <1>3, Zenon DEF Sound
  <1> QED  BY <1>2, <1>4, <1>5, Zenon DEF Alike, e

\* brelse(): one reference fewer.
LEMMA RelseEffect ==
  ASSUME NEW c, Sound(c), NEW i \in Buf, c.refcnt[i] # 0
  PROVE  LET e == brelse(c, i) IN
         /\ Alike(c, e)
         /\ \A j \in Buf : e.refcnt[j] = IF j = i THEN c.refcnt[j] - 1 ELSE c.refcnt[j]
  \* The recently-used list stays a list of buffers.
  <1>a. ASSUME NEW lru \in [Buf -> Buf], NEW k \in Buf
        PROVE  MoveToFront(lru, k) \in [Buf -> Buf]
    <2> USE <1>a
    <2>1. ASSUME NEW j \in Buf, NEW m
          PROVE  (IF j = 1 THEN k ELSE IF j <= m THEN lru[j - 1] ELSE lru[j]) \in Buf
      <3>1. j # 1 => j - 1 \in Buf
        BY LogConstants DEF Buf
      <3> QED  BY <3>1, Zenon
    <2> QED  BY <2>1, Zenon DEF MoveToFront
  <1> DEFINE l == IF c.refcnt[i] = 1 THEN MoveToFront(c.lru, i) ELSE c.lru
             n == c.refcnt[i] - 1
             e == brelse(c, i)
  <1>1. c \in Cache
    BY Zenon DEF Sound
  <1>2. e = [c EXCEPT !.owner[i] = None, !.refcnt[i] = n, !.lru = l]
    BY Zenon DEF brelse
  <1>3. l \in [Buf -> Buf]
    BY <1>1, <1>a, Zenon DEF Cache
  <1>4. n \in Nat
    BY <1>1 DEF Cache
  <1>5. \A j \in Buf : (IF j = i THEN n ELSE c.refcnt[j])
                       = (IF j = i THEN c.refcnt[j] - 1 ELSE c.refcnt[j])
    BY Zenon
  <1> HIDE DEF e, l, n
  <1>6. /\ e.blockno = c.blockno /\ e.valid = c.valid /\ e.data = c.data
        /\ e.refcnt = [c.refcnt EXCEPT ![i] = n]
    BY <1>1, <1>2, Zenon DEF Cache
  <1>7. e \in Cache
    <2>1. /\ [c.refcnt EXCEPT ![i] = n] \in [Buf -> Nat]
          /\ [c.owner EXCEPT ![i] = None] \in [Buf -> Proc \cup {None}]
      BY <1>1, <1>4, Zenon DEF Cache
    <2> QED  BY <1>1, <1>2, <1>3, <2>1, Zenon DEF Cache
  <1>8. \A j \in Buf : e.refcnt[j] = IF j = i THEN n ELSE c.refcnt[j]
    BY <1>1, <1>6, Zenon DEF Cache
  <1>9. Sound(e)
    BY <1>6, <1>7, Zenon DEF Sound
  <1>10. Alike(c, e)
    BY <1>6, <1>9, Zenon DEF Alike
  <1> QED  BY <1>5, <1>8, <1>10, Zenon DEF e

\* Disk w is disk d with contents v in block b.
Put(d, w, b, v) ==
    w \in [Disk -> Content] /\ \A x \in Disk : w[x] = IF x = b THEN v ELSE d[x]

\* A block of the disk is written.
LEMMA PutIs ==
  ASSUME NEW d \in [Disk -> Content], NEW b \in Disk, NEW v \in Content, NEW w,
         w = [d EXCEPT ![b] = v]
  PROVE  Put(d, w, b, v)
  BY Zenon DEF Put

\* Cache c over disk d has become f over w: block b has contents v in both,
\* and the buffers that were in use have kept their blocks.
Stored(c, d, f, w, b, v) ==
    /\ Sound(f) /\ Put(d, w, b, v)
    /\ \A x \in Disk : Shown(f, w, x) = IF x = b THEN v ELSE Shown(c, d, x)
    /\ \A i \in Buf : c.refcnt[i] # 0 => f.blockno[i] = c.blockno[i]
    /\ \A i \in Buf, x \in Disk : c.refcnt[i] # 0 /\ Has(c, i, x) => Has(f, i, x)

\* Filling a block's buffer, bwrite() of it, and then the release.
LEMMA FillStored ==
  ASSUME NEW c, NEW d \in [Disk -> Content], NEW e, Sound(e),
         NEW b \in Disk, NEW i \in Buf, Has(e, i, b), NEW v \in Content,
         \A x \in Disk : Shown(e, d, x) = Shown(c, d, x),
         \A j \in Buf : c.refcnt[j] # 0 => e.blockno[j] = c.blockno[j],
         \A j \in Buf, x \in Disk : c.refcnt[j] # 0 /\ Has(c, j, x) => Has(e, j, x),
         NEW f, Alike([e EXCEPT !.data[i] = v], f), NEW w, Put(d, w, b, v)
  PROVE  Stored(c, d, f, w, b, v)
  \* bwrite() of a buffer changes nothing that the cache shows.
  <1>a. ASSUME NEW g, Sound(g), NEW k \in Buf, Has(g, k, b),
               \A x \in Disk : w[x] = IF x = b THEN g.data[k] ELSE d[x]
        PROVE  /\ \A x \in Disk : Shown(g, w, x) = Shown(g, d, x)
               /\ \A x \in Disk : w[x] = IF x = b THEN Shown(g, d, b) ELSE d[x]
    <2> USE <1>a
    <2>3. \A z : Shown(g, z, b) = g.data[k]
      BY ShownAt
    <2>4. ASSUME NEW x \in Disk
          PROVE  Shown(g, w, x) = Shown(g, d, x)
      <3>1. CASE x = b
        BY <2>3, <3>1, Zenon
      <3>2. CASE x # b /\ \E j \in Buf : Has(g, j, x)
        <4>1. PICK j \in Buf : Has(g, j, x)
          BY <3>2, Zenon
        <4>2. \A z : Shown(g, z, x) = g.data[j]
          BY <4>1, ShownAt
        <4> QED  BY <4>2, Zenon
      <3>3. CASE x # b /\ ~\E j \in Buf : Has(g, j, x)
        <4>1. \A z : Shown(g, z, x) = z[x]
          BY <3>3, ShownDisk
        <4> QED  BY <3>3, <4>1, Zenon
      <3> QED  BY <3>1, <3>2, <3>3, Zenon
    <2>5. \A x \in Disk : w[x] = IF x = b THEN Shown(g, d, b) ELSE d[x]
      BY <2>3, Zenon
    <2> QED  BY <2>4, <2>5, Zenon
  <1> DEFINE g == [e EXCEPT !.data[i] = v]
  <1>1. /\ Sound(g) /\ g.blockno = e.blockno /\ g.valid = e.valid /\ g.data[i] = v
        /\ \A x \in Disk : Shown(g, d, x) = IF x = b THEN v ELSE Shown(e, d, x)
    <2>1. Filled(e, g, d, i, b, v)
      BY SetEffect, Zenon
    <2> QED  BY <2>1, Zenon DEF Filled
  <1>2. Alike(g, f)
    OBVIOUS
  <1> HIDE DEF g
  <1>3. Has(g, i, b)
    BY <1>1, Zenon DEF Has
  <1>4. \A x \in Disk : w[x] = IF x = b THEN v ELSE d[x]
    BY Zenon DEF Put
  <1>5. \A x \in Disk : Shown(g, w, x) = Shown(g, d, x)
    <2>1. \A x \in Disk : w[x] = IF x = b THEN g.data[i] ELSE d[x]
      BY <1>1, <1>4, Zenon
    <2> QED  BY <1>1, <1>3, <2>1, <1>a, Zenon
  <1>6. \A x \in Disk : Shown(f, w, x) = IF x = b THEN v ELSE Shown(c, d, x)
    <2>1. \A x : Shown(f, w, x) = Shown(g, w, x)
      BY <1>2, AlikeShows
    <2> QED  BY <1>1, <1>5, <2>1, Zenon
  <1>7. f.blockno = e.blockno /\ f.valid = e.valid /\ Sound(f)
    BY <1>1, <1>2, Zenon DEF Alike
  <1>8. \A j \in Buf, x \in Disk : Has(e, j, x) => Has(f, j, x)
    BY <1>7, Zenon DEF Has
  <1>9. \A j \in Buf : c.refcnt[j] # 0 => f.blockno[j] = c.blockno[j]
    BY <1>7, Zenon
  <1>10. \A j \in Buf, x \in Disk : c.refcnt[j] # 0 /\ Has(c, j, x) => Has(f, j, x)
    BY <1>8, Zenon
  <1> QED  BY <1>6, <1>7, <1>9, <1>10, Zenon DEF Stored

\* A stored block is clean, the other blocks are as clean as before.
LEMMA StoredClean ==
  ASSUME NEW c, NEW d, NEW f, NEW w, NEW b, NEW v, NEW D,
         Stored(c, d, f, w, b, v), Clean(c, d, D)
  PROVE  Clean(f, w, D \ {b})
  BY Zenon DEF Stored, Clean, Put

\* The blocks of D stay pinned while their buffers' references stay.
LEMMA StoredPinned ==
  ASSUME NEW c, NEW d, NEW f, NEW w, NEW b, NEW v, NEW D \in SUBSET Disk,
         Stored(c, d, f, w, b, v), Sound(c), Pinned(c, D),
         \A i \in Buf : c.blockno[i] \in D => f.refcnt[i] = c.refcnt[i]
  PROVE  Pinned(f, D)
  <1>1. SUFFICES ASSUME NEW x \in D
                 PROVE  \E i \in Buf : Has(f, i, x) /\ f.refcnt[i] > 0
    BY Zenon DEF Pinned
  <1>2. PICK i \in Buf : Has(c, i, x) /\ c.refcnt[i] > 0
    BY Zenon DEF Pinned
  <1>3. c.refcnt[i] # 0
    BY <1>2 DEF Sound, Cache
  <1>4. Has(f, i, x)
    BY <1>2, <1>3, Zenon DEF Stored
  <1>5. f.refcnt[i] = c.refcnt[i]
    BY <1>2, Zenon DEF Has
  <1> QED  BY <1>2, <1>4, <1>5, Zenon

\* brelse() undid what bread() did to the references.
SameRefs(c, f) == \A i \in Buf : f.refcnt[i] = c.refcnt[i]

\* The block numbers of a round: lh[tail] at home and its place in the log.
LEMMA RoundBlocks ==
  ASSUME IsLog(lh), tail \in Nat \ {0}, tail <= Len(lh)
  PROVE  /\ LogBlock(tail) \in Disk /\ lh[tail] \in Home /\ lh[tail] \in Disk
         /\ LogBlock(tail) # lh[tail] /\ LogBlock(tail) # LogStart
         /\ lh[tail] # LogStart /\ LogBlock(tail) \notin Home
  <1>1. lh[tail] \in Home
    BY DEF IsLog
  <1>2. tail <= log_size - 1 /\ NHOME \in Nat /\ log_size \in Nat
    BY LogConstants DEF IsLog, log_size
  <1>3. /\ LogBlock(tail) \in LogStart .. LogStart + log_size - 1
        /\ LogBlock(tail) # LogStart /\ LogBlock(tail) \notin Home
    BY <1>2 DEF LogBlock, LogStart, Home
  <1>4. LogStart \notin Home
    BY <1>2 DEF LogStart, Home
  <1> QED  BY <1>1, <1>3, <1>4, Zenon DEF Disk

\* Two buffers released one after the other.
LEMMA RelseTwo ==
  ASSUME NEW c, Sound(c), NEW i \in Buf, NEW j \in Buf, i # j,
         c.refcnt[i] # 0, c.refcnt[j] # 0
  PROVE  LET e == brelse(brelse(c, i), j) IN
         /\ Alike(c, e)
         /\ \A k \in Buf : e.refcnt[k] = IF k = i \/ k = j THEN c.refcnt[k] - 1
                                         ELSE c.refcnt[k]
  <1> DEFINE a == brelse(c, i)
  <1>1. /\ Alike(c, a)
        /\ \A k \in Buf : a.refcnt[k] = IF k = i THEN c.refcnt[k] - 1 ELSE c.refcnt[k]
    BY RelseEffect, Zenon
  <1> DEFINE e == brelse(a, j)
  <1> HIDE DEF a
  <1>2. Sound(a) /\ a.refcnt[j] # 0
    BY <1>1, Zenon DEF Alike
  <1>3. /\ Alike(a, e)
        /\ \A k \in Buf : e.refcnt[k] = IF k = j THEN a.refcnt[k] - 1 ELSE a.refcnt[k]
    BY <1>2, RelseEffect, Zenon
  <1> HIDE DEF e
  <1>4. Alike(c, e)
    BY <1>1, <1>3, Zenon DEF Alike
  <1>5. \A k \in Buf : e.refcnt[k] = IF k = i \/ k = j THEN c.refcnt[k] - 1
                                     ELSE c.refcnt[k]
    BY <1>1, <1>3, Zenon
  <1> QED  BY <1>4, <1>5, Zenon DEF a, e

\* Cache g comes from cache c in a round of the copying loop: the log block l
\* is in buffer k, the home block h in t, and one of them, to, has the
\* contents v of the other; neither is released yet.
RoundAt(c, g, l, h, k, t, to, v) ==
    /\ k # t /\ Sound(g) /\ Slot(g, l) = k /\ Slot(g, h) = t
    /\ g.blockno[k] = l /\ g.blockno[t] = h
    /\ \A f : Alike(g, f) => Stored(c, disk, f, Written(g, to), to, v)
    /\ \A i \in Buf : g.refcnt[i] = c.refcnt[i] + (IF i = t THEN 1 ELSE 0)
    /\ \A i \in Buf : c.refcnt[i] # 0 => g.blockno[i] = c.blockno[i]

\* The rest of a round of write_log() or install_trans(), once the log block
\* is held: the second bread() and the memmove() between the two buffers.
LEMMA RoundCopied ==
  ASSUME NEW c, NEW D \in SUBSET Disk, CacheOk(c, disk, D), disk \in [Disk -> Content],
         NEW l \in Disk, NEW h \in Disk, l # h, MaxExists,
         NEW k \in Buf, Has(c, k, l), c.refcnt[k] # 0,
         NEW p \in Proc, NEW e \in Bread(c, h, p),
         NEW from \in {l, h}, NEW to \in {l, h}, from # to
  PROVE  \E t \in Buf : RoundAt(c, Copied(e, from, to), l, h, k, t, to,
                                Shown(c, disk, from))
  <1> DEFINE g == Copied(e, from, to)
             v == Shown(c, disk, from)
  <1>1. ~NoBuffers(c, h) /\ e = bread(c, disk, h, p)
    BY Zenon DEF Bread
  <1>2. from \in Disk /\ to \in Disk /\ from # to
    OBVIOUS
  <1>3. PICK t \in Buf : ReadInto(c, e, disk, D, h, t)
    BY <1>1, BreadOk, Zenon
  <1>4. /\ Sound(e) /\ Has(e, t, h) /\ Has(e, k, l)
        /\ \A x \in Disk : Shown(e, disk, x) = Shown(c, disk, x)
        /\ \A i \in Buf : c.refcnt[i] # 0 => e.blockno[i] = c.blockno[i]
        /\ \A i \in Buf, x \in Disk : c.refcnt[i] # 0 /\ Has(c, i, x) => Has(e, i, x)
        /\ \A i \in Buf : e.refcnt[i] = c.refcnt[i] + (IF i = t THEN 1 ELSE 0)
    BY <1>3, Zenon DEF ReadInto, CacheOk
  <1>5. k # t
    BY <1>4, Zenon DEF Has
  <1>6. PICK i \in Buf, j \in Buf : Has(e, i, from) /\ Has(e, j, to)
    <2>1. CASE from = l /\ to = h
      BY <1>4, <2>1
    <2>2. CASE from = h /\ to = l
      BY <1>4, <2>2
    <2>3. (from = l /\ to = h) \/ (from = h /\ to = l)
      OBVIOUS
    <2> QED  BY <2>1, <2>2, <2>3, Zenon
  <1>7. Slot(e, from) = i /\ Slot(e, to) = j
    BY <1>2, <1>4, <1>6, SlotIs DEF Has
  <1>8. v = e.data[i]
    BY <1>2, <1>4, <1>6, ShownAt
  <1>9. v \in Content
    BY <1>4, <1>6, <1>8 DEF Sound, Cache
  <1>10. g = [e EXCEPT !.data[j] = v]
    BY <1>7, <1>8, Zenon DEF Copied
  <1> HIDE DEF g, v
  <1>11. Filled(e, [e EXCEPT !.data[j] = v], disk, j, to, v)
    BY <1>2, <1>4, <1>6, <1>9, SetEffect, Zenon
  <1>12. Sound(g) /\ g.blockno = e.blockno /\ g.refcnt = e.refcnt /\ g.data[j] = v
    BY <1>10, <1>11, Zenon DEF Filled
  <1>13. g.blockno[k] = l /\ g.blockno[t] = h /\ g.blockno[j] = to
    BY <1>4, <1>6, <1>12, Zenon DEF Has
  <1>14. Slot(g, l) = k /\ Slot(g, h) = t /\ Slot(g, to) = j
    BY <1>2, <1>12, <1>13, SlotIs
  <1>15. Put(disk, Written(g, to), to, v)
    <2>1. Written(g, to) = [disk EXCEPT ![to] = v]
      BY <1>12, <1>14, Zenon DEF Written
    <2> QED  BY <1>2, <1>9, <2>1, PutIs, Zenon
  <1>16. ASSUME NEW f, Alike(g, f)
         PROVE  Stored(c, disk, f, Written(g, to), to, v)
    <2>1. Alike([e EXCEPT !.data[j] = v], f)
      BY <1>10, <1>16, Zenon
    <2> QED  BY <1>2, <1>4, <1>6, <1>9, <1>15, <2>1, FillStored, Zenon
  <1>17. RoundAt(c, g, l, h, k, t, to, v)
    BY <1>4, <1>5, <1>12, <1>13, <1>14, <1>16, Zenon DEF RoundAt
  <1> QED  BY <1>17, Zenon DEF g, v

\* The user of buffer k has given it back.
Released(c, f, k) ==
    \A i \in Buf : f.refcnt[i] = IF i = k THEN c.refcnt[i] - 1 ELSE c.refcnt[i]

\* The rest of a round of write_log(): the cached home block goes to the log.
LEMMA WriteLogEffect ==
  ASSUME NEW D \in SUBSET Disk, CacheOk(bc, disk, D), disk \in [Disk -> Content],
         IsLog(lh), tail \in Nat \ {0}, tail <= Len(lh), MaxExists,
         NEW p \in Proc, Has(bc, cur[p], LogBlock(tail)), bc.refcnt[cur[p]] # 0,
         write_log(p)
  PROVE  \/ panic' /\ UNCHANGED <<disk, bc>>
         \/ /\ Stored(bc, disk, bc', disk', LogBlock(tail), Shown(bc, disk, lh[tail]))
            /\ Released(bc, bc', cur[p]) /\ UNCHANGED panic
  <1> DEFINE l == LogBlock(tail)
             h == lh[tail]
             k == cur[p]
  <1>1. l \in Disk /\ h \in Disk /\ l # h /\ k \in Buf /\ Has(bc, k, l)
    BY RoundBlocks, Zenon DEF Has
  <1>2. CASE Panic
    BY <1>2, Zenon DEF Panic
  <1>3. CASE \E c \in Bread(bc, h, p) : \E e \in {Copied(c, h, l)} :
               /\ disk' = Written(e, l)
               /\ bc' = brelse(brelse(e, Slot(e, h)), Slot(e, l))
               /\ UNCHANGED panic
    <2> HIDE DEF l, h
    <2>1. PICK c \in Bread(bc, h, p) :
               /\ disk' = Written(Copied(c, h, l), l)
               /\ bc' = brelse(brelse(Copied(c, h, l), Slot(Copied(c, h, l), h)),
                               Slot(Copied(c, h, l), l))
               /\ UNCHANGED panic
      BY <1>3, Zenon
    <2> DEFINE g == Copied(c, h, l)
    <2>2. PICK t \in Buf : RoundAt(bc, g, l, h, k, t, l, Shown(bc, disk, h))
      BY <1>1, RoundCopied, Zenon
    <2>3. disk' = Written(g, l) /\ bc' = brelse(brelse(g, Slot(g, h)), Slot(g, l))
      BY <2>1, Zenon
    <2> HIDE DEF g, k
    <2>4. /\ Sound(g) /\ bc' = brelse(brelse(g, t), k) /\ k # t
          /\ \A i \in Buf : g.refcnt[i] = bc.refcnt[i] + (IF i = t THEN 1 ELSE 0)
      BY <2>2, <2>3, Zenon DEF RoundAt
    <2>5. \A i \in Buf : bc.refcnt[i] \in Nat
      BY Zenon DEF CacheOk, Sound, Cache
    <2>6. g.refcnt[t] # 0 /\ g.refcnt[k] # 0
      BY <1>1, <2>4, <2>5 DEF k
    <2>7. /\ Alike(g, bc')
          /\ \A i \in Buf : bc'.refcnt[i] = IF i = t \/ i = k THEN g.refcnt[i] - 1
                                            ELSE g.refcnt[i]
      BY <1>1, <2>4, <2>6, RelseTwo
    <2>8. Released(bc, bc', k)
      BY <2>4, <2>5, <2>7 DEF Released
    <2>9. Stored(bc, disk, bc', disk', l, Shown(bc, disk, h))
      BY <2>2, <2>3, <2>7, Zenon DEF RoundAt
    <2> QED  BY <2>1, <2>8, <2>9, Zenon DEF l, h, k
  <1> QED  BY <1>2, <1>3, Zenon DEF write_log

\* The buffer k is given back, and that of block h has lost log_write()'s pin.
Unpinned(c, f, k, h) ==
    \A i \in Buf : f.refcnt[i] = IF i = k \/ c.blockno[i] = h THEN c.refcnt[i] - 1
                                 ELSE c.refcnt[i]

\* The rest of a round of install_trans(), from cache c: the log block goes
\* home, and the home block is unpinned unless this is recovery.
LEMMA InstallEffect ==
  ASSUME NEW c, NEW D \in SUBSET Disk, CacheOk(c, disk, D), disk \in [Disk -> Content],
         IsLog(lh), tail \in Nat \ {0}, tail <= Len(lh), MaxExists,
         NEW k \in Buf, Has(c, k, LogBlock(tail)), c.refcnt[k] # 0,
         NEW p \in Proc, NEW recovering \in BOOLEAN, install_trans(p, c, recovering),
         ~recovering => lh[tail] \in D
  PROVE  \/ panic' /\ UNCHANGED <<disk, bc>>
         \/ /\ Stored(c, disk, bc', disk', lh[tail], Shown(c, disk, LogBlock(tail)))
            /\ recovering => Released(c, bc', k)
            /\ ~recovering => Unpinned(c, bc', k, lh[tail])
            /\ UNCHANGED panic
  <1> DEFINE l == LogBlock(tail)
             h == lh[tail]
  <1>1. l \in Disk /\ h \in Disk /\ l # h /\ Has(c, k, l)
    BY RoundBlocks, Zenon
  <1>2. CASE Panic
    BY <1>2, Zenon DEF Panic
  <1>3. CASE \E d \in Bread(c, h, p) : \E e \in {Copied(d, l, h)} :
               /\ disk' = Written(e, h)
               /\ \E f \in {IF recovering THEN e ELSE bunpin(e, Slot(e, h))} :
                    bc' = brelse(brelse(f, Slot(f, l)), Slot(f, h))
               /\ UNCHANGED panic
    <2> HIDE DEF l, h
    <2>1. PICK d \in Bread(c, h, p) : \E e \in {Copied(d, l, h)} :
               /\ disk' = Written(e, h)
               /\ \E f \in {IF recovering THEN e ELSE bunpin(e, Slot(e, h))} :
                    bc' = brelse(brelse(f, Slot(f, l)), Slot(f, h))
               /\ UNCHANGED panic
      BY <1>3, Zenon
    <2> DEFINE g == Copied(d, l, h)
               v == Shown(c, disk, l)
    <2>b. PICK t \in Buf : RoundAt(c, g, l, h, k, t, h, v)
      BY <1>1, RoundCopied, Zenon
    <2>2. /\ k # t /\ Sound(g) /\ Slot(g, l) = k /\ Slot(g, h) = t
          /\ g.blockno[k] = l /\ g.blockno[t] = h
          /\ \A f : Alike(g, f) => Stored(c, disk, f, Written(g, h), h, v)
          /\ \A i \in Buf : g.refcnt[i] = c.refcnt[i] + (IF i = t THEN 1 ELSE 0)
          /\ \A i \in Buf : c.refcnt[i] # 0 => g.blockno[i] = c.blockno[i]
      BY <2>b, Zenon DEF RoundAt
    <2> DEFINE e == IF recovering THEN g ELSE bunpin(g, t)
    <2>3. /\ disk' = Written(g, h) /\ UNCHANGED panic
          /\ bc' = brelse(brelse(e, Slot(e, l)), Slot(e, h))
      BY <2>1, <2>2, Zenon
    <2> HIDE DEF g, v
    <2>4. Sound(c) /\ \A i \in Buf : c.refcnt[i] \in Nat
      BY Zenon DEF CacheOk, Sound, Cache
    <2>5. ~recovering => c.blockno[t] = h /\ c.refcnt[t] # 0
      <3>1. SUFFICES ASSUME ~recovering
                     PROVE  c.blockno[t] = h /\ c.refcnt[t] # 0
        OBVIOUS
      <3>2. PICK i \in Buf : Has(c, i, h) /\ c.refcnt[i] > 0
        BY <3>1, Zenon DEF CacheOk, Pinned, h
      <3>3. c.refcnt[i] # 0
        BY <2>4, <3>2
      <3>4. g.blockno[i] = h /\ h # None
        BY <1>1, <2>2, <3>2, <3>3, LogConstants, Zenon DEF Has
      <3>5. i = t
        BY <2>2, <3>4, Zenon DEF Sound
      <3> QED  BY <3>2, <3>3, <3>5, Zenon DEF Has
    <2>6. /\ Alike(g, e)
          /\ \A i \in Buf : e.refcnt[i] = IF ~recovering /\ i = t THEN g.refcnt[i] - 1
                                          ELSE g.refcnt[i]
      <3>1. CASE recovering
        BY <2>2, <3>1, Zenon DEF Alike
      <3>2. CASE ~recovering
        <4>1. g.refcnt[t] - 1 \in Nat
          BY <2>2, <2>4
        <4>2. e = [g EXCEPT !.refcnt[t] = g.refcnt[t] - 1]
          BY <3>2, Zenon DEF bunpin
        <4> HIDE DEF e
        <4>3. /\ Alike(g, [g EXCEPT !.refcnt[t] = g.refcnt[t] - 1])
              /\ \A i \in Buf : [g EXCEPT !.refcnt[t] = g.refcnt[t] - 1].refcnt[i]
                                = IF i = t THEN g.refcnt[t] - 1 ELSE g.refcnt[i]
          BY <2>2, <4>1, PinEffect
        <4> QED  BY <3>2, <4>2, <4>3, Zenon
      <3> QED  BY <3>1, <3>2, Zenon
    <2> HIDE DEF e
    <2>7. Sound(e) /\ Slot(e, l) = k /\ Slot(e, h) = t
      <3>1. Sound(e) /\ e.blockno[k] = l /\ e.blockno[t] = h
        BY <2>2, <2>6, Zenon DEF Alike
      <3> QED  BY <1>1, <3>1, SlotIs, Zenon
    <2>8. bc' = brelse(brelse(e, k), t)
      BY <2>3, <2>7, Zenon
    <2>9. e.refcnt[k] # 0 /\ e.refcnt[t] # 0
      BY <2>2, <2>4, <2>5, <2>6
    <2>10. /\ Alike(e, bc')
           /\ \A i \in Buf : bc'.refcnt[i] = IF i = k \/ i = t THEN e.refcnt[i] - 1
                                             ELSE e.refcnt[i]
      BY <2>2, <2>7, <2>8, <2>9, RelseTwo
    <2>11. Stored(c, disk, bc', disk', h, v)
      <3>1. Alike(g, bc')
        BY <2>6, <2>10, Zenon DEF Alike
      <3> QED  BY <2>2, <2>3, <3>1, Zenon
    <2>12. \A i \in Buf : bc'.refcnt[i] = IF i = k \/ (~recovering /\ i = t)
                                          THEN c.refcnt[i] - 1 ELSE c.refcnt[i]
      <3>1. SUFFICES ASSUME NEW i \in Buf
                     PROVE  bc'.refcnt[i] = IF i = k \/ (~recovering /\ i = t)
                                            THEN c.refcnt[i] - 1 ELSE c.refcnt[i]
        OBVIOUS
      <3>2. /\ c.refcnt[i] \in Nat
            /\ g.refcnt[i] = c.refcnt[i] + (IF i = t THEN 1 ELSE 0)
            /\ e.refcnt[i] = IF ~recovering /\ i = t THEN g.refcnt[i] - 1 ELSE g.refcnt[i]
            /\ bc'.refcnt[i] = IF i = k \/ i = t THEN e.refcnt[i] - 1 ELSE e.refcnt[i]
        BY <2>2, <2>4, <2>6, <2>10, Zenon
      <3>3. k # t
        BY <2>2, Zenon
      <3> QED  BY <3>2, <3>3, SMT
    <2>13. recovering => Released(c, bc', k)
      BY <2>12, Zenon DEF Released
    <2>14. ~recovering => Unpinned(c, bc', k, h)
      <3>1. ASSUME NEW i \in Buf, ~recovering
            PROVE  c.blockno[i] = h <=> i = t
        <4>1. h # None
          BY <1>1, LogConstants, Zenon
        <4> QED  BY <2>4, <2>5, <3>1, <4>1, Zenon DEF Sound
      <3> QED  BY <2>12, <3>1, Zenon DEF Unpinned
    <2> QED  BY <2>3, <2>11, <2>13, <2>14, Zenon DEF l, h, v
  <1> QED  BY <1>2, <1>3, Zenon DEF install_trans

\* write_head(): the header block, on disk and in the cache.
LEMMA HeadEffect ==
  ASSUME NEW D \in SUBSET Disk, CacheOk(bc, disk, D), disk \in [Disk -> Content],
         MaxExists, NEW p \in Proc, NEW n \in Seq(Home), write_head(p, n)
  PROVE  \/ panic' /\ UNCHANGED <<disk, bc>>
         \/ /\ Stored(bc, disk, bc', disk', LogStart, n)
            /\ SameRefs(bc, bc') /\ UNCHANGED panic
  <1>1. LogStart \in Disk
    BY LogConstants DEF LogStart, Disk, log_size
  <1>2. CASE Panic
    BY <1>2, Zenon DEF Panic
  <1>3. CASE \E c \in Bread(bc, LogStart, p) :
               \E d \in {[c EXCEPT !.data[Slot(c, LogStart)] = n]} :
                 /\ disk' = Written(d, LogStart)
                 /\ bc' = brelse(d, Slot(d, LogStart))
                 /\ UNCHANGED panic
    <2>1. PICK c \in Bread(bc, LogStart, p) :
               \E d \in {[c EXCEPT !.data[Slot(c, LogStart)] = n]} :
                 /\ disk' = Written(d, LogStart)
                 /\ bc' = brelse(d, Slot(d, LogStart))
                 /\ UNCHANGED panic
      BY <1>3, Zenon
    <2>2. c = bread(bc, disk, LogStart, p) /\ ~NoBuffers(bc, LogStart)
      BY Zenon DEF Bread
    <2>3. PICK s \in Buf : ReadInto(bc, c, disk, D, LogStart, s)
      BY <1>1, <2>2, BreadOk, Zenon
    <2>4. Slot(c, LogStart) = s
      BY <1>1, <2>3, ReadSlot, Zenon
    <2> DEFINE g == [c EXCEPT !.data[s] = n]
    <2>5. disk' = Written(g, LogStart) /\ bc' = brelse(g, Slot(g, LogStart)) /\ UNCHANGED panic
      BY <2>1, <2>4, Zenon
    <2>6. n \in Content
      BY Zenon DEF Content
    <2>7. /\ Sound(c) /\ Has(c, s, LogStart)
          /\ \A x \in Disk : Shown(c, disk, x) = Shown(bc, disk, x)
          /\ \A k \in Buf : bc.refcnt[k] # 0 => c.blockno[k] = bc.blockno[k]
          /\ \A k \in Buf, x \in Disk : bc.refcnt[k] # 0 /\ Has(bc, k, x) => Has(c, k, x)
      BY <2>3, Zenon DEF ReadInto, CacheOk
    <2>8. Sound(g) /\ g.blockno = c.blockno /\ g.refcnt = c.refcnt /\ g.data[s] = n
      <3>1. Filled(c, g, disk, s, LogStart, n)
        BY <1>1, <2>6, <2>7, SetEffect, Zenon
      <3> QED  BY <3>1, Zenon DEF Filled
    <2>9. \A f, w : Alike(g, f) /\ Put(disk, w, LogStart, n)
                    => Stored(bc, disk, f, w, LogStart, n)
      BY <1>1, <2>6, <2>7, FillStored, Zenon
    <2> HIDE DEF g
    <2>10. Slot(g, LogStart) = s
      <3>1. g.blockno[s] = LogStart
        BY <2>7, <2>8, Zenon DEF Has
      <3> QED  BY <1>1, <2>8, <3>1, SlotIs, Zenon
    <2>11. disk' = [disk EXCEPT ![LogStart] = n] /\ bc' = brelse(g, s)
      BY <2>5, <2>8, <2>10, Zenon DEF Written
    <2>12. \A i \in Buf : /\ bc.refcnt[i] \in Nat
                          /\ g.refcnt[i] = bc.refcnt[i] + (IF i = s THEN 1 ELSE 0)
      <3>1. \A i \in Buf : bc.refcnt[i] \in Nat
        BY Zenon DEF CacheOk, Sound, Cache
      <3> QED  BY <2>3, <2>8, <3>1, Zenon DEF ReadInto
    <2>13. g.refcnt[s] # 0
      BY <2>12
    <2>14. /\ Alike(g, bc')
           /\ \A j \in Buf : bc'.refcnt[j] = IF j = s THEN g.refcnt[j] - 1 ELSE g.refcnt[j]
      BY <2>8, <2>11, <2>13, RelseEffect, Zenon
    <2>15. SameRefs(bc, bc')
      BY <2>12, <2>14 DEF SameRefs
    <2>16. Stored(bc, disk, bc', disk', LogStart, n)
      BY <1>1, <2>6, <2>9, <2>11, <2>14, PutIs, Zenon
    <2> QED  BY <2>5, <2>15, <2>16, Zenon
  <1> QED  BY <1>2, <1>3, Zenon DEF write_head

-----------------------------------------------------------------------------
\* What counting processes rests on.
CountsOk ==
    /\ MaxExists
    /\ Cardinality({}) = 0
    /\ \A S \in SUBSET Proc : Cardinality(S) \in Nat
    /\ \A S \in SUBSET Proc : \A p \in Proc \ S :
         Cardinality(S \cup {p}) = Cardinality(S) + 1

\* A set without one of its processes.
LEMMA CountLess ==
  ASSUME CountsOk, NEW S \in SUBSET Proc, NEW p \in S
  PROVE  Cardinality(S) = Cardinality(S \ {p}) + 1 /\ Cardinality(S \ {p}) \in Nat
  <1>1. S \ {p} \in SUBSET Proc /\ p \in Proc \ (S \ {p}) /\ (S \ {p}) \cup {p} = S
    BY Zenon
  <1> QED  BY <1>1, Zenon DEF CountsOk

\* Process p has gone to l; others have at most been woken.
Moved(p, l) ==
    /\ pc' \in [Proc -> Label] /\ pc'[p] = l
    /\ \A q \in Proc \ {p} : \/ pc'[q] = pc[q]
                             \/ pc[q] = "asleep" /\ pc'[q] = "begin"

\* A plain step of the program counter.
LEMMA GotoMoved ==
  ASSUME TypeOK, NEW p \in Proc, NEW l \in Label, Goto(p, l)
  PROVE  Moved(p, l)
  BY Zenon DEF TypeOK, Goto, Moved

\* A step that wakes those who sleep in begin_op().
LEMMA WakeMoved ==
  ASSUME TypeOK, NEW p \in Proc, NEW l \in Label, WakeLog(p, l)
  PROVE  Moved(p, l)
  BY Zenon DEF TypeOK, WakeLog, Moved, Label

\* The stage of commit() is no affair of processes outside it.
LEMMA MovedOutside ==
  ASSUME TypeOK, NEW p \in Proc, NEW l, Moved(p, l), pc[p] \notin CommitAt, l \notin CommitAt
  PROVE  /\ \A m \in CommitAt : At(m)' <=> At(m)
         /\ \A q \in Proc : pc'[q] \in CommitAt <=> pc[q] \in CommitAt
  <1>1. \A q \in Proc, m \in CommitAt : pc'[q] = m <=> pc[q] = m
    BY Zenon DEF Moved, CommitAt
  <1>2. \A m \in CommitAt : At(m)' <=> At(m)
    BY <1>1, Zenon DEF At
  <1> QED  BY <1>1, <1>2, Zenon

\* The stage of commit() is that of the one process that commits.
LEMMA MovedStage ==
  ASSUME TypeOK, CallsOk, NEW p \in Proc, NEW l, Moved(p, l), pc[p] \in CommitAt
  PROVE  /\ \A m \in CommitAt : At(m) <=> m = pc[p]
         /\ \A m \in CommitAt : At(m)' <=> m = l
         /\ \A q \in Proc \ {p} : pc'[q] \notin CommitAt
  <1>1. \A q \in Proc \ {p} : pc[q] \notin CommitAt
    BY Zenon DEF CallsOk
  <1>2. \A q \in Proc \ {p} : pc'[q] \notin CommitAt
    BY <1>1, Zenon DEF Moved, CommitAt
  <1>3. \A m \in CommitAt : At(m) <=> m = pc[p]
    BY <1>1, Zenon DEF At
  <1>4. \A m \in CommitAt : At(m)' <=> m = l
    BY <1>2, Zenon DEF At, Moved
  <1> QED  BY <1>2, <1>3, <1>4, Zenon

\* The open calls after a step of process p.
LEMMA MovedCalls ==
  ASSUME NEW p \in Proc, NEW l, Moved(p, l)
  PROVE  {q \in Proc : pc'[q] \in InCall} =
            IF l \in InCall THEN {q \in Proc : pc[q] \in InCall} \cup {p}
            ELSE {q \in Proc : pc[q] \in InCall} \ {p}
  <1>1. \A q \in Proc \ {p} : pc'[q] \in InCall <=> pc[q] \in InCall
    BY Zenon DEF Moved, InCall
  <1>2. pc'[p] = l
    BY Zenon DEF Moved
  <1> QED  BY <1>1, <1>2, Zenon

\* A step that neither opens nor closes a call, nor begins or ends a commit.
LEMMA CallsKept ==
  ASSUME TypeOK, CallsOk, NEW p \in Proc, NEW l, Moved(p, l), boot = "up",
         pc[p] \in CommitAt <=> l \in CommitAt, pc[p] \in InCall <=> l \in InCall,
         UNCHANGED <<outstanding, committing, boot>>
  PROVE  CallsOk'
  <1>1. \A q \in Proc : pc'[q] \in CommitAt <=> pc[q] \in CommitAt
    BY Zenon DEF Moved, CommitAt
  <1>2. \A q \in Proc : pc'[q] \in InCall <=> pc[q] \in InCall
    BY Zenon DEF Moved, InCall
  <1>3. {q \in Proc : pc'[q] \in InCall} = {q \in Proc : pc[q] \in InCall}
    BY <1>2, Zenon
  <1>4. (outstanding = Cardinality({q \in Proc : pc[q] \in InCall}))'
    BY <1>3, Zenon DEF CallsOk
  <1>5. (committing <=> \E q \in Proc : pc[q] \in CommitAt)'
    BY <1>1, Zenon DEF CallsOk
  <1>6. (\A q, r \in Proc : pc[q] \in CommitAt /\ pc[r] \in CommitAt => q = r)'
    BY <1>1, Zenon DEF CallsOk
  <1>7. (committing => \A q \in Proc : pc[q] \notin InCall)'
    BY <1>2, Zenon DEF CallsOk
  <1> QED  BY <1>4, <1>5, <1>6, <1>7, Zenon DEF CallsOk

\* A buffer that a process has is in use.
LEMMA HeldUsed ==
  ASSUME CountsOk, TypeOK, RefsOk, NEW p \in Proc, cur[p] \in Buf
  PROVE  bc.refcnt[cur[p]] # 0
  <1> DEFINE i == cur[p]
             S == {q \in Proc : cur[q] = i}
  <1>1. S \in SUBSET Proc /\ p \in S
    BY Zenon
  <1>2. Cardinality(S) # 0 /\ Cardinality(S) \in Nat
    <2> HIDE DEF S
    <2>1. Cardinality(S) = Cardinality(S \ {p}) + 1 /\ Cardinality(S \ {p}) \in Nat
      BY <1>1, CountLess, Zenon
    <2> QED  BY <2>1
  <1>3. bc.refcnt[i] = Cardinality(S) + (IF bc.blockno[i] \in Dirty THEN 1 ELSE 0)
    BY Zenon DEF RefsOk
  <1> QED  BY <1>2, <1>3

\* A step of p that cannot pull the log block from under a commit(): nobody
\* else is copying, or the round and the buffers in use stay as they are.
Undisturbed(p) ==
    \/ \A q \in Proc \ {p} : pc[q] \notin CopyAt
    \/ /\ tail' = tail
       /\ \A i \in Buf : bc.refcnt[i] # 0 /\ bc.valid[i] => bc'.valid[i]

\* The buffers of the other processes keep their blocks.
LEMMA OthersHold ==
  ASSUME CountsOk, TypeOK, HoldOk, RefsOk, NEW p \in Proc, NEW l, Moved(p, l),
         \A q \in Proc \ {p} : cur'[q] = cur[q], Undisturbed(p),
         \A i \in Buf : bc.refcnt[i] # 0 => bc'.blockno[i] = bc.blockno[i],
         IF l \in HoldsAt THEN cur'[p] \in Buf /\ bc'.blockno[cur'[p]] \in Home
         ELSE \/ cur'[p] = None
              \/ l \in CopyAt /\ Has(bc', cur'[p], LogBlock(tail'))
  PROVE  HoldOk'
  <1>1. SUFFICES ASSUME NEW q \in Proc \ {p}
                 PROVE  IF pc'[q] \in HoldsAt
                        THEN cur'[q] \in Buf /\ bc'.blockno[cur'[q]] \in Home
                        ELSE \/ cur'[q] = None
                             \/ pc'[q] \in CopyAt /\ Has(bc', cur'[q], LogBlock(tail'))
    BY Zenon DEF HoldOk, Moved
  <1>2. /\ pc'[q] \in HoldsAt <=> pc[q] \in HoldsAt
        /\ pc'[q] \in CopyAt <=> pc[q] \in CopyAt
    BY Zenon DEF Moved, HoldsAt, CopyAt
  <1>3. CASE pc[q] \in HoldsAt
    <2>1. cur[q] \in Buf /\ bc.blockno[cur[q]] \in Home
      BY <1>3, Zenon DEF HoldOk
    <2>2. bc.refcnt[cur[q]] # 0
      BY <2>1, HeldUsed, Zenon
    <2> QED  BY <1>2, <1>3, <2>1, <2>2, Zenon
  <1>4. CASE pc[q] \notin HoldsAt /\ cur[q] = None
    BY <1>2, <1>4, Zenon
  <1>5. CASE pc[q] \notin HoldsAt /\ pc[q] \in CopyAt /\ Has(bc, cur[q], LogBlock(tail))
    <2>1. cur[q] \in Buf
      BY <1>5, Zenon DEF Has
    <2>2. bc.refcnt[cur[q]] # 0
      BY <2>1, HeldUsed, Zenon
    <2>3. tail' = tail /\ (bc.valid[cur[q]] => bc'.valid[cur[q]])
      BY <1>5, <2>1, <2>2, Zenon DEF Undisturbed
    <2>4. Has(bc', cur[q], LogBlock(tail))
      BY <1>5, <2>1, <2>2, <2>3, Zenon DEF Has
    <2> QED  BY <1>2, <1>5, <2>3, <2>4, Zenon
  <1>6. \/ pc[q] \in HoldsAt
        \/ pc[q] \notin HoldsAt /\ cur[q] = None
        \/ pc[q] \notin HoldsAt /\ pc[q] \in CopyAt /\ Has(bc, cur[q], LogBlock(tail))
    BY Zenon DEF HoldOk
  <1> QED  BY <1>3, <1>4, <1>5, <1>6, Zenon

\* A process that is neither between bget() and brelse() nor in a copying loop
\* has no buffer.
LEMMA NoneHeld ==
  ASSUME HoldOk, NEW p \in Proc, pc[p] \notin HoldsAt, pc[p] \notin CopyAt
  PROVE  cur[p] = None
  BY Zenon DEF HoldOk

\* The same of a step that leaves the buffers' users alone.
LEMMA HoldKept ==
  ASSUME CountsOk, TypeOK, HoldOk, RefsOk, NEW p \in Proc, NEW l, Moved(p, l),
         pc[p] \notin HoldsAt, pc[p] \notin CopyAt, l \notin HoldsAt, cur' = cur,
         Undisturbed(p),
         \A i \in Buf : bc.refcnt[i] # 0 => bc'.blockno[i] = bc.blockno[i]
  PROVE  HoldOk'
  <1>1. cur'[p] = None /\ \A q \in Proc \ {p} : cur'[q] = cur[q]
    BY NoneHeld, Zenon
  <1> QED  BY <1>1, OthersHold, Zenon

\* The disk's blocks: home blocks, the header and the log blocks.
LEMMA Blocks ==
  /\ Home \subseteq Disk /\ LogStart \in Disk /\ LogStart \notin Home
  /\ Dirty \in SUBSET Disk /\ LogStart \notin Dirty /\ Dirty \subseteq Home
  <1>1. LogStart \in Disk /\ LogStart \notin Home
    BY LogConstants DEF LogStart, Disk, log_size, Home
  <1>2. Home \subseteq Disk
    BY Zenon DEF Disk
  <1>3. Dirty \subseteq Home
    BY Zenon DEF Dirty
  <1> QED  BY <1>1, <1>2, <1>3, Zenon

\* Nothing but the stage of commit(), its loop and the header decide what is
\* pinned.
LEMMA DirtyKept ==
  ASSUME \A m \in CommitAt : At(m)' <=> At(m), UNCHANGED <<lh, tail, boot>>
  PROVE  Dirty' = Dirty
  <1>1. At("clear")' <=> At("clear")
    BY Zenon DEF CommitAt
  <1>2. At("install")' <=> At("install")
    BY Zenon DEF CommitAt
  <1>3. ASSUME NEW b \in Home
        PROVE  b \in Dirty' <=> b \in Dirty
    BY <1>1, <1>2, Zenon DEF Dirty
  <1> QED  BY <1>3, Zenon DEF Dirty

\* The invariant after a step that leaves the disk, the log and the commit's
\* stage alone, and every block as it was seen.
LEMMA SameStageInv ==
  ASSUME LogInv, boot = "up", \A m \in CommitAt : At(m)' <=> At(m),
         UNCHANGED <<disk, lh, tail, boot>>,
         TypeOK', HoldOk', CallsOk', RefsOk', CacheOk(bc', disk, Dirty),
         \A x \in Disk : Shown(bc', disk, x) = Shown(bc, disk, x)
  PROVE  LogInv'
  <1>a. ASSUME boot = "up" => RunOk, IsLog(lh)
        PROVE  RunOk'
    <2> USE <1>a
    <2>1. /\ At("clear")' <=> At("clear")
          /\ At("install")' <=> At("install")
          /\ At("write_log")' <=> At("write_log")
          /\ At("write_head")' <=> At("write_head")
          /\ At("committed")' <=> At("committed")
      BY Zenon DEF CommitAt
    <2>2. \A k \in 1 .. Len(lh) : lh[k] \in Disk
      <3>1. \A k \in 1 .. Len(lh) : lh[k] \in Home
        BY DEF IsLog
      <3> QED  BY <3>1, Blocks, Zenon
    <2>3. \A k : Logged(k)' <=> Logged(k)
      BY <2>1, Zenon DEF Logged
    <2>4. (\A k \in 1 .. Len(lh) : Logged(k) => disk[LogBlock(k)] = Shown(bc, disk, lh[k]))'
      <3>1. \A k \in 1 .. Len(lh) : Logged(k) => disk[LogBlock(k)] = Shown(bc, disk, lh[k])
        BY Zenon DEF RunOk
      <3>2. ASSUME NEW k \in 1 .. Len(lh), Logged(k)'
            PROVE  disk[LogBlock(k)] = Shown(bc', disk, lh[k])
        BY <2>2, <2>3, <3>1, <3>2, Zenon
      <3> QED  BY <3>2, Zenon
    <2>5. (disk[LogStart] = IF At("install") \/ At("clear") THEN lh ELSE <<>>)'
      BY <2>1, Zenon DEF RunOk
    <2>6. (At("write_log") \/ At("install") => tail <= Len(lh))'
      BY <2>1, Zenon DEF RunOk
    <2>7. (At("write_head") => tail = 1 /\ lh # <<>>)' /\ (At("committed") => lh = <<>>)'
      BY <2>1, Zenon DEF RunOk
    <2> QED  BY <2>4, <2>5, <2>6, <2>7, Zenon DEF RunOk
  <1>1. TypeOK /\ IsLog(lh) /\ IsLog(disk[LogStart]) /\ (boot = "up" => RunOk)
    BY Zenon DEF LogInv
  <1>2. Dirty' = Dirty
    BY DirtyKept, Zenon
  <1>3. RunOk'
    BY <1>1, <1>a, Zenon
  <1>4. CacheOk(bc, disk, Dirty)'
    BY <1>2, Zenon
  <1> QED  BY <1>1, <1>3, <1>4, Zenon DEF LogInv

\* The invariant after such a step outside commit().
LEMMA QuietInv ==
  ASSUME LogInv, boot = "up", NEW p \in Proc, NEW l, Moved(p, l),
         pc[p] \notin CommitAt, l \notin CommitAt, UNCHANGED <<disk, lh, tail, boot>>,
         TypeOK', HoldOk', CallsOk', RefsOk', CacheOk(bc', disk, Dirty),
         \A x \in Disk : Shown(bc', disk, x) = Shown(bc, disk, x)
  PROVE  LogInv'
  <1>1. TypeOK
    BY Zenon DEF LogInv
  <1>2. \A m \in CommitAt : At(m)' <=> At(m)
    BY <1>1, MovedOutside, Zenon
  <1> QED  BY <1>2, SameStageInv, Zenon

\* A process that is doing something finds the system up.
LEMMA Running ==
  ASSUME LogInv, NEW p \in Proc, pc[p] # "idle"
  PROVE  boot = "up"
  BY Zenon DEF LogInv, CallsOk

\* A step that leaves the cache alone as well.
LEMMA StillInv ==
  ASSUME LogInv, CountsOk, boot = "up", NEW p \in Proc, NEW l, Moved(p, l),
         pc[p] \notin CommitAt, l \notin CommitAt, pc[p] \notin HoldsAt, l \notin HoldsAt,
         UNCHANGED <<disk, bc, lh, tail, boot, cur>>, TypeOK', CallsOk'
  PROVE  LogInv'
  <1>1. TypeOK /\ HoldOk /\ RefsOk /\ CacheOk(bc, disk, Dirty)
    BY Zenon DEF LogInv
  <1>2. HoldOk'
    <2>1. pc[p] \notin CopyAt /\ Undisturbed(p)
      BY Zenon DEF CopyAt, CommitAt, Undisturbed
    <2> QED  BY <1>1, <2>1, HoldKept, Zenon
  <1>3. Dirty' = Dirty
    BY <1>1, MovedOutside, DirtyKept, Zenon
  <1>4. RefsOk'
    BY <1>1, <1>3, Zenon DEF RefsOk
  <1> QED  BY <1>1, <1>2, <1>4, QuietInv, Zenon

\* A process enters a call.
LEMMA CallInv ==
  ASSUME LogInv, CountsOk, NEW p \in Proc, NEW bs \in SUBSET Home, Call(p, bs)
  PROVE  LogInv'
  <1>1. TypeOK /\ CallsOk /\ boot = "up" /\ pc[p] = "idle"
    BY Zenon DEF LogInv, Call
  <1>2. Moved(p, "begin")
    BY <1>1, GotoMoved, Zenon DEF Call, Label
  <1>3. TypeOK'
    <2>1. nops + 1 \in Value
      BY <1>1, LogConstants DEF TypeOK, Call, Value
    <2>2. todo' \in [Proc -> SUBSET Home] /\ val' \in [Proc -> Value]
      BY <1>1, <2>1, Zenon DEF TypeOK, Call
    <2>3. nops' \in Value /\ UNCHANGED <<disk, outstanding, committing, cur, tail, boot>>
      BY <2>1, Zenon DEF Call, logVars
    <2> QED  BY <1>1, <1>2, <2>2, <2>3, Zenon DEF TypeOK, Moved
  <1>4. UNCHANGED <<disk, bc, lh, outstanding, committing, tail, boot, cur>>
    BY Zenon DEF Call, logVars
  <1>5. CallsOk'
    BY <1>1, <1>2, <1>4, CallsKept, Zenon DEF CommitAt, InCall
  <1> QED  BY <1>1, <1>2, <1>3, <1>4, <1>5, StillInv, Zenon DEF CommitAt, HoldsAt

\* A process asks for log space, and gets it or sleeps.
LEMMA BeginInv ==
  ASSUME LogInv, CountsOk, NEW p \in Proc, begin_op(p)
  PROVE  LogInv'
  <1>1. TypeOK /\ CallsOk /\ pc[p] = "begin" /\ boot = "up"
    <2>1. pc[p] = "begin"
      BY Zenon DEF begin_op
    <2>2. boot = "up"
      BY <2>1, Running, Zenon
    <2> QED  BY <2>1, <2>2, Zenon DEF LogInv
  <1>2. UNCHANGED <<disk, bc, lh, committing, tail, boot, cur, todo, val, nops>>
    BY Zenon DEF begin_op, procVars, counts
  <1>3. CASE MustWait
    <2>1. Moved(p, "asleep") /\ UNCHANGED outstanding
      BY <1>1, <1>3, GotoMoved, Zenon DEF begin_op, Label
    <2>2. TypeOK'
      BY <1>1, <1>2, <2>1, Zenon DEF TypeOK, Moved
    <2>3. CallsOk'
      BY <1>1, <1>2, <2>1, CallsKept, Zenon DEF CommitAt, InCall
    <2> QED  BY <1>1, <1>2, <2>1, <2>2, <2>3, StillInv DEF CommitAt, HoldsAt
  <1>4. CASE ~MustWait
    <2>1. Moved(p, "op") /\ outstanding' = outstanding + 1 /\ ~committing
      BY <1>1, <1>4, GotoMoved, Zenon DEF begin_op, Label, MustWait
    <2>2. TypeOK'
      BY <1>1, <1>2, <2>1 DEF TypeOK, Moved
    <2> DEFINE S == {q \in Proc : pc[q] \in InCall}
    <2>3. {q \in Proc : pc'[q] \in InCall} = S \cup {p}
      BY <2>1, MovedCalls, Zenon DEF InCall
    <2>4. (outstanding = Cardinality({q \in Proc : pc[q] \in InCall}))'
      <3>1. S \in SUBSET Proc /\ p \notin S
        BY <1>1, Zenon DEF InCall
      <3>2. outstanding = Cardinality(S)
        BY <1>1, Zenon DEF CallsOk
      <3> HIDE DEF S
      <3>3. Cardinality(S \cup {p}) = Cardinality(S) + 1
        BY <3>1, Zenon DEF CountsOk
      <3> QED  BY <2>1, <2>3, <3>2, <3>3, Zenon
    <2>5. \A q \in Proc : pc'[q] \notin CommitAt
      <3>1. \A q \in Proc : pc'[q] \in CommitAt <=> pc[q] \in CommitAt
        BY <1>1, <2>1, MovedOutside, Zenon DEF CommitAt
      <3> QED  BY <1>1, <2>1, <3>1, Zenon DEF CallsOk
    <2>6. CallsOk'
      BY <1>1, <1>2, <2>1, <2>4, <2>5, Zenon DEF CallsOk
    <2> QED  BY <1>1, <1>2, <2>1, <2>2, <2>6, StillInv, Zenon DEF CommitAt, HoldsAt
  <1> QED  BY <1>3, <1>4, Zenon

\* bget() by a process outside commit(), when it does not panic.
LEMMA GetInv ==
  ASSUME LogInv, CountsOk, boot = "up", NEW p \in Proc, NEW b \in Home,
         NEW next \in HoldsAt, pc[p] \notin HoldsAt, pc[p] \notin CommitAt,
         pc[p] \in InCall <=> next \in InCall, Get(p, b, next)
  PROVE  Inv'
  \* A process takes a reference to buffer s.
  <1>a. ASSUME TypeOK, CacheOk(bc, disk, Dirty), RefsOk, cur[p] = None, NEW x \in Disk,
               NEW s \in Buf, Got(bc, bc', x, s), cur' = [cur EXCEPT ![p] = s],
               Dirty' = Dirty
        PROVE  RefsOk'
    <2> USE <1>a
    <2>1. Sound(bc)
      BY Zenon DEF CacheOk
    <2>2. /\ \A i \in Buf : bc'.refcnt[i] = bc.refcnt[i] + (IF i = s THEN 1 ELSE 0)
          /\ \A i \in Buf : bc.refcnt[i] # 0 => bc'.blockno[i] = bc.blockno[i]
          /\ bc'.blockno[s] = x
      BY <2>1, GotKeeps
    <2>3. \A i \in Buf : i # s => bc'.blockno[i] = bc.blockno[i]
      BY <2>1, Zenon DEF Sound, Cache, Got
    <2>4. bc'.blockno[s] \in Dirty <=> bc.blockno[s] \in Dirty
      <3>1. CASE bc.blockno[s] = x
        BY <2>2, <3>1, Zenon
      <3>2. CASE bc.refcnt[s] = 0 /\ CachedAt(bc, x) = {}
        <4>1. x \notin Dirty
          BY <3>2, Zenon DEF CacheOk, Pinned, Has, CachedAt
        <4>2. bc.blockno[s] \notin Dirty
          <5>1. {q \in Proc : cur[q] = s} \in SUBSET Proc
            BY Zenon
          <5>2. Cardinality({q \in Proc : cur[q] = s}) \in Nat
            BY <5>1, Zenon DEF CountsOk
          <5> QED  BY <3>2, <5>2 DEF RefsOk
        <4> QED  BY <2>2, <4>1, <4>2, Zenon
      <3> QED  BY <3>1, <3>2, Zenon DEF Got
    <2>5. SUFFICES ASSUME NEW i \in Buf
                   PROVE  bc'.refcnt[i] = Cardinality({q \in Proc : cur'[q] = i})
                                          + (IF bc'.blockno[i] \in Dirty THEN 1 ELSE 0)
      BY Zenon DEF RefsOk
    <2> DEFINE S == {q \in Proc : cur[q] = i}
               d == IF bc.blockno[i] \in Dirty THEN 1 ELSE 0
    <2>6. bc.refcnt[i] = Cardinality(S) + d /\ d = (IF bc'.blockno[i] \in Dirty THEN 1 ELSE 0)
      BY <2>3, <2>4, Zenon DEF RefsOk
    <2>7. d \in Nat
      OBVIOUS
    <2>8. CASE i = s
      <3>1. {q \in Proc : cur'[q] = i} = S \cup {p}
        BY <2>8, Zenon DEF TypeOK
      <3>2. p \notin S /\ S \in SUBSET Proc
        BY LogConstants, Zenon
      <3> HIDE DEF S, d
      <3>3. Cardinality(S \cup {p}) = Cardinality(S) + 1 /\ Cardinality(S) \in Nat
        BY <3>2, Zenon DEF CountsOk
      <3>4. bc'.refcnt[i] = bc.refcnt[i] + 1
        BY <2>2, <2>8, Zenon
      <3>5. bc'.refcnt[i] = Cardinality(S \cup {p}) + d
        BY <2>6, <2>7, <3>3, <3>4
      <3> QED  BY <2>6, <3>1, <3>5, Zenon
    <2>9. CASE i # s
      <3>1. {q \in Proc : cur'[q] = i} = S
        BY <2>9, LogConstants, Zenon DEF TypeOK
      <3>2. bc'.refcnt[i] = bc.refcnt[i]
        <4>1. bc.refcnt[i] \in Nat
          BY <2>1, Zenon DEF Sound, Cache
        <4> QED  BY <2>2, <2>9, <4>1
      <3> QED  BY <2>6, <3>1, <3>2, Zenon
    <2> QED  BY <2>8, <2>9, Zenon
  <1>1. CASE NoBuffers(bc, b)
    BY <1>1, Zenon DEF Get, Inv
  <1>2. CASE ~NoBuffers(bc, b)
    <2>1. /\ bc' = bget(bc, b) /\ cur' = [cur EXCEPT ![p] = Slot(bc', b)] /\ Goto(p, next)
          /\ UNCHANGED <<disk, lh, outstanding, committing, todo, val, tail, boot, nops>>
      BY <1>2, Zenon DEF Get, logVars
    <2>2. /\ TypeOK /\ HoldOk /\ CallsOk /\ RefsOk /\ CacheOk(bc, disk, Dirty)
          /\ Sound(bc) /\ MaxExists
      BY Zenon DEF LogInv, CacheOk, CountsOk
    <2>3. b \in Disk /\ Dirty \in SUBSET Disk
      BY Blocks, Zenon
    <2>4. PICK s \in Buf : Got(bc, bc', b, s)
      BY <1>2, <2>1, <2>2, <2>3, BgetGot, Zenon
    <2>5. cur' = [cur EXCEPT ![p] = s]
      BY <2>1, <2>4, Zenon DEF Got
    <2>6. next \in Label /\ next \notin CommitAt
      BY Zenon DEF HoldsAt, Label, CommitAt
    <2>7. Moved(p, next)
      BY <2>1, <2>2, <2>6, GotoMoved, Zenon
    <2>8. TypeOK'
      <3>1. cur' \in [Proc -> Buf \cup {None}]
        BY <2>2, <2>5, Zenon DEF TypeOK
      <3> QED  BY <2>1, <2>2, <2>7, <3>1, Zenon DEF TypeOK, Moved
    <2>9. CallsOk'
      BY <2>1, <2>2, <2>6, <2>7, CallsKept, Zenon
    <2>10. CacheOk(bc', disk, Dirty) /\ \A x \in Disk : Shown(bc', disk, x) = Shown(bc, disk, x)
      BY <2>2, <2>3, <2>4, GotOk, GotShows
    <2>11. /\ bc'.blockno[s] = b
           /\ \A i \in Buf : bc.refcnt[i] # 0 => /\ bc'.blockno[i] = bc.blockno[i]
                                                 /\ bc'.valid[i] = bc.valid[i]
      BY <2>2, <2>3, <2>4, GotKeeps
    <2>12. HoldOk'
      <3>1. cur'[p] = s /\ \A q \in Proc \ {p} : cur'[q] = cur[q]
        BY <2>2, <2>5, Zenon DEF TypeOK
      <3>2. Undisturbed(p)
        BY <2>1, <2>11, Zenon DEF Undisturbed
      <3> QED  BY <2>2, <2>7, <2>11, <3>1, <3>2, OthersHold, Zenon
    <2>13. Dirty' = Dirty
      BY <2>1, <2>2, <2>6, <2>7, MovedOutside, DirtyKept, Zenon
    <2>14. RefsOk'
      <3>1. cur[p] = None
        BY <2>2, NoneHeld, Zenon DEF CopyAt, CommitAt
      <3> QED  BY <2>2, <2>3, <2>4, <2>5, <2>13, <3>1, <1>a, Zenon
    <2>15. LogInv'
      BY <2>1, <2>6, <2>7, <2>8, <2>9, <2>10, <2>12, <2>14, QuietInv
    <2> QED  BY <2>15, Zenon DEF Inv
  <1> QED  BY <1>1, <1>2, Zenon

\* bread() for a block of the call.
LEMMA GetToWriteInv ==
  ASSUME LogInv, CountsOk, NEW p \in Proc, GetToWrite(p)
  PROVE  Inv'
  <1>1. pc[p] = "op"
    BY Zenon DEF GetToWrite
  <1>2. boot = "up"
    BY <1>1, Running, Zenon
  <1>3. PICK b \in todo[p] : Get(p, b, "got")
    BY Zenon DEF GetToWrite
  <1>4. b \in Home
    BY Zenon DEF LogInv, TypeOK
  <1> QED  BY <1>1, <1>2, <1>3, <1>4, GetInv, Zenon DEF HoldsAt, CommitAt, InCall

\* bread() for a plain read().
LEMMA GetToReadInv ==
  ASSUME LogInv, CountsOk, NEW p \in Proc, GetToRead(p)
  PROVE  Inv'
  <1>1. pc[p] = "idle" /\ boot = "up"
    BY Zenon DEF GetToRead
  <1>2. PICK b \in Home : Get(p, b, "reading")
    BY LogConstants, Zenon DEF GetToRead
  <1> QED  BY <1>1, <1>2, GetInv, Zenon DEF HoldsAt, CommitAt, InCall

\* The block a process has a buffer for.
LEMMA HeldBlock ==
  ASSUME LogInv, CountsOk, NEW p \in Proc, pc[p] \in HoldsAt
  PROVE  /\ cur[p] \in Buf /\ bc.blockno[cur[p]] \in Home /\ bc.blockno[cur[p]] \in Disk
         /\ bc.refcnt[cur[p]] # 0 /\ boot = "up"
  <1>1. cur[p] \in Buf /\ bc.blockno[cur[p]] \in Home
    BY Zenon DEF LogInv, HoldOk
  <1>2. bc.refcnt[cur[p]] # 0
    BY <1>1, HeldUsed, Zenon DEF LogInv
  <1>3. boot = "up"
    BY Running, Zenon DEF HoldsAt
  <1> QED  BY <1>1, <1>2, <1>3, Blocks, Zenon

\* bread()'s read of a block that bget() found or took.
LEMMA ReadAcquires ==
  ASSUME LogInv, CountsOk, NEW p \in Proc, Read(p)
  PROVE  Acquired(bc, bc', disk, Dirty, cur[p])
  <1>1. pc[p] = "reading" /\ bc' = acquire_read(bc, disk, cur[p], p)
    BY Zenon DEF Read
  <1>2. cur[p] \in Buf /\ bc.blockno[cur[p]] \in Disk
    BY <1>1, HeldBlock, Zenon DEF HoldsAt
  <1>3. CacheOk(bc, disk, Dirty) /\ disk \in [Disk -> Content]
    BY Zenon DEF LogInv, TypeOK
  <1>4. Dirty \in SUBSET Disk
    BY Blocks, Zenon
  <1> QED  BY <1>1, <1>2, <1>3, <1>4, AcquireOk, Zenon

\* The rest of bread() for a plain read().
LEMMA ReadInv ==
  ASSUME LogInv, CountsOk, NEW p \in Proc, Read(p)
  PROVE  LogInv'
  <1>1. pc[p] = "reading" /\ bc' = acquire_read(bc, disk, cur[p], p)
    BY Zenon DEF Read
  <1>2. UNCHANGED <<disk, lh, outstanding, committing, todo, val, cur, tail, boot, nops>>
    BY Zenon DEF Read, logVars, procVars, counts
  <1>3. /\ cur[p] \in Buf /\ bc.blockno[cur[p]] \in Home /\ bc.blockno[cur[p]] \in Disk
        /\ boot = "up"
    BY <1>1, HeldBlock, Zenon DEF HoldsAt
  <1>4. /\ TypeOK /\ HoldOk /\ CallsOk /\ RefsOk /\ CacheOk(bc, disk, Dirty)
        /\ disk \in [Disk -> Content]
    BY Zenon DEF LogInv, TypeOK
  <1>5. Moved(p, "done")
    BY <1>4, GotoMoved, Zenon DEF Read, Label
  <1>6. TypeOK'
    BY <1>2, <1>4, <1>5, Zenon DEF TypeOK, Moved
  <1>7. CallsOk'
    BY <1>1, <1>2, <1>3, <1>4, <1>5, CallsKept, Zenon DEF CommitAt, InCall
  <1>8. /\ CacheOk(bc', disk, Dirty) /\ bc'.blockno = bc.blockno /\ bc'.refcnt = bc.refcnt
        /\ \A x \in Disk : Shown(bc', disk, x) = Shown(bc, disk, x)
        /\ \A i \in Buf : bc.valid[i] => bc'.valid[i]
    BY ReadAcquires, Zenon DEF Acquired, Has
  <1>9. HoldOk'
    <2>1. "done" \in HoldsAt
      BY Zenon DEF HoldsAt
    <2>2. Undisturbed(p)
      BY <1>2, <1>8, Zenon DEF Undisturbed
    <2> QED  BY <1>2, <1>3, <1>4, <1>5, <1>8, <2>1, <2>2, OthersHold, Zenon
  <1>10. Dirty' = Dirty
    BY <1>1, <1>2, <1>4, <1>5, MovedOutside, DirtyKept, Zenon DEF CommitAt
  <1>11. RefsOk'
    BY <1>2, <1>4, <1>8, <1>10, Zenon DEF RefsOk
  <1> QED  BY <1>1, <1>2, <1>3, <1>5, <1>6, <1>7, <1>8, <1>9, <1>11, QuietInv, Zenon DEF CommitAt

\* brelse() by the process that read or modified the block.
LEMMA ReleaseInv ==
  ASSUME LogInv, CountsOk, NEW p \in Proc, Release(p)
  PROVE  LogInv'
  \* A process gives back its reference to buffer i.
  <1>a. ASSUME TypeOK, Sound(bc), RefsOk, NEW i \in Buf, cur[p] = i,
               bc'.blockno = bc.blockno, cur' = [cur EXCEPT ![p] = None],
               Dirty' = Dirty,
               \A j \in Buf : bc'.refcnt[j] = IF j = i THEN bc.refcnt[j] - 1 ELSE bc.refcnt[j]
        PROVE  RefsOk'
    <2> USE <1>a
    <2>1. SUFFICES ASSUME NEW j \in Buf
                   PROVE  bc'.refcnt[j] = Cardinality({q \in Proc : cur'[q] = j})
                                          + (IF bc.blockno[j] \in Dirty THEN 1 ELSE 0)
      BY Zenon DEF RefsOk
    <2> DEFINE S == {q \in Proc : cur[q] = j}
               d == IF bc.blockno[j] \in Dirty THEN 1 ELSE 0
    <2>2. bc.refcnt[j] = Cardinality(S) + d /\ d \in Nat
      BY Zenon DEF RefsOk
    <2>3. CASE j = i
      <3>1. {q \in Proc : cur'[q] = j} = S \ {p}
        BY <2>3, LogConstants, Zenon DEF TypeOK
      <3>2. p \in S /\ S \in SUBSET Proc
        BY <2>3, Zenon
      <3> HIDE DEF S, d
      <3>3. Cardinality(S) = Cardinality(S \ {p}) + 1 /\ Cardinality(S \ {p}) \in Nat
        BY <3>2, CountLess, Zenon
      <3>4. bc'.refcnt[j] = bc.refcnt[j] - 1
        BY <2>3, Zenon
      <3>5. bc'.refcnt[j] = Cardinality(S \ {p}) + d
        BY <2>2, <3>3, <3>4
      <3> QED  BY <3>1, <3>5, Zenon DEF d
    <2>4. CASE j # i
      <3>1. {q \in Proc : cur'[q] = j} = S
        BY <2>4, LogConstants, Zenon DEF TypeOK
      <3> QED  BY <2>2, <2>4, <3>1, Zenon
    <2> QED  BY <2>3, <2>4, Zenon
  <1> DEFINE i == cur[p]
             l == IF pc[p] = "release" THEN "op" ELSE "idle"
  <1>1. /\ pc[p] \in {"release", "done"} /\ bc' = brelse(bc, i)
        /\ cur' = [cur EXCEPT ![p] = None] /\ Goto(p, l)
    BY Zenon DEF Release
  <1>2. UNCHANGED <<disk, lh, outstanding, committing, todo, val, tail, boot, nops>>
    BY Zenon DEF Release, logVars, counts
  <1>3. pc[p] \in HoldsAt /\ pc[p] \notin CommitAt /\ (pc[p] \in InCall <=> l \in InCall)
    BY <1>1, Zenon DEF HoldsAt, CommitAt, InCall
  <1>4. l \in Label /\ l \notin CommitAt /\ l \notin HoldsAt
    BY Zenon DEF Label, CommitAt, HoldsAt
  <1> HIDE DEF l
  <1>5. i \in Buf /\ bc.refcnt[i] # 0 /\ boot = "up"
    BY <1>3, HeldBlock, Zenon
  <1>6. TypeOK /\ HoldOk /\ CallsOk /\ RefsOk /\ CacheOk(bc, disk, Dirty) /\ Sound(bc)
    BY Zenon DEF LogInv, CacheOk
  <1>7. Moved(p, l)
    BY <1>1, <1>4, <1>6, GotoMoved, Zenon
  <1>8. TypeOK'
    <2>1. cur' \in [Proc -> Buf \cup {None}]
      BY <1>1, <1>6, Zenon DEF TypeOK
    <2> QED  BY <1>2, <1>6, <1>7, <2>1, Zenon DEF TypeOK, Moved
  <1>9. CallsOk'
    BY <1>2, <1>3, <1>4, <1>5, <1>6, <1>7, CallsKept, Zenon
  <1>10. /\ Alike(bc, bc')
         /\ \A j \in Buf : bc'.refcnt[j] = IF j = i THEN bc.refcnt[j] - 1 ELSE bc.refcnt[j]
    BY <1>1, <1>5, <1>6, RelseEffect
  <1>11. \A x : Shown(bc', disk, x) = Shown(bc, disk, x)
    BY <1>10, AlikeShows
  <1>12. bc'.blockno = bc.blockno /\ bc'.valid = bc.valid /\ Sound(bc')
    BY <1>10, Zenon DEF Alike
  <1>13. Dirty' = Dirty
    BY <1>2, <1>3, <1>4, <1>6, <1>7, MovedOutside, DirtyKept, Zenon
  <1>14. RefsOk'
    BY <1>1, <1>5, <1>6, <1>10, <1>12, <1>13, <1>a, Zenon
  <1>15. HoldOk'
    <2>1. cur'[p] = None /\ \A q \in Proc \ {p} : cur'[q] = cur[q]
      BY <1>1, <1>6, Zenon DEF TypeOK
    <2>2. Undisturbed(p)
      BY <1>2, <1>12, Zenon DEF Undisturbed
    <2> QED  BY <1>4, <1>6, <1>7, <1>12, <2>1, <2>2, OthersHold, Zenon
  <1>16. CacheOk(bc', disk, Dirty)
    <2>1. Clean(bc', disk, Dirty)
      BY <1>6, <1>11, Zenon DEF CacheOk, Clean
    <2>2. ASSUME NEW b \in Dirty
          PROVE  \E j \in Buf : Has(bc', j, b) /\ bc'.refcnt[j] > 0
      <3>1. PICK j \in Buf : Has(bc, j, b)
        BY <1>6, Zenon DEF CacheOk, Pinned
      <3>2. Has(bc', j, b) /\ bc'.blockno[j] \in Dirty
        BY <1>12, <2>2, <3>1, Zenon DEF Has
      <3>3. Cardinality({q \in Proc : cur'[q] = j}) \in Nat
        <4>1. {q \in Proc : cur'[q] = j} \in SUBSET Proc
          BY Zenon
        <4> QED  BY <4>1, Zenon DEF CountsOk
      <3>4. bc'.refcnt[j] = Cardinality({q \in Proc : cur'[q] = j}) + 1
        BY <1>13, <1>14, <3>2, Zenon DEF RefsOk
      <3>5. bc'.refcnt[j] > 0
        BY <3>3, <3>4
      <3> QED  BY <3>2, <3>5, Zenon
    <2> QED  BY <1>12, <2>1, <2>2, Zenon DEF CacheOk, Pinned
  <1> QED  BY <1>2, <1>3, <1>4, <1>5, <1>7, <1>8, <1>9, <1>11, <1>14, <1>15, <1>16, QuietInv, Zenon

\* What the process writes goes into the buffer and nowhere else; a block new
\* to the transaction is recorded and pinned.
LEMMA ModifyEffect ==
  ASSUME LogInv, CountsOk, NEW p \in Proc, Modify(p)
  PROVE  LET i == cur[p]
             b == bc.blockno[cur[p]]
         IN /\ Sound(bc') /\ bc'.blockno = bc.blockno /\ Has(bc', i, b)
            /\ \A j \in Buf : bc.valid[j] => bc'.valid[j]
            /\ \A x \in Disk : Shown(bc', disk, x) = IF x = b THEN val[p]
                                                     ELSE Shown(bc, disk, x)
            /\ InLog(b) => lh' = lh /\ SameRefs(bc, bc')
            /\ ~InLog(b) =>
                 /\ lh' = Append(lh, b)
                 /\ \A j \in Buf : bc'.refcnt[j] = bc.refcnt[j] + (IF j = i THEN 1 ELSE 0)
  <1> DEFINE i == cur[p]
             b == bc.blockno[i]
             c == acquire_read(bc, disk, i, p)
             e == [c EXCEPT !.data[i] = val[p]]
  <1>1. i \in Buf /\ b \in Disk
    <2>1. pc[p] \in HoldsAt
      BY Zenon DEF Modify, HoldsAt
    <2> QED  BY <2>1, HeldBlock, Zenon
  <1>2. log_write(p, e)
    BY Zenon DEF Modify
  <1>3. Sound(bc) /\ disk \in [Disk -> Content] /\ CacheOk(bc, disk, Dirty)
    BY Zenon DEF LogInv, CacheOk, TypeOK
  <1>4. val[p] \in Content
    BY Zenon DEF LogInv, TypeOK, Content
  <1>5. /\ CacheOk(c, disk, Dirty) /\ Has(c, i, b) /\ c.blockno = bc.blockno
        /\ c.refcnt = bc.refcnt
        /\ \A x \in Disk : Shown(c, disk, x) = Shown(bc, disk, x)
        /\ \A j \in Buf : j # i => c.valid[j] = bc.valid[j]
    <2>1. Dirty \in SUBSET Disk
      BY Blocks, Zenon
    <2>2. Acquired(bc, c, disk, Dirty, i)
      BY <1>1, <1>3, <2>1, AcquireOk, Zenon
    <2> QED  BY <2>2, Zenon DEF Acquired
  <1>6. \A j \in Buf : bc.valid[j] => c.valid[j]
    BY <1>5, Zenon DEF Has
  <1> HIDE DEF c
  <1>7. Sound(c)
    BY <1>5, Zenon DEF CacheOk
  <1>8. /\ Sound(e) /\ e.blockno = c.blockno /\ e.valid = c.valid /\ e.refcnt = c.refcnt
        /\ \A x \in Disk : Shown(e, disk, x) = IF x = b THEN val[p] ELSE Shown(c, disk, x)
    <2> HIDE DEF i, b
    <2>1. Filled(c, e, disk, i, b, val[p])
      BY <1>1, <1>4, <1>5, <1>7, SetEffect, Zenon
    <2> QED  BY <2>1, Zenon DEF Filled
  <1> HIDE DEF e
  <1>9. /\ InLog(b) => lh' = lh /\ bc' = e
        /\ ~InLog(b) => lh' = Append(lh, b) /\ bc' = bpin(e, i)
    <2>1. e.blockno[i] = b
      BY <1>5, <1>8, Zenon
    <2> QED  BY <1>2, <2>1, Zenon DEF log_write
  <1>10. ~InLog(b) => /\ Alike(e, bc')
                      /\ \A j \in Buf : bc'.refcnt[j] = bc.refcnt[j] + (IF j = i THEN 1 ELSE 0)
    <2>1. \A j \in Buf : bc.refcnt[j] \in Nat
      BY <1>3, Zenon DEF Sound, Cache
    <2>2. e.refcnt[i] + 1 \in Nat
      <3>1. e.refcnt[i] \in Nat
        BY <1>1, <1>5, <1>8, <2>1, Zenon
      <3> QED  BY <3>1
    <2>3. LET f == [e EXCEPT !.refcnt[i] = e.refcnt[i] + 1] IN
          /\ Alike(e, f)
          /\ \A j \in Buf : f.refcnt[j] = IF j = i THEN e.refcnt[i] + 1 ELSE e.refcnt[j]
      BY <1>1, <1>8, <2>2, PinEffect
    <2>4. ~InLog(b) => bc' = [e EXCEPT !.refcnt[i] = e.refcnt[i] + 1]
      BY <1>9, Zenon DEF bpin
    <2>5. ~InLog(b) =>
            /\ Alike(e, bc')
            /\ \A j \in Buf : bc'.refcnt[j] = IF j = i THEN e.refcnt[i] + 1 ELSE e.refcnt[j]
      BY <2>3, <2>4, Zenon
    <2>6. ASSUME ~InLog(b), NEW j \in Buf
          PROVE  bc'.refcnt[j] = bc.refcnt[j] + (IF j = i THEN 1 ELSE 0)
      <3>1. /\ bc.refcnt[j] \in Nat
            /\ bc'.refcnt[j] = IF j = i THEN bc.refcnt[i] + 1 ELSE bc.refcnt[j]
        BY <1>5, <1>8, <2>1, <2>5, <2>6, Zenon
      <3>2. CASE j = i
        BY <3>1, <3>2, Zenon
      <3>3. CASE j # i
        <4>1. bc.refcnt[j] + 0 = bc.refcnt[j]
          BY <3>1
        <4> QED  BY <3>1, <3>3, <4>1, Zenon
      <3> QED  BY <3>2, <3>3, Zenon
    <2> QED  BY <2>5, <2>6, Zenon
  <1>11. Alike(e, bc')
    BY <1>8, <1>9, <1>10, Zenon DEF Alike
  <1>12. bc'.blockno = bc.blockno /\ bc'.valid = c.valid /\ Sound(bc')
    BY <1>5, <1>8, <1>11, Zenon DEF Alike
  <1>13. \A x \in Disk : Shown(bc', disk, x) = IF x = b THEN val[p] ELSE Shown(bc, disk, x)
    <2>1. \A x : Shown(bc', disk, x) = Shown(e, disk, x)
      BY <1>11, AlikeShows
    <2> QED  BY <1>5, <1>8, <2>1, Zenon
  <1>14. InLog(b) => SameRefs(bc, bc')
    BY <1>5, <1>8, <1>9, Zenon DEF SameRefs
  <1>15. Has(bc', i, b) /\ \A j \in Buf : bc.valid[j] => bc'.valid[j]
    BY <1>5, <1>6, <1>12, Zenon DEF Has
  <1> QED  BY <1>9, <1>10, <1>12, <1>13, <1>14, <1>15, Zenon

\* While a call is open nobody commits, and all of the log is pinned.
LEMMA OpenCall ==
  ASSUME LogInv, NEW p \in Proc, pc[p] \in InCall
  PROVE  /\ boot = "up" /\ ~committing /\ \A m \in CommitAt : ~At(m)
         /\ Dirty = {x \in Home : InLog(x)} /\ disk[LogStart] = <<>>
  <1>1. boot = "up"
    BY Running, Zenon DEF InCall
  <1>2. ~committing
    BY Zenon DEF LogInv, CallsOk
  <1>3. \A m \in CommitAt : ~At(m)
    BY <1>2, Zenon DEF LogInv, CallsOk, At
  <1>4. ~At("install") /\ ~At("clear")
    BY <1>3, Zenon DEF CommitAt
  <1>5. Dirty = {x \in Home : InLog(x)}
    BY <1>1, <1>4, Zenon DEF Dirty, InLog
  <1>6. disk[LogStart] = <<>>
    BY <1>1, <1>4, Zenon DEF LogInv, RunOk
  <1> QED  BY <1>1, <1>2, <1>3, <1>5, <1>6, Zenon

\* The modification of a block in an open call.
LEMMA ModifyInv ==
  ASSUME LogInv, CountsOk, NEW p \in Proc, Modify(p)
  PROVE  Inv'
  \* log_write()'s pin is the one reference more.
  \* One more block in the log.
  <1>a. ASSUME IsLog(lh), NEW b \in Home, ~InLog(b), Len(lh) < log_size - 1,
               lh' = Append(lh, b)
        PROVE  IsLog(lh') /\ \A x : InLog(x)' <=> InLog(x) \/ x = b
    <2> USE <1>a
    <2>1. lh \in Seq(Home) /\ Len(lh) \in Nat /\ log_size \in Nat
      BY LogConstants DEF IsLog, log_size
    <2>2. /\ lh' \in Seq(Home) /\ Len(lh') = Len(lh) + 1 /\ lh'[Len(lh) + 1] = b
          /\ \A k \in 1 .. Len(lh) : lh'[k] = lh[k]
      BY <2>1
    <2>3. Len(lh') <= log_size - 1
      BY <2>1, <2>2
    <2>4. \A k \in 1 .. Len(lh') : k \in 1 .. Len(lh) \/ k = Len(lh) + 1
      BY <2>1, <2>2
    <2>5. \A k \in 1 .. Len(lh) : k \in 1 .. Len(lh')
      BY <2>1, <2>2
    <2>6. Len(lh) + 1 \in 1 .. Len(lh')
      BY <2>1, <2>2
    <2>7. \A k \in 1 .. Len(lh) : lh[k] # b
      BY Zenon DEF InLog
    <2>8. \A s, t \in 1 .. Len(lh) : lh[s] = lh[t] => s = t
      BY Zenon DEF IsLog
    <2>9. ASSUME NEW s \in 1 .. Len(lh'), NEW t \in 1 .. Len(lh'), lh'[s] = lh'[t]
          PROVE  s = t
      BY <2>2, <2>4, <2>7, <2>8, <2>9, Zenon
    <2>10. ASSUME NEW x
           PROVE  (\E k \in 1 .. Len(lh') : lh'[k] = x) <=> InLog(x) \/ x = b
      BY <2>2, <2>4, <2>5, <2>6, Zenon DEF InLog
    <2> QED  BY <2>2, <2>3, <2>9, <2>10, Zenon DEF IsLog, InLog
  <1>b. ASSUME TypeOK, Sound(bc), RefsOk, NEW i \in Buf, NEW b \in Disk,
               bc.blockno[i] = b, b \notin Dirty, Dirty' = Dirty \cup {b},
               bc'.blockno = bc.blockno, cur' = cur,
               \A j \in Buf : bc'.refcnt[j] = bc.refcnt[j] + (IF j = i THEN 1 ELSE 0)
        PROVE  RefsOk'
    <2> USE <1>b
    <2>1. SUFFICES ASSUME NEW j \in Buf
                   PROVE  bc'.refcnt[j] = Cardinality({q \in Proc : cur[q] = j})
                                    + (IF bc.blockno[j] \in Dirty' THEN 1 ELSE 0)
      BY Zenon DEF RefsOk
    <2> DEFINE n == Cardinality({q \in Proc : cur[q] = j})
    <2>2. n \in Nat
      <3>1. {q \in Proc : cur[q] = j} \in SUBSET Proc
        BY Zenon
      <3> QED  BY <3>1, Zenon DEF CountsOk
    <2>3. bc.refcnt[j] = n + (IF bc.blockno[j] \in Dirty THEN 1 ELSE 0)
      BY Zenon DEF RefsOk
    <2> HIDE DEF n
    <2>4. CASE j = i
      <3>1. bc.refcnt[j] = n + 0 /\ bc.blockno[j] \in Dirty'
        BY <2>3, <2>4, Zenon
      <3>2. bc'.refcnt[j] = bc.refcnt[j] + 1
        BY <2>4, Zenon
      <3>3. bc'.refcnt[j] = n + 1
        BY <2>2, <3>1, <3>2
      <3> QED  BY <3>1, <3>3, Zenon DEF n
    <2>5. CASE j # i
      <3>1. bc.blockno[j] # b
        BY <2>5, LogConstants, Zenon DEF Sound
      <3>2. bc.blockno[j] \in Dirty' <=> bc.blockno[j] \in Dirty
        BY <3>1, Zenon
      <3>3. bc'.refcnt[j] = bc.refcnt[j] + 0
        BY <2>5, Zenon
      <3>4. bc.refcnt[j] \in Nat
        BY <2>2, <2>3
      <3>5. bc'.refcnt[j] = bc.refcnt[j]
        BY <3>3, <3>4
      <3> QED  BY <2>3, <3>2, <3>5, Zenon DEF n
    <2> QED  BY <2>4, <2>5, Zenon
  <1> DEFINE i == cur[p]
             b == bc.blockno[i]
  <1>1. SUFFICES ASSUME ~panic'
                 PROVE  LogInv'
    BY Zenon DEF Inv
  <1>2. /\ pc[p] = "got" /\ Goto(p, "release")
        /\ todo' = todo \/ todo' = [todo EXCEPT ![p] = todo[p] \ {b}]
    BY Zenon DEF Modify
  <1>3. UNCHANGED <<disk, outstanding, committing, val, cur, tail, boot, nops>>
    BY Zenon DEF Modify
  <1>4. /\ i \in Buf /\ b \in Home /\ b \in Disk /\ bc.refcnt[i] # 0 /\ boot = "up"
    BY <1>2, HeldBlock, Zenon DEF HoldsAt
  <1>5. /\ TypeOK /\ HoldOk /\ CallsOk /\ RefsOk /\ CacheOk(bc, disk, Dirty)
        /\ Sound(bc) /\ IsLog(lh) /\ IsLog(disk[LogStart])
    BY Zenon DEF LogInv, CacheOk
  <1>6. /\ ~committing /\ Dirty = {x \in Home : InLog(x)} /\ disk[LogStart] = <<>>
        /\ \A m \in CommitAt : ~At(m)
    <2>1. pc[p] \in InCall
      BY <1>2, Zenon DEF InCall
    <2> QED  BY <2>1, OpenCall, Zenon
  <1>7. Moved(p, "release")
    BY <1>2, <1>5, GotoMoved, Zenon DEF Label
  <1>8. /\ Sound(bc') /\ bc'.blockno = bc.blockno /\ Has(bc', i, b)
        /\ \A j \in Buf : bc.valid[j] => bc'.valid[j]
        /\ \A x \in Disk : Shown(bc', disk, x) = IF x = b THEN val[p]
                                                 ELSE Shown(bc, disk, x)
        /\ InLog(b) => lh' = lh /\ SameRefs(bc, bc')
        /\ ~InLog(b) =>
             /\ lh' = Append(lh, b)
             /\ \A j \in Buf : bc'.refcnt[j] = bc.refcnt[j] + (IF j = i THEN 1 ELSE 0)
    BY ModifyEffect, Zenon
  <1>9. Len(lh) < log_size - 1
    <2>1. Len(lh) \in Nat /\ log_size \in Nat
      <3>1. lh \in Seq(Home)
        BY <1>5, Zenon DEF IsLog
      <3>2. log_size \in Nat
        BY LogConstants, Zenon DEF log_size
      <3> QED  BY <3>1, <3>2
    <2>2. ~(Len(lh) >= log_size - 1)
      BY <1>1, Zenon DEF Modify, log_write
    <2> QED  BY <2>1, <2>2
  <1> HIDE DEF i, b
  <1>10. \A m \in CommitAt : ~At(m)'
    <2>1. \A m \in CommitAt : At(m)' <=> At(m)
      BY <1>2, <1>5, <1>7, MovedOutside, Zenon DEF CommitAt
    <2> QED  BY <1>6, <2>1, Zenon
  <1>11. IsLog(lh') /\ \A x : InLog(x)' <=> InLog(x) \/ x = b
    <2>1. CASE InLog(b)
      BY <1>5, <1>8, <2>1, Zenon DEF InLog
    <2>2. CASE ~InLog(b)
      BY <1>4, <1>5, <1>8, <1>9, <2>2, <1>a, Zenon
    <2> QED  BY <2>1, <2>2, Zenon
  <1>12. Dirty' = Dirty \cup {b}
    <2>1. ~At("install")' /\ ~At("clear")' /\ boot' = "up"
      BY <1>3, <1>4, <1>10, Zenon DEF CommitAt
    <2>2. Dirty' = {x \in Home : InLog(x)'}
      BY <2>1, Zenon DEF Dirty, InLog
    <2> QED  BY <1>4, <1>6, <1>11, <2>2, Zenon
  <1>13. TypeOK'
    <2>1. todo' \in [Proc -> SUBSET Home]
      BY <1>2, <1>5, Zenon DEF TypeOK
    <2> QED  BY <1>3, <1>5, <1>7, <2>1, Zenon DEF TypeOK, Moved
  <1>14. CallsOk'
    BY <1>2, <1>3, <1>4, <1>5, <1>7, CallsKept, Zenon DEF CommitAt, InCall
  <1>15. HoldOk'
    <2>1. "release" \in HoldsAt
      BY Zenon DEF HoldsAt
    <2>2. cur'[p] \in Buf /\ bc'.blockno[cur'[p]] \in Home
      BY <1>3, <1>4, <1>8, Zenon DEF i, b
    <2>3. Undisturbed(p)
      BY <1>3, <1>8, Zenon DEF Undisturbed
    <2> QED  BY <1>3, <1>5, <1>7, <1>8, <2>1, <2>2, <2>3, OthersHold, Zenon
  <1>16. RefsOk'
    <2>1. CASE InLog(b)
      <3>1. Dirty' = Dirty
        BY <1>4, <1>6, <1>12, <2>1, Zenon
      <3> QED  BY <1>3, <1>5, <1>8, <2>1, <3>1, Zenon DEF RefsOk, SameRefs
    <2>2. CASE ~InLog(b)
      <3>1. b \notin Dirty /\ bc.blockno[i] = b
        BY <1>6, <2>2, Zenon DEF b
      <3> QED  BY <1>3, <1>4, <1>5, <1>8, <1>12, <2>2, <3>1, <1>b, Zenon
    <2> QED  BY <2>1, <2>2, Zenon
  <1>17. \A j \in Buf : /\ bc.refcnt[j] \in Nat /\ bc'.refcnt[j] \in Nat
                        /\ bc'.refcnt[j] >= bc.refcnt[j]
    <2>1. \A j \in Buf : bc.refcnt[j] \in Nat /\ bc'.refcnt[j] \in Nat
      BY <1>5, <1>8, Zenon DEF Sound, Cache
    <2>2. ASSUME NEW j \in Buf
          PROVE  bc'.refcnt[j] >= bc.refcnt[j]
      <3>1. bc'.refcnt[j] = bc.refcnt[j] \/ bc'.refcnt[j] = bc.refcnt[j] + (IF j = i THEN 1 ELSE 0)
        BY <1>8, Zenon DEF SameRefs
      <3>2. bc.refcnt[j] \in Nat
        BY <2>1, Zenon
      <3> QED  BY <3>1, <3>2
    <2> QED  BY <2>1, <2>2, Zenon
  <1>18. CacheOk(bc', disk, Dirty')
    <2>1. Clean(bc', disk, Dirty')
      BY <1>5, <1>8, <1>12, Zenon DEF CacheOk, Clean
    <2>2. ASSUME NEW x \in Dirty'
          PROVE  \E j \in Buf : Has(bc', j, x) /\ bc'.refcnt[j] > 0
      <3>1. CASE x = b
        <4>1. /\ Has(bc', i, x) /\ bc.refcnt[i] # 0 /\ bc.refcnt[i] \in Nat
              /\ bc'.refcnt[i] \in Nat /\ bc'.refcnt[i] >= bc.refcnt[i]
          BY <1>4, <1>8, <1>17, <3>1, Zenon
        <4>2. bc'.refcnt[i] > 0
          BY <4>1
        <4> QED  BY <1>4, <4>1, <4>2, Zenon
      <3>2. CASE x # b
        <4>1. PICK j \in Buf : Has(bc, j, x) /\ bc.refcnt[j] > 0
          BY <1>5, <1>12, <3>2, Zenon DEF CacheOk, Pinned
        <4>2. Has(bc', j, x)
          BY <1>8, <4>1, Zenon DEF Has
        <4>3. bc'.refcnt[j] > 0
          <5>1. /\ bc.refcnt[j] > 0 /\ bc.refcnt[j] \in Nat /\ bc'.refcnt[j] \in Nat
                /\ bc'.refcnt[j] >= bc.refcnt[j]
            BY <1>17, <4>1, Zenon
          <5> QED  BY <5>1
        <4> QED  BY <4>2, <4>3, Zenon
      <3> QED  BY <3>1, <3>2, Zenon
    <2> QED  BY <1>8, <2>1, <2>2, Zenon DEF CacheOk, Pinned
  <1>19. RunOk'
    <2>1. /\ ~At("write_log")' /\ ~At("write_head")' /\ ~At("install")' /\ ~At("clear")'
          /\ ~At("committed")'
      BY <1>10, Zenon DEF CommitAt
    <2> QED  BY <1>3, <1>6, <2>1, Zenon DEF RunOk, Logged
  <1> QED  BY <1>3, <1>4, <1>5, <1>11, <1>13, <1>14, <1>15, <1>16, <1>18, <1>19, Zenon
           DEF LogInv

\* end_op(): log.outstanding falls, and the last call out starts the commit.
LEMMA EndCalls ==
  ASSUME LogInv, CountsOk, NEW p \in Proc, end_op(p)
  PROVE  /\ CallsOk' /\ ~panic'
         /\ \/ /\ Moved(p, "idle") /\ \A m \in CommitAt : ~At(m)'
            \/ /\ lh = <<>> /\ Moved(p, "committed")
               /\ \A m \in CommitAt : At(m)' <=> m = "committed"
            \/ /\ lh # <<>> /\ Moved(p, "write_log")
               /\ \A m \in CommitAt : At(m)' <=> m = "write_log"
  \* A set of processes that counts one has only one.
  <1>a. ASSUME NEW A \in SUBSET Proc, NEW r \in A, Cardinality(A) = 1
        PROVE  A = {r}
    <2> USE <1>a
    <2>1. SUFFICES ASSUME NEW q \in A, q # r
                   PROVE  FALSE
      BY Zenon
    <2>2. Cardinality(A) = Cardinality(A \ {r}) + 1 /\ Cardinality(A \ {r}) \in Nat
      BY CountLess, Zenon
    <2>3. q \in A \ {r} /\ A \ {r} \in SUBSET Proc
      BY <2>1, Zenon
    <2>4. /\ Cardinality(A \ {r}) = Cardinality((A \ {r}) \ {q}) + 1
          /\ Cardinality((A \ {r}) \ {q}) \in Nat
      BY <2>3, CountLess, Zenon
    <2> QED  BY <2>2, <2>4
  <1> DEFINE S == {q \in Proc : pc[q] \in InCall}
             T == {q \in Proc : pc'[q] \in InCall}
             l == IF outstanding = 1
                  THEN IF lh = <<>> THEN "committed" ELSE "write_log"
                  ELSE "idle"
  <1>1. pc[p] = "op" /\ outstanding' = outstanding - 1 /\ panic' = committing /\ boot' = boot
    BY Zenon DEF end_op
  <1>2. TypeOK /\ CallsOk
    BY Zenon DEF LogInv
  <1>3. p \in S /\ S \in SUBSET Proc /\ pc[p] \in InCall /\ outstanding = Cardinality(S)
    BY <1>1, <1>2, Zenon DEF InCall, CallsOk
  <1>4. boot = "up" /\ ~committing /\ \A m \in CommitAt : ~At(m)
    BY <1>3, OpenCall, Zenon
  <1>5. \A q \in Proc : pc[q] \notin CommitAt
    BY <1>4, Zenon DEF At
  <1>6. Moved(p, l)
    <2>1. "idle" \in Label /\ "committed" \in Label /\ "write_log" \in Label
      BY Zenon DEF Label
    <2>2. CASE outstanding = 1
      BY <1>2, <2>1, <2>2, GotoMoved, Zenon DEF end_op
    <2>3. CASE outstanding # 1
      <3>1. WakeLog(p, "idle")
        BY <2>3, Zenon DEF end_op
      <3> QED  BY <1>2, <2>1, <2>3, <3>1, WakeMoved, Zenon
    <2> QED  BY <2>2, <2>3, Zenon
  <1>7. l \notin InCall
    BY Zenon DEF InCall
  <1>8. T = S \ {p}
    BY <1>6, <1>7, MovedCalls, Zenon
  <1>9. \A q \in Proc \ {p} : pc'[q] \notin CommitAt
    BY <1>5, <1>6, Zenon DEF Moved, CommitAt
  <1>10. pc'[p] = l
    BY <1>6, Zenon DEF Moved
  <1>11. outstanding' = Cardinality(T)
    <2> HIDE DEF S, T
    <2>1. Cardinality(S) = Cardinality(S \ {p}) + 1 /\ Cardinality(S \ {p}) \in Nat
      BY <1>3, CountLess, Zenon
    <2> QED  BY <1>1, <1>3, <1>8, <2>1
  <1>12. CASE outstanding = 1
    <2>1. l \in CommitAt /\ committing'
      BY <1>12, Zenon DEF CommitAt, end_op
    <2>2. S = {p}
      <3> HIDE DEF S
      <3> QED  BY <1>3, <1>12, <1>a, Zenon
    <2>3. T = {}
      BY <1>8, <2>2, Zenon
    <2> HIDE DEF l, S
    <2>4. CallsOk'
      <3>1. \A q \in Proc : pc'[q] \notin InCall
        BY <2>3, Zenon
      <3>2. committing' <=> \E q \in Proc : pc'[q] \in CommitAt
        BY <1>10, <2>1, Zenon
      <3>3. \A q, r \in Proc : pc'[q] \in CommitAt /\ pc'[r] \in CommitAt => q = r
        BY <1>9, Zenon
      <3> QED  BY <1>1, <1>4, <1>11, <3>1, <3>2, <3>3, Zenon DEF CallsOk
    <2>5. \A m \in CommitAt : At(m)' <=> m = l
      BY <1>9, <1>10, Zenon DEF At
    <2> QED  BY <1>1, <1>4, <1>6, <1>12, <2>4, <2>5, Zenon DEF l
  <1>13. CASE outstanding # 1
    <2>1. l = "idle" /\ committing' = committing
      BY <1>13, Zenon DEF end_op
    <2>2. l \notin CommitAt
      BY <2>1, Zenon DEF CommitAt
    <2> HIDE DEF l, S
    <2>3. \A q \in Proc : pc'[q] \notin CommitAt
      BY <1>9, <1>10, <2>2, Zenon
    <2>4. CallsOk'
      BY <1>1, <1>4, <1>11, <2>1, <2>3, Zenon DEF CallsOk
    <2>5. \A m \in CommitAt : ~At(m)'
      BY <2>3, Zenon DEF At
    <2> QED  BY <1>1, <1>4, <1>6, <2>1, <2>4, <2>5, Zenon
  <1> QED  BY <1>12, <1>13, Zenon

\* end_op() up to the commit.
LEMMA EndInv ==
  ASSUME LogInv, CountsOk, NEW p \in Proc, end_op(p)
  PROVE  LogInv'
  <1>1. pc[p] = "op" /\ tail' = 1
    BY Zenon DEF end_op
  <1>2. UNCHANGED <<disk, bc, lh, todo, val, cur, boot, nops>>
    BY Zenon DEF end_op, procVars, counts
  <1>3. /\ TypeOK /\ HoldOk /\ CallsOk /\ RefsOk /\ CacheOk(bc, disk, Dirty)
        /\ Sound(bc) /\ IsLog(lh) /\ IsLog(disk[LogStart])
    BY Zenon DEF LogInv, CacheOk
  <1>4. boot = "up" /\ Dirty = {x \in Home : InLog(x)} /\ disk[LogStart] = <<>>
    <2>1. pc[p] \in InCall
      BY <1>1, Zenon DEF InCall
    <2> QED  BY <2>1, OpenCall, Zenon
  <1>5. PICK l \in {"idle", "committed", "write_log"} :
          /\ Moved(p, l) /\ (l = "committed" => lh = <<>>) /\ (l = "write_log" => lh # <<>>)
          /\ \A m \in CommitAt : At(m)' => m = l
    <2>1. \/ /\ Moved(p, "idle") /\ \A m \in CommitAt : ~At(m)'
          \/ /\ lh = <<>> /\ Moved(p, "committed")
             /\ \A m \in CommitAt : At(m)' <=> m = "committed"
          \/ /\ lh # <<>> /\ Moved(p, "write_log")
             /\ \A m \in CommitAt : At(m)' <=> m = "write_log"
      BY EndCalls, Zenon
    <2> QED  BY <2>1, Zenon
  <1>6. CallsOk'
    BY EndCalls, Zenon
  <1>7. TypeOK'
    <2>1. outstanding' \in Nat /\ committing' \in BOOLEAN
      <3>1. outstanding' = Cardinality({q \in Proc : pc'[q] \in InCall})
        BY <1>6, Zenon DEF CallsOk
      <3>2. {q \in Proc : pc'[q] \in InCall} \in SUBSET Proc
        BY Zenon
      <3>3. outstanding' \in Nat
        BY <3>1, <3>2, Zenon DEF CountsOk
      <3> QED  BY <1>3, <3>3, Zenon DEF end_op, TypeOK
    <2>2. tail' \in Nat \ {0}
      BY <1>1
    <2> QED  BY <1>2, <1>3, <1>5, <2>1, <2>2, Zenon DEF TypeOK, Moved
  <1>8. /\ ~At("write_head")' /\ ~At("install")' /\ ~At("clear")'
        /\ (At("write_log")' => lh # <<>>) /\ (At("committed")' => lh = <<>>)
    BY <1>5, Zenon DEF CommitAt
  <1>9. Dirty' = Dirty
    <2>1. Dirty' = {x \in Home : InLog(x)}
      BY <1>2, <1>4, <1>8, Zenon DEF Dirty, InLog
    <2> QED  BY <1>4, <2>1, Zenon
  <1>10. HoldOk'
    <2>1. pc[p] \in InCall /\ pc[p] \notin HoldsAt /\ pc[p] \notin CopyAt
      BY <1>1, Zenon DEF InCall, HoldsAt, CopyAt
    <2>2. \A q \in Proc : pc[q] \notin CopyAt
      BY <1>3, <2>1, Zenon DEF CallsOk, CopyAt, CommitAt
    <2>3. Undisturbed(p) /\ l \notin HoldsAt
      BY <2>2, Zenon DEF Undisturbed, HoldsAt
    <2> QED  BY <1>2, <1>3, <1>5, <2>1, <2>3, HoldKept, Zenon
  <1>11. RefsOk' /\ CacheOk(bc', disk', Dirty')
    BY <1>2, <1>3, <1>9, Zenon DEF RefsOk
  <1>12. RunOk'
    <2>1. lh # <<>> => tail' <= Len(lh)
      BY <1>1, <1>3 DEF IsLog
    <2>2. \A k \in 1 .. Len(lh) : ~(k < tail')
      BY <1>1
    <2>3. /\ disk'[LogStart] = IF At("install")' \/ At("clear")' THEN lh' ELSE <<>>
          /\ At("write_log")' \/ At("install")' => tail' <= Len(lh')
          /\ At("write_head")' => tail' = 1 /\ lh' # <<>>
          /\ At("committed")' => lh' = <<>>
      BY <1>2, <1>4, <1>8, <2>1, Zenon
    <2>4. \A k \in 1 .. Len(lh) : ~Logged(k)'
      BY <1>8, <2>2, Zenon DEF Logged
    <2> QED  BY <1>2, <2>3, <2>4, Zenon DEF RunOk
  <1> QED  BY <1>2, <1>3, <1>4, <1>6, <1>7, <1>10, <1>11, <1>12, Zenon DEF LogInv

-----------------------------------------------------------------------------
\* Each block of a header has its own place in the log, apart from the header
\* and from the home blocks.
LEMMA LogPlaces ==
  ASSUME NEW n, IsLog(n)
  PROVE  /\ \A k \in 1 .. Len(n) :
              /\ n[k] \in Home /\ n[k] \in Disk /\ n[k] # LogStart
              /\ LogBlock(k) \in Disk /\ LogBlock(k) \notin Home /\ LogBlock(k) # LogStart
         /\ \A j, k \in 1 .. Len(n) : LogBlock(j) = LogBlock(k) => j = k
  <1>1. n \in Seq(Home) /\ Len(n) \in Nat /\ Len(n) <= log_size - 1
    BY DEF IsLog
  <1>2. NHOME \in Nat /\ log_size \in Nat
    BY LogConstants, Zenon DEF log_size
  <1>3. ASSUME NEW k \in 1 .. Len(n)
        PROVE  /\ LogBlock(k) \in LogStart .. LogStart + log_size - 1
               /\ LogBlock(k) # LogStart /\ LogBlock(k) \notin Home
    BY <1>1, <1>2, <1>3 DEF LogBlock, LogStart, Home
  <1>4. \A k \in 1 .. Len(n) : n[k] \in Home
    BY <1>1
  <1>5. \A j, k \in 1 .. Len(n) : LogBlock(j) = LogBlock(k) => j = k
    BY <1>2 DEF LogBlock, LogStart
  <1> QED  BY <1>3, <1>4, <1>5, Blocks, Zenon DEF Disk

\* A process that has given its buffer back.
LEMMA GaveBack ==
  ASSUME TypeOK, NEW p \in Proc, cur' = [cur EXCEPT ![p] = None]
  PROVE  /\ cur' \in [Proc -> Buf \cup {None}] /\ cur'[p] = None
         /\ \A q \in Proc \ {p} : cur'[q] = cur[q]
  BY Zenon DEF TypeOK

\* What a disk write of commit() leaves alone: the other processes, their
\* buffers and the calls.
LEMMA StageKeeps ==
  ASSUME LogInv, CountsOk, NEW p \in Proc, NEW l \in CommitAt, Moved(p, l),
         pc[p] \in CommitAt, UNCHANGED <<outstanding, committing, todo, val, boot, nops>>,
         cur' \in [Proc -> Buf \cup {None}], cur'[p] = None,
         \A q \in Proc \ {p} : cur'[q] = cur[q],
         NEW b, NEW v, Stored(bc, disk, bc', disk', b, v), tail' \in Nat \ {0}
  PROVE  TypeOK' /\ HoldOk' /\ CallsOk' /\ boot = "up"
  <1>1. TypeOK /\ HoldOk /\ CallsOk /\ RefsOk
    BY Zenon DEF LogInv
  <1>2. boot = "up"
    BY Running, Zenon DEF CommitAt
  <1>3. pc[p] \notin InCall /\ l \notin InCall /\ l \notin HoldsAt
    BY Zenon DEF CommitAt, InCall, HoldsAt
  <1>4. /\ disk' \in [Disk -> Content]
        /\ \A i \in Buf : bc.refcnt[i] # 0 => bc'.blockno[i] = bc.blockno[i]
    BY Zenon DEF Stored, Put
  <1>5. TypeOK'
    BY <1>1, <1>4, Zenon DEF TypeOK, Moved
  <1>6. CallsOk'
    BY <1>1, <1>2, <1>3, CallsKept, Zenon
  <1>7. HoldOk'
    <2>1. Undisturbed(p)
      BY <1>1, Zenon DEF CallsOk, Undisturbed, CopyAt, CommitAt
    <2> QED  BY <1>1, <1>3, <1>4, <2>1, OthersHold, Zenon
  <1> QED  BY <1>2, <1>5, <1>6, <1>7, Zenon

\* The reference counts after a step: those of the buffers in use are right,
\* the others have no user, and every dirty block is in a buffer in use.
LEMMA RefsAfter ==
  ASSUME CountsOk, Sound(bc'), Dirty' \in SUBSET Disk, Pinned(bc', Dirty'),
         \A i \in Buf : bc'.refcnt[i] # 0 =>
           bc'.refcnt[i] = Cardinality({q \in Proc : cur'[q] = i})
                           + (IF bc'.blockno[i] \in Dirty' THEN 1 ELSE 0),
         \A i \in Buf : bc'.refcnt[i] = 0 => Cardinality({q \in Proc : cur'[q] = i}) = 0
  PROVE  RefsOk'
  <1>1. SUFFICES ASSUME NEW i \in Buf, bc'.refcnt[i] = 0
                 PROVE  bc'.refcnt[i] = Cardinality({q \in Proc : cur'[q] = i})
                                        + (IF bc'.blockno[i] \in Dirty' THEN 1 ELSE 0)
    BY Zenon DEF RefsOk
  <1>2. bc'.blockno[i] \notin Dirty'
    <2>1. SUFFICES ASSUME bc'.blockno[i] \in Dirty'
                   PROVE  FALSE
      OBVIOUS
    <2>2. PICK j \in Buf : Has(bc', j, bc'.blockno[i]) /\ bc'.refcnt[j] > 0
      BY <2>1, Zenon DEF Pinned
    <2>3. bc'.blockno[i] # None
      BY <2>1, LogConstants, Zenon
    <2>4. j = i
      BY <2>2, <2>3, Zenon DEF Has, Sound
    <2>5. bc'.refcnt[i] > 0
      BY <2>2, <2>4, Zenon
    <2> QED  BY <1>1, <2>5
  <1>3. Cardinality({q \in Proc : cur'[q] = i}) = 0
    BY <1>1, Zenon
  <1> QED  BY <1>1, <1>2, <1>3

\* The cache after a disk write that pins and unpins nothing.
LEMMA StageCache ==
  ASSUME LogInv, CountsOk, cur' = cur, NEW b, b \notin Dirty, NEW v,
         Stored(bc, disk, bc', disk', b, v), SameRefs(bc, bc'), Dirty' = Dirty
  PROVE  RefsOk' /\ CacheOk(bc', disk', Dirty')
  <1>1. TypeOK /\ RefsOk /\ Sound(bc) /\ Clean(bc, disk, Dirty) /\ Pinned(bc, Dirty)
    BY Zenon DEF LogInv, CacheOk
  <1>2. Sound(bc') /\ \A i \in Buf : bc.refcnt[i] # 0 => bc'.blockno[i] = bc.blockno[i]
    BY Zenon DEF Stored
  <1>3. Clean(bc', disk', Dirty)
    <2>1. Clean(bc', disk', Dirty \ {b})
      BY <1>1, StoredClean, Zenon
    <2>2. Dirty \ {b} = Dirty
      BY Zenon
    <2> QED  BY <2>1, <2>2, Zenon
  <1>4. Pinned(bc', Dirty)
    BY <1>1, Blocks, StoredPinned, Zenon DEF SameRefs
  <1>5. ASSUME NEW i \in Buf
        PROVE  /\ bc'.refcnt[i] = bc.refcnt[i]
               /\ bc.refcnt[i] = Cardinality({q \in Proc : cur[q] = i})
                                 + (IF bc.blockno[i] \in Dirty THEN 1 ELSE 0)
               /\ Cardinality({q \in Proc : cur[q] = i}) \in Nat
    <2>1. {q \in Proc : cur[q] = i} \in SUBSET Proc
      BY Zenon
    <2> QED  BY <1>1, <2>1, Zenon DEF RefsOk, SameRefs, CountsOk
  <1>6. \A i \in Buf : bc'.refcnt[i] # 0 =>
           bc'.refcnt[i] = Cardinality({q \in Proc : cur'[q] = i})
                           + (IF bc'.blockno[i] \in Dirty' THEN 1 ELSE 0)
    BY <1>2, <1>5, Zenon
  <1>7. ASSUME NEW i \in Buf, bc'.refcnt[i] = 0
        PROVE  Cardinality({q \in Proc : cur'[q] = i}) = 0
    <2> DEFINE n == Cardinality({q \in Proc : cur[q] = i})
    <2>1. n \in Nat /\ 0 = n + (IF bc.blockno[i] \in Dirty THEN 1 ELSE 0)
      BY <1>5, <1>7, Zenon
    <2> HIDE DEF n
    <2>2. n = 0
      BY <2>1
    <2> QED  BY <2>2, Zenon DEF n
  <1>8. RefsOk'
    BY <1>2, <1>4, <1>6, <1>7, Blocks, RefsAfter, Zenon
  <1> QED  BY <1>2, <1>3, <1>4, <1>8, Zenon DEF CacheOk

\* The users of a buffer when p gives its own back.
LEMMA UsersLess ==
  ASSUME CountsOk, TypeOK, NEW p \in Proc, cur[p] \in Buf,
         cur' = [cur EXCEPT ![p] = None], NEW i \in Buf
  PROVE  /\ Cardinality({q \in Proc : cur'[q] = i}) \in Nat
         /\ Cardinality({q \in Proc : cur[q] = i})
              = Cardinality({q \in Proc : cur'[q] = i}) + (IF i = cur[p] THEN 1 ELSE 0)
  <1> DEFINE S == {q \in Proc : cur[q] = i}
             T == {q \in Proc : cur'[q] = i}
  <1>1. S \in SUBSET Proc /\ T \in SUBSET Proc
    BY Zenon
  <1>2. Cardinality(S) \in Nat /\ Cardinality(T) \in Nat
    BY <1>1, Zenon DEF CountsOk
  <1>3. CASE i = cur[p]
    <2>1. T = S \ {p} /\ p \in S
      BY <1>3, LogConstants, Zenon DEF TypeOK
    <2> HIDE DEF S, T
    <2>2. Cardinality(S) = Cardinality(T) + 1
      BY <1>1, <2>1, CountLess, Zenon
    <2> QED  BY <1>2, <1>3, <2>2, Zenon DEF S, T
  <1>4. CASE i # cur[p]
    <2>1. T = S
      BY <1>4, LogConstants, Zenon DEF TypeOK
    <2>2. Cardinality(T) = Cardinality(T) + 0
      <3> HIDE DEF T
      <3> QED  BY <1>2
    <2> QED  BY <1>2, <1>4, <2>1, <2>2, Zenon
  <1> QED  BY <1>3, <1>4, Zenon

\* The log block that a process holds for a round of commit().
LEMMA RoundHeld ==
  ASSUME LogInv, CountsOk, NEW p \in Proc, pc[p] \in CopyAt, cur[p] # None
  PROVE  /\ cur[p] \in Buf /\ Has(bc, cur[p], LogBlock(tail)) /\ bc.refcnt[cur[p]] # 0
         /\ bc.blockno[cur[p]] = LogBlock(tail)
  <1>1. pc[p] \notin HoldsAt
    BY Zenon DEF CopyAt, HoldsAt
  <1>2. Has(bc, cur[p], LogBlock(tail))
    BY <1>1, Zenon DEF LogInv, HoldOk
  <1>3. cur[p] \in Buf /\ bc.blockno[cur[p]] = LogBlock(tail)
    BY <1>2, Zenon DEF Has
  <1>4. bc.refcnt[cur[p]] # 0
    BY <1>3, HeldUsed, Zenon DEF LogInv
  <1> QED  BY <1>2, <1>3, <1>4, Zenon

\* The cache at the end of a round of commit(): the log block is given back,
\* and if the round wrote a pinned block, the pin is gone.
LEMMA RoundCache ==
  ASSUME LogInv, CountsOk, NEW p \in Proc, cur[p] \in Buf, bc.refcnt[cur[p]] # 0,
         cur' = [cur EXCEPT ![p] = None], bc.blockno[cur[p]] \in Disk \ Home,
         NEW h, h \in Dirty \cup {bc.blockno[cur[p]]}, NEW v,
         Stored(bc, disk, bc', disk', h, v), Unpinned(bc, bc', cur[p], h),
         Dirty' = Dirty \ {h}
  PROVE  RefsOk' /\ CacheOk(bc', disk', Dirty')
  <1> DEFINE k == cur[p]
  <1>1. TypeOK /\ RefsOk /\ Sound(bc) /\ Clean(bc, disk, Dirty) /\ Pinned(bc, Dirty)
    BY Zenon DEF LogInv, CacheOk
  <1>2. Sound(bc') /\ \A i \in Buf : bc.refcnt[i] # 0 => bc'.blockno[i] = bc.blockno[i]
    BY Zenon DEF Stored
  <1>3. Dirty \in SUBSET Disk /\ bc.blockno[k] \notin Dirty
    BY Blocks, Zenon DEF Dirty
  <1>4. Clean(bc', disk', Dirty')
    BY <1>1, StoredClean, Zenon
  <1>5. Pinned(bc', Dirty')
    <2>1. Dirty' \in SUBSET Disk /\ Pinned(bc, Dirty')
      BY <1>1, <1>3, Zenon DEF Pinned
    <2>2. \A i \in Buf : bc.blockno[i] \in Dirty' => bc'.refcnt[i] = bc.refcnt[i]
      BY <1>3, Zenon DEF Unpinned
    <2> QED  BY <1>1, <2>1, <2>2, StoredPinned, Zenon
  <1>6. ASSUME NEW i \in Buf
        PROVE  /\ Cardinality({q \in Proc : cur'[q] = i}) \in Nat
               /\ bc'.refcnt[i] = Cardinality({q \in Proc : cur'[q] = i})
                                  + (IF bc.blockno[i] \in Dirty' THEN 1 ELSE 0)
               /\ bc.refcnt[i] = 0 => bc'.refcnt[i] = 0
    <2> DEFINE m == Cardinality({q \in Proc : cur[q] = i})
               n == Cardinality({q \in Proc : cur'[q] = i})
               d == IF bc.blockno[i] \in Dirty THEN 1 ELSE 0
               e == IF bc.blockno[i] \in Dirty' THEN 1 ELSE 0
    <2>1. n \in Nat /\ m = n + (IF i = k THEN 1 ELSE 0)
      BY <1>1, UsersLess, Zenon
    <2>2. bc.refcnt[i] = m + d
      BY <1>1, Zenon DEF RefsOk
    <2>3. bc'.refcnt[i] = IF i = k \/ bc.blockno[i] = h THEN bc.refcnt[i] - 1
                          ELSE bc.refcnt[i]
      BY Zenon DEF Unpinned
    <2>4. /\ i = k => d = 0 /\ e = 0
          /\ i # k /\ bc.blockno[i] = h => d = 1 /\ e = 0
          /\ i # k /\ bc.blockno[i] # h => d = e
          /\ d \in {0, 1}
      <3>1. i = k => d = 0 /\ e = 0
        BY <1>3, Zenon
      <3>2. i # k /\ bc.blockno[i] = h => d = 1 /\ e = 0
        <4>1. bc.blockno[k] # None
          BY LogConstants, Zenon
        <4>2. i # k /\ bc.blockno[i] = h => bc.blockno[i] \in Dirty
          BY <1>1, <4>1, Zenon DEF Sound
        <4> QED  BY <4>2, Zenon
      <3>3. i # k /\ bc.blockno[i] # h => d = e
        BY Zenon
      <3> QED  BY <3>1, <3>2, <3>3, Zenon
    <2> HIDE DEF k, m, n, d, e
    <2>5. bc'.refcnt[i] = n + e
      BY <2>1, <2>2, <2>3, <2>4
    <2>6. bc.refcnt[i] = 0 => bc'.refcnt[i] = 0
      BY <2>1, <2>2, <2>3, <2>4
    <2> QED  BY <2>1, <2>5, <2>6, Zenon DEF n, e
  <1>7. \A i \in Buf : bc'.refcnt[i] # 0 =>
           bc'.refcnt[i] = Cardinality({q \in Proc : cur'[q] = i})
                           + (IF bc'.blockno[i] \in Dirty' THEN 1 ELSE 0)
    BY <1>2, <1>6, Zenon
  <1>8. ASSUME NEW i \in Buf, bc'.refcnt[i] = 0
        PROVE  Cardinality({q \in Proc : cur'[q] = i}) = 0
    <2> DEFINE n == Cardinality({q \in Proc : cur'[q] = i})
    <2>1. n \in Nat /\ 0 = n + (IF bc.blockno[i] \in Dirty' THEN 1 ELSE 0)
      BY <1>6, <1>8, Zenon
    <2> HIDE DEF n
    <2>2. n = 0
      BY <2>1
    <2> QED  BY <2>2, Zenon DEF n
  <1>9. RefsOk'
    BY <1>2, <1>3, <1>5, <1>7, <1>8, RefsAfter, Zenon
  <1> QED  BY <1>2, <1>4, <1>5, <1>9, Zenon DEF CacheOk

\* bread() of the log block at the start of a round of commit().
LEMMA GetLogInv ==
  ASSUME LogInv, CountsOk, NEW p \in Proc, GetLogBlock(p)
  PROVE  Inv'
  <1> DEFINE l == LogBlock(tail)
  <1>1. /\ pc[p] \in CopyAt /\ pc[p] \in CommitAt /\ pc[p] \notin HoldsAt /\ cur[p] = None
        /\ UNCHANGED <<lh, outstanding, committing, pc, todo, val, tail, boot, nops>>
    BY Zenon DEF GetLogBlock, CopyAt, CommitAt, HoldsAt, logVars, counts
  <1>2. CASE Panic
    BY <1>2, Zenon DEF Panic, Inv
  <1>3. CASE \E c \in Bread(bc, l, p) : /\ bc' = c /\ cur' = [cur EXCEPT ![p] = Slot(c, l)]
                                        /\ UNCHANGED <<disk, panic>>
    <2>1. /\ TypeOK /\ HoldOk /\ CallsOk /\ RefsOk /\ CacheOk(bc, disk, Dirty) /\ MaxExists
          /\ IsLog(lh) /\ disk \in [Disk -> Content] /\ (boot = "up" => RunOk)
          /\ tail \in Nat \ {0} /\ Sound(bc)
      BY Zenon DEF LogInv, TypeOK, CountsOk, CacheOk
    <2>2. boot = "up" /\ RunOk
      BY <1>1, <2>1, Running, Zenon DEF CopyAt
    <2>3. tail <= Len(lh)
      BY <1>1, <2>2, Zenon DEF RunOk, At, CopyAt
    <2>4. l \in Disk /\ l \notin Home
      <3>1. tail \in 1 .. Len(lh)
        BY <2>1, <2>3 DEF IsLog
      <3> QED  BY <2>1, <3>1, LogPlaces, Zenon
    <2>5. l \notin Dirty /\ Dirty \in SUBSET Disk
      BY <2>4, Blocks, Zenon DEF Dirty
    <2>6. /\ bc' = bread(bc, disk, l, p) /\ ~NoBuffers(bc, l) /\ UNCHANGED disk
          /\ cur' = [cur EXCEPT ![p] = Slot(bc', l)]
      BY <1>3, Zenon DEF Bread
    <2> HIDE DEF l
    <2>7. PICK s \in Buf : ReadInto(bc, bc', disk, Dirty, l, s)
      BY <2>1, <2>4, <2>5, <2>6, BreadOk, Zenon
    <2>8. cur' = [cur EXCEPT ![p] = s]
      BY <2>4, <2>6, <2>7, ReadSlot, Zenon
    <2>9. /\ CacheOk(bc', disk, Dirty) /\ Has(bc', s, l)
          /\ \A x \in Disk : Shown(bc', disk, x) = Shown(bc, disk, x)
          /\ \A i \in Buf : bc'.refcnt[i] = bc.refcnt[i] + (IF i = s THEN 1 ELSE 0)
          /\ \A i \in Buf : bc.refcnt[i] # 0 => bc'.blockno[i] = bc.blockno[i]
      BY <2>7, Zenon DEF ReadInto
    <2>10. TypeOK'
      <3>1. cur' \in [Proc -> Buf \cup {None}]
        BY <2>1, <2>8, Zenon DEF TypeOK
      <3> QED  BY <1>1, <2>1, <2>6, <3>1, Zenon DEF TypeOK
    <2>11. CallsOk'
      BY <1>1, <2>1, Zenon DEF CallsOk
    <2>12. HoldOk'
      <3>1. cur'[p] = s /\ \A q \in Proc \ {p} : cur'[q] = cur[q]
        BY <2>1, <2>8, Zenon DEF TypeOK
      <3>2. Moved(p, pc[p])
        BY <1>1, <2>1, Zenon DEF Moved, TypeOK
      <3>3. Undisturbed(p)
        BY <1>1, <2>1, Zenon DEF Undisturbed, CallsOk, CopyAt, CommitAt
      <3>4. Has(bc', cur'[p], LogBlock(tail'))
        BY <1>1, <2>9, <3>1, Zenon DEF l
      <3> QED  BY <1>1, <2>1, <2>9, <3>1, <3>2, <3>3, <3>4, OthersHold, Zenon
    <2>13. \A m \in CommitAt : At(m)' <=> At(m)
      BY <1>1, Zenon DEF At
    <2>14. Dirty' = Dirty
      BY <1>1, <2>13, DirtyKept, Zenon
    <2>15. ASSUME NEW i \in Buf
           PROVE  /\ Cardinality({q \in Proc : cur'[q] = i}) \in Nat
                  /\ bc'.refcnt[i] # 0 =>
                       bc'.refcnt[i] = Cardinality({q \in Proc : cur'[q] = i})
                                       + (IF bc'.blockno[i] \in Dirty THEN 1 ELSE 0)
                  /\ bc'.refcnt[i] = 0 => Cardinality({q \in Proc : cur'[q] = i}) = 0
      <3> DEFINE S == {q \in Proc : cur[q] = i}
                 T == {q \in Proc : cur'[q] = i}
                 d == IF bc.blockno[i] \in Dirty THEN 1 ELSE 0
                 e == IF bc'.blockno[i] \in Dirty THEN 1 ELSE 0
      <3>1. /\ S \in SUBSET Proc /\ T \in SUBSET Proc /\ p \notin S
            /\ (i = s => T = S \cup {p}) /\ (i # s => T = S)
        <4>1. S \in SUBSET Proc /\ T \in SUBSET Proc
          BY Zenon
        <4>2. p \notin S
          BY <1>1, LogConstants, Zenon
        <4>3. i = s => T = S \cup {p}
          BY <2>1, <2>8, Zenon DEF TypeOK
        <4>4. i # s => T = S
          BY <1>1, <2>1, <2>8, LogConstants, Zenon DEF TypeOK
        <4> QED  BY <4>1, <4>2, <4>3, <4>4, Zenon
      <3>2. bc.refcnt[i] = Cardinality(S) + d
        BY <2>1, Zenon DEF RefsOk
      <3>3. bc'.refcnt[i] = bc.refcnt[i] + (IF i = s THEN 1 ELSE 0)
        BY <2>9, Zenon
      <3>4. /\ bc.refcnt[i] # 0 => d = e
            /\ i = s => e = 0
            /\ d \in {0, 1}
        <4>1. bc.refcnt[i] # 0 => d = e
          BY <2>9, Zenon
        <4>2. i = s => e = 0
          BY <2>5, <2>9, Zenon DEF Has
        <4> QED  BY <4>1, <4>2, Zenon
      <3> HIDE DEF S, T, d, e
      <3>5. /\ Cardinality(S) \in Nat /\ Cardinality(T) \in Nat
            /\ i = s => Cardinality(T) = Cardinality(S) + 1
            /\ i # s => Cardinality(T) = Cardinality(S)
        BY <3>1, Zenon DEF CountsOk
      <3>6. bc'.refcnt[i] # 0 => bc'.refcnt[i] = Cardinality(T) + e
        BY <3>2, <3>3, <3>4, <3>5
      <3>7. bc'.refcnt[i] = 0 => Cardinality(T) = 0
        BY <3>2, <3>3, <3>4, <3>5
      <3> QED  BY <3>5, <3>6, <3>7, Zenon DEF T, e
    <2>16. RefsOk'
      <3>1. Sound(bc') /\ Pinned(bc', Dirty)
        BY <2>9, Zenon DEF CacheOk
      <3> QED  BY <2>5, <2>14, <2>15, <3>1, RefsAfter, Zenon
    <2>17. LogInv'
      BY <1>1, <2>2, <2>6, <2>9, <2>10, <2>11, <2>12, <2>13, <2>16, SameStageInv, Zenon
    <2> QED  BY <2>17, Zenon DEF Inv
  <1> QED  BY <1>2, <1>3, Zenon DEF GetLogBlock

\* A disk write that is not to a logged home block leaves the copies of the
\* blocks that are in the log equal.
LEMMA LoggedKept ==
  ASSUME IsLog(lh), NEW k \in 1 .. Len(lh), NEW b, b # lh[k], b # LogBlock(k), NEW v,
         Stored(bc, disk, bc', disk', b, v), disk[LogBlock(k)] = Shown(bc, disk, lh[k])
  PROVE  disk'[LogBlock(k)] = Shown(bc', disk', lh[k])
  <1>1. lh[k] \in Disk /\ LogBlock(k) \in Disk
    BY LogPlaces, Zenon
  <1> QED  BY <1>1, Zenon DEF Stored, Put

\* A round of write_log().
LEMMA WriteLogInv ==
  ASSUME LogInv, CountsOk, NEW p \in Proc, write_log(p)
  PROVE  Inv'
  <1> DEFINE l == IF tail = Len(lh) THEN "write_head" ELSE "write_log"
             b == LogBlock(tail)
             v == Shown(bc, disk, lh[tail])
  <1>1. /\ pc[p] = "write_log" /\ Goto(p, l)
        /\ tail' = IF tail = Len(lh) THEN 1 ELSE tail + 1
    BY Zenon DEF write_log
  <1>2. /\ UNCHANGED <<lh, outstanding, committing, todo, val, boot, nops>>
        /\ cur[p] # None /\ cur' = [cur EXCEPT ![p] = None]
    BY Zenon DEF write_log, logVars, counts
  <1>3. /\ TypeOK /\ CallsOk /\ CacheOk(bc, disk, Dirty) /\ MaxExists
        /\ IsLog(lh) /\ IsLog(disk[LogStart]) /\ disk \in [Disk -> Content]
        /\ tail \in Nat \ {0} /\ (boot = "up" => RunOk)
    BY Zenon DEF LogInv, TypeOK, CountsOk
  <1>4. pc[p] \in CommitAt /\ l \in CommitAt /\ l \in Label
    BY <1>1, Zenon DEF CommitAt, Label
  <1>5. Moved(p, l)
    BY <1>1, <1>3, <1>4, GotoMoved, Zenon
  <1>6. /\ \A m \in CommitAt : At(m) <=> m = pc[p]
        /\ \A m \in CommitAt : At(m)' <=> m = l
    BY <1>3, <1>4, <1>5, MovedStage, Zenon
  <1>7. /\ At("write_log") /\ ~At("install") /\ ~At("clear") /\ ~At("install")' /\ ~At("clear")'
        /\ ~At("committed")' /\ (At("write_log")' => tail # Len(lh))
        /\ (At("write_head")' => tail = Len(lh))
    BY <1>1, <1>6, Zenon DEF CommitAt
  <1>8. RunOk
    BY <1>1, <1>3, Running, Zenon
  <1>9. tail <= Len(lh) /\ disk[LogStart] = <<>> /\ Len(lh) \in Nat
    BY <1>3, <1>7, <1>8 DEF RunOk, IsLog
  <1>10. tail \in 1 .. Len(lh) /\ tail' \in Nat \ {0}
    BY <1>1, <1>3, <1>9
  <1>11. CASE panic'
    BY <1>11, Zenon DEF Inv
  <1>12. CASE ~panic'
    <2>a. /\ cur[p] \in Buf /\ Has(bc, cur[p], b) /\ bc.refcnt[cur[p]] # 0
          /\ bc.blockno[cur[p]] = b
      BY <1>1, <1>2, RoundHeld, Zenon DEF CopyAt
    <2>1. Stored(bc, disk, bc', disk', b, v) /\ Released(bc, bc', cur[p])
      BY <1>3, <1>9, <1>12, <2>a, Blocks, WriteLogEffect, Zenon
    <2>2. b \in Disk /\ b \notin Home /\ b # LogStart /\ lh[tail] \in Home /\ lh[tail] \in Disk
      BY <1>3, <1>10, LogPlaces, Zenon
    <2>3. disk'[b] = v /\ Shown(bc', disk', lh[tail]) = v
      BY <2>1, <2>2, Zenon DEF Stored, Put
    <2>4. b = LogBlock(tail) /\ v = Shown(bc, disk, lh[tail])
      OBVIOUS
    <2> HIDE DEF l, b, v
    <2>5. TypeOK' /\ HoldOk' /\ CallsOk' /\ boot = "up"
      BY <1>2, <1>3, <1>4, <1>5, <1>10, <2>1, GaveBack, StageKeeps, Zenon
    <2>6. Dirty' = Dirty /\ Dirty = Dirty \ {b}
      <3>1. Dirty' = Dirty
        BY <1>2, <1>7, Zenon DEF Dirty
      <3>2. b \notin Dirty
        BY <2>2, Zenon DEF Dirty
      <3> QED  BY <3>1, <3>2, Zenon
    <2>7. RefsOk' /\ CacheOk(bc', disk', Dirty')
      <3>1. Unpinned(bc, bc', cur[p], b)
        <4>1. b # None /\ Sound(bc)
          BY <1>3, <2>2, LogConstants, Zenon DEF CacheOk
        <4>2. \A i \in Buf : bc.blockno[i] = b => i = cur[p]
          BY <2>a, <4>1, Zenon DEF Sound
        <4> QED  BY <2>1, <4>2, Zenon DEF Released, Unpinned
      <3>2. Dirty' = Dirty \ {b} /\ b \in Dirty \cup {bc.blockno[cur[p]]}
        BY <2>a, <2>6, Zenon
      <3>3. bc.blockno[cur[p]] \in Disk \ Home
        BY <2>a, <2>2, Zenon
      <3> QED  BY <1>2, <2>a, <2>1, <3>1, <3>2, <3>3, RoundCache, Zenon
    <2>8. disk'[LogStart] = disk[LogStart]
      BY <2>1, <2>2, Blocks, Zenon DEF Stored, Put
    <2>9. \A k \in 1 .. Len(lh) : Logged(k)' => k <= tail
      BY <1>1, <1>3, <1>7, <1>9 DEF Logged
    <2>10. \A k \in 1 .. Len(lh) : k <= tail => k = tail \/ k < tail
      BY <1>10
    <2>11. ASSUME NEW k \in 1 .. Len(lh), Logged(k)'
           PROVE  disk'[LogBlock(k)] = Shown(bc', disk', lh[k])
      <3>1. CASE k = tail
        BY <2>3, <2>4, <3>1, Zenon
      <3>2. CASE k < tail
        <4>1. disk[LogBlock(k)] = Shown(bc, disk, lh[k])
          BY <1>7, <1>8, <3>2, Zenon DEF RunOk, Logged
        <4>2. k # tail
          BY <1>10, <3>2
        <4>3. b # lh[k] /\ b # LogBlock(k)
          BY <1>3, <1>10, <2>2, <2>4, <4>2, LogPlaces
        <4> QED  BY <1>3, <2>1, <4>1, <4>3, LoggedKept, Zenon
      <3> QED  BY <2>9, <2>10, <2>11, <3>1, <3>2, Zenon
    <2>12. RunOk'
      <3>1. At("write_log")' => tail' <= Len(lh)
        BY <1>1, <1>3, <1>7, <1>9
      <3>2. At("write_head")' => tail' = 1 /\ lh # <<>>
        BY <1>1, <1>7, <1>10
      <3> QED  BY <1>2, <1>7, <1>9, <2>8, <2>11, <3>1, <3>2, Zenon DEF RunOk
    <2>13. IsLog(lh') /\ IsLog(disk'[LogStart]) /\ boot' = "up"
      BY <1>2, <1>3, <2>5, <2>8, Zenon
    <2> QED  BY <2>5, <2>7, <2>12, <2>13, Zenon DEF LogInv, Inv
  <1> QED  BY <1>11, <1>12, Zenon

\* The header is written: the transaction is committed.
LEMMA WriteHeadInv ==
  ASSUME LogInv, CountsOk, NEW p \in Proc, WriteHead(p)
  PROVE  Inv'
  <1>1. pc[p] = "write_head" /\ write_head(p, lh) /\ Goto(p, "install")
    BY Zenon DEF WriteHead
  <1>2. UNCHANGED <<lh, outstanding, committing, todo, val, cur, tail, boot, nops>>
    BY Zenon DEF WriteHead, logVars, procVars, counts
  <1>3. /\ TypeOK /\ CallsOk /\ CacheOk(bc, disk, Dirty) /\ MaxExists
        /\ IsLog(lh) /\ lh \in Seq(Home) /\ disk \in [Disk -> Content]
        /\ tail \in Nat \ {0} /\ (boot = "up" => RunOk)
    BY Zenon DEF LogInv, TypeOK, CountsOk, IsLog
  <1>4. pc[p] \in CommitAt /\ "install" \in CommitAt
    BY <1>1, Zenon DEF CommitAt
  <1>5. Moved(p, "install")
    BY <1>1, <1>3, GotoMoved, Zenon DEF Label
  <1>6. /\ \A m \in CommitAt : At(m) <=> m = pc[p]
        /\ \A m \in CommitAt : At(m)' <=> m = "install"
    BY <1>3, <1>4, <1>5, MovedStage, Zenon
  <1>7. /\ At("write_head") /\ ~At("install") /\ ~At("clear") /\ At("install")' /\ ~At("clear")'
        /\ ~At("committed")' /\ ~At("write_log")' /\ ~At("write_head")'
    BY <1>1, <1>6, Zenon DEF CommitAt
  <1>8. RunOk
    BY <1>1, <1>3, Running, Zenon
  <1>9. tail = 1 /\ lh # <<>>
    BY <1>7, <1>8, Zenon DEF RunOk
  <1>10. CASE panic'
    BY <1>10, Zenon DEF Inv
  <1>11. CASE ~panic'
    <2>1. Stored(bc, disk, bc', disk', LogStart, lh) /\ SameRefs(bc, bc')
      BY <1>1, <1>3, <1>11, Blocks, HeadEffect, Zenon
    <2>a. cur[p] = None /\ cur \in [Proc -> Buf \cup {None}]
      BY <1>1, <1>3, NoneHeld, Zenon DEF LogInv, TypeOK, HoldsAt, CopyAt
    <2>2. TypeOK' /\ HoldOk' /\ CallsOk' /\ boot = "up"
      BY <1>2, <1>3, <1>4, <1>5, <2>a, <2>1, StageKeeps, Zenon
    <2>3. \A k \in 1 .. Len(lh) : tail <= k
      BY <1>9
    <2>4. Dirty' = Dirty
      BY <1>2, <1>7, <2>3, Zenon DEF Dirty
    <2>5. RefsOk' /\ CacheOk(bc', disk', Dirty')
      BY <1>2, <2>1, <2>4, Blocks, StageCache, Zenon
    <2>6. disk'[LogStart] = lh
      BY <2>1, Blocks, Zenon DEF Stored, Put
    <2>7. ASSUME NEW k \in 1 .. Len(lh)
          PROVE  disk'[LogBlock(k)] = Shown(bc', disk', lh[k])
      <3>1. disk[LogBlock(k)] = Shown(bc, disk, lh[k])
        BY <1>7, <1>8, Zenon DEF RunOk, Logged
      <3>2. LogStart # lh[k] /\ LogStart # LogBlock(k)
        BY <1>3, LogPlaces, Zenon
      <3> QED  BY <1>3, <2>1, <3>1, <3>2, LoggedKept, Zenon
    <2>8. tail <= Len(lh)
      BY <1>3, <1>9
    <2>9. RunOk'
      BY <1>2, <1>7, <2>6, <2>7, <2>8, Zenon DEF RunOk
    <2>10. IsLog(lh') /\ IsLog(disk'[LogStart]) /\ boot' = "up"
      BY <1>2, <1>3, <2>2, <2>6, Zenon
    <2> QED  BY <2>2, <2>5, <2>9, <2>10, Zenon DEF LogInv, Inv
  <1> QED  BY <1>10, <1>11, Zenon

\* What install_trans() finds: the block is pinned, and its copies in the log
\* and in the cache are the same.
LEMMA InstallAt ==
  ASSUME LogInv, CountsOk, NEW p \in Proc, pc[p] = "install"
  PROVE  /\ RunOk /\ At("install") /\ ~At("clear") /\ disk[LogStart] = lh
         /\ tail \in 1 .. Len(lh) /\ lh[tail] \in Dirty
         /\ \A k \in 1 .. Len(lh) : disk[LogBlock(k)] = Shown(bc, disk, lh[k])
         /\ Shown(bc, disk, LogBlock(tail)) = Shown(bc, disk, lh[tail])
  <1>1. boot = "up" /\ RunOk
    <2>1. boot = "up"
      BY Running, Zenon
    <2> QED  BY <2>1, Zenon DEF LogInv
  <1>2. IsLog(lh) /\ CallsOk /\ tail \in Nat \ {0} /\ Clean(bc, disk, Dirty)
    BY Zenon DEF LogInv, TypeOK, CacheOk
  <1>3. At("install") /\ ~At("clear")
    <2>1. pc[p] \in CommitAt /\ "clear" \in CommitAt
      BY Zenon DEF CommitAt
    <2>2. ASSUME NEW q \in Proc, pc[q] = "clear"
          PROVE  FALSE
      <3>1. q = p
        BY <1>2, <2>1, <2>2, Zenon DEF CallsOk
      <3> QED  BY <2>2, <3>1, Zenon
    <2> QED  BY <2>2, Zenon DEF At
  <1>4. tail \in 1 .. Len(lh)
    <2>1. tail <= Len(lh)
      BY <1>1, <1>3, Zenon DEF RunOk
    <2> QED  BY <1>2, <2>1 DEF IsLog
  <1>5. disk[LogStart] = lh /\ \A k \in 1 .. Len(lh) : disk[LogBlock(k)] = Shown(bc, disk, lh[k])
    BY <1>1, <1>3, Zenon DEF RunOk, Logged
  <1>6. lh[tail] \in Home /\ LogBlock(tail) \in Disk /\ LogBlock(tail) \notin Home
    BY <1>2, <1>4, LogPlaces, Zenon
  <1>7. lh[tail] \in Dirty
    <2>1. tail <= tail
      BY <1>2
    <2> QED  BY <1>1, <1>3, <1>4, <1>6, <2>1, Zenon DEF Dirty
  <1>8. Shown(bc, disk, LogBlock(tail)) = disk[LogBlock(tail)]
    BY <1>2, <1>6, Blocks, Zenon DEF Clean
  <1> QED  BY <1>1, <1>3, <1>4, <1>5, <1>7, <1>8, Zenon

\* A round of install_trans() in a commit.
LEMMA InstallInv ==
  ASSUME LogInv, CountsOk, NEW p \in Proc, Install(p)
  PROVE  Inv'
  <1> DEFINE l == IF tail = Len(lh) THEN "clear" ELSE "install"
             h == lh[tail]
             v == Shown(bc, disk, LogBlock(tail))
  <1>1. /\ pc[p] = "install" /\ install_trans(p, bc, FALSE) /\ Goto(p, l)
        /\ tail' = IF tail = Len(lh) THEN 1 ELSE tail + 1
    BY Zenon DEF Install, install_trans
  <1>2. /\ UNCHANGED <<lh, outstanding, committing, todo, val, boot, nops>>
        /\ cur[p] # None /\ cur' = [cur EXCEPT ![p] = None]
    BY Zenon DEF Install, logVars, counts
  <1>3. /\ TypeOK /\ CallsOk /\ RefsOk /\ CacheOk(bc, disk, Dirty) /\ MaxExists
        /\ IsLog(lh) /\ IsLog(disk[LogStart]) /\ disk \in [Disk -> Content]
        /\ tail \in Nat \ {0} /\ Sound(bc) /\ Clean(bc, disk, Dirty) /\ Pinned(bc, Dirty)
    BY Zenon DEF LogInv, TypeOK, CountsOk, CacheOk
  <1>4. pc[p] \in CommitAt /\ l \in CommitAt /\ l \in Label
    BY <1>1, Zenon DEF CommitAt, Label
  <1>5. Moved(p, l)
    BY <1>1, <1>3, <1>4, GotoMoved, Zenon
  <1>6. \A m \in CommitAt : At(m)' <=> m = l
    BY <1>3, <1>4, <1>5, MovedStage
  <1>7. /\ (At("install")' <=> tail # Len(lh)) /\ (At("clear")' <=> tail = Len(lh))
        /\ ~At("committed")' /\ ~At("write_log")' /\ ~At("write_head")'
    BY <1>6, Zenon DEF CommitAt
  <1>8. /\ At("install") /\ ~At("clear") /\ disk[LogStart] = lh
        /\ tail \in 1 .. Len(lh) /\ h \in Dirty
        /\ \A k \in 1 .. Len(lh) : disk[LogBlock(k)] = Shown(bc, disk, lh[k])
        /\ v = Shown(bc, disk, h)
    BY <1>1, InstallAt, Zenon
  <1>9. tail <= Len(lh) /\ Len(lh) \in Nat /\ tail \in Nat /\ tail' \in Nat \ {0}
    BY <1>1, <1>3, <1>8 DEF IsLog
  <1>10. CASE panic'
    BY <1>10, Zenon DEF Inv
  <1>11. CASE ~panic'
    <2>a. /\ cur[p] \in Buf /\ Has(bc, cur[p], LogBlock(tail)) /\ bc.refcnt[cur[p]] # 0
          /\ bc.blockno[cur[p]] = LogBlock(tail)
      BY <1>1, <1>2, RoundHeld, Zenon DEF CopyAt
    <2>1. Stored(bc, disk, bc', disk', h, v) /\ Unpinned(bc, bc', cur[p], h)
      <3>1. FALSE \in BOOLEAN /\ ~FALSE
        BY Zenon
      <3> QED  BY <1>1, <1>3, <1>8, <1>9, <1>11, <2>a, <3>1, Blocks, InstallEffect, Zenon
    <2>2. h \in Home /\ h \in Disk /\ h # LogStart /\ h = lh[tail]
      BY <1>3, <1>8, LogPlaces, Zenon
    <2>b. bc.blockno[cur[p]] \in Disk \ Home
      BY <1>3, <1>8, <2>a, LogPlaces, Zenon
    <2> HIDE DEF l, h, v
    <2>3. TypeOK' /\ HoldOk' /\ CallsOk' /\ boot = "up"
      BY <1>2, <1>3, <1>4, <1>5, <1>9, <2>1, GaveBack, StageKeeps, Zenon
    <2>4. \A x \in Disk : Shown(bc', disk', x) = Shown(bc, disk, x)
      BY <1>8, <2>1, Zenon DEF Stored
    <2>5. Dirty' = Dirty \ {h}
      <3>1. \A k \in 1 .. Len(lh) : lh[k] = h <=> k = tail
        BY <1>3, <1>8, <2>2, Zenon DEF IsLog
      <3>2. CASE tail = Len(lh)
        <4>1. \A k \in 1 .. Len(lh) : tail <= k => k = tail
          BY <1>9, <3>2
        <4>2. Dirty' = {}
          BY <1>7, <3>2, Zenon DEF Dirty
        <4>3. \A x \in Dirty : x = h
          BY <1>8, <2>2, <4>1, Zenon DEF Dirty
        <4> QED  BY <4>2, <4>3, Zenon
      <3>3. CASE tail # Len(lh)
        <4>1. \A k \in 1 .. Len(lh) : tail' <= k <=> tail <= k /\ k # tail
          BY <1>1, <1>9, <3>3
        <4>2. At("install")' /\ ~At("clear")' /\ boot' = boot
          BY <1>2, <1>7, <3>3, Zenon
        <4>3. ASSUME NEW x \in Home
              PROVE  x \in Dirty' <=> x \in Dirty /\ x # h
          BY <1>2, <1>8, <3>1, <4>1, <4>2, Zenon DEF Dirty
        <4> QED  BY <4>3, Zenon DEF Dirty
      <3> QED  BY <3>2, <3>3, Zenon
    <2>6. RefsOk' /\ CacheOk(bc', disk', Dirty')
      BY <1>2, <1>8, <2>a, <2>b, <2>1, <2>5, RoundCache, Zenon
    <2>10. disk'[LogStart] = disk[LogStart]
      BY <2>1, <2>2, Blocks, Zenon DEF Stored, Put
    <2>11. ASSUME NEW k \in 1 .. Len(lh)
           PROVE  disk'[LogBlock(k)] = Shown(bc', disk', lh[k])
      <3>1. LogBlock(k) \in Disk /\ LogBlock(k) \notin Home /\ lh[k] \in Disk
        BY <1>3, LogPlaces, Zenon
      <3>2. disk'[LogBlock(k)] = disk[LogBlock(k)]
        BY <2>1, <2>2, <3>1, Zenon DEF Stored, Put
      <3> QED  BY <1>8, <2>4, <3>1, <3>2, Zenon
    <2>12. At("install")' => tail' <= Len(lh)
      BY <1>1, <1>7, <1>9
    <2>13. At("install")' \/ At("clear")'
      BY <1>7, Zenon
    <2>14. RunOk'
      BY <1>2, <1>7, <1>8, <2>10, <2>11, <2>12, <2>13, Zenon DEF RunOk
    <2>15. IsLog(lh') /\ IsLog(disk'[LogStart]) /\ boot' = "up" /\ CacheOk(bc', disk', Dirty')
      BY <1>2, <1>3, <2>3, <2>6, <2>10, Zenon
    <2> QED  BY <2>3, <2>6, <2>14, <2>15, Zenon DEF LogInv, Inv
  <1> QED  BY <1>10, <1>11, Zenon

\* The empty header.
LEMMA EmptyLog == IsLog(<<>>) /\ \A k : k \notin 1 .. Len(<<>>)
  BY LogConstants DEF IsLog, log_size

\* The header is erased.
LEMMA ClearHeadInv ==
  ASSUME LogInv, CountsOk, NEW p \in Proc, ClearHead(p)
  PROVE  Inv'
  <1>1. pc[p] = "clear" /\ write_head(p, <<>>) /\ Goto(p, "committed") /\ lh' = <<>>
    BY Zenon DEF ClearHead
  <1>2. UNCHANGED <<outstanding, committing, todo, val, cur, tail, boot, nops>>
    BY Zenon DEF ClearHead, procVars, counts
  <1>3. /\ TypeOK /\ CallsOk /\ CacheOk(bc, disk, Dirty) /\ MaxExists
        /\ disk \in [Disk -> Content] /\ tail \in Nat \ {0}
    BY Zenon DEF LogInv, TypeOK, CountsOk
  <1>4. pc[p] \in CommitAt /\ "committed" \in CommitAt
    BY <1>1, Zenon DEF CommitAt
  <1>5. Moved(p, "committed")
    BY <1>1, <1>3, GotoMoved, Zenon DEF Label
  <1>6. \A m \in CommitAt : At(m)' <=> m = "committed"
    BY <1>3, <1>4, <1>5, MovedStage, Zenon
  <1>7. /\ ~At("install")' /\ ~At("clear")' /\ ~At("write_log")' /\ ~At("write_head")'
    BY <1>6, Zenon DEF CommitAt
  <1>8. CASE panic'
    BY <1>8, Zenon DEF Inv
  <1>9. CASE ~panic'
    <2>1. Stored(bc, disk, bc', disk', LogStart, <<>>) /\ SameRefs(bc, bc')
      <3>1. <<>> \in Seq(Home)
        OBVIOUS
      <3> QED  BY <1>1, <1>3, <1>9, <3>1, Blocks, HeadEffect, Zenon
    <2>a. cur[p] = None /\ cur \in [Proc -> Buf \cup {None}]
      BY <1>1, <1>3, NoneHeld, Zenon DEF LogInv, TypeOK, HoldsAt, CopyAt
    <2>2. TypeOK' /\ HoldOk' /\ CallsOk' /\ boot = "up"
      BY <1>2, <1>3, <1>4, <1>5, <2>a, <2>1, StageKeeps, Zenon
    <2>3. Dirty = {} /\ Dirty' = {}
      <3>1. Dirty = {}
        BY <1>1, Zenon DEF Dirty, At
      <3>2. Dirty' = {}
        BY <1>1, EmptyLog, Zenon DEF Dirty
      <3> QED  BY <3>1, <3>2, Zenon
    <2>4. RefsOk' /\ CacheOk(bc', disk', Dirty')
      BY <1>2, <2>1, <2>3, Blocks, StageCache, Zenon
    <2>5. disk'[LogStart] = <<>>
      BY <2>1, Blocks, Zenon DEF Stored, Put
    <2>6. RunOk'
      BY <1>1, <1>7, <2>5, EmptyLog, Zenon DEF RunOk
    <2>7. IsLog(lh') /\ IsLog(disk'[LogStart]) /\ boot' = "up"
      BY <1>1, <1>2, <2>2, <2>5, EmptyLog, Zenon
    <2> QED  BY <2>2, <2>4, <2>6, <2>7, Zenon DEF LogInv, Inv
  <1> QED  BY <1>8, <1>9, Zenon

\* The end of the commit.
LEMMA CommittedInv ==
  ASSUME LogInv, CountsOk, NEW p \in Proc, Committed(p)
  PROVE  LogInv'
  <1>1. pc[p] = "committed" /\ committing' = FALSE /\ WakeLog(p, "idle")
    BY Zenon DEF Committed
  <1>2. UNCHANGED <<disk, bc, lh, outstanding, todo, val, cur, tail, boot, nops>>
    BY Zenon DEF Committed, procVars, counts
  <1>3. /\ TypeOK /\ HoldOk /\ CallsOk /\ RefsOk /\ CacheOk(bc, disk, Dirty)
        /\ IsLog(lh) /\ IsLog(disk[LogStart]) /\ (boot = "up" => RunOk)
    BY Zenon DEF LogInv
  <1>4. boot = "up" /\ RunOk
    BY <1>1, <1>3, Running, Zenon
  <1>5. Moved(p, "idle")
    BY <1>1, <1>3, WakeMoved, Zenon DEF Label
  <1>6. /\ \A m \in CommitAt : At(m) <=> m = "committed"
        /\ \A m \in CommitAt : ~At(m)'
        /\ \A q \in Proc : pc'[q] \notin CommitAt
    <2>1. pc[p] \in CommitAt /\ "idle" \notin CommitAt
      BY <1>1, Zenon DEF CommitAt
    <2>2. /\ \A m \in CommitAt : At(m) <=> m = pc[p]
          /\ \A m \in CommitAt : At(m)' <=> m = "idle"
          /\ \A q \in Proc \ {p} : pc'[q] \notin CommitAt
      BY <1>3, <1>5, <2>1, MovedStage, Zenon
    <2>3. pc'[p] = "idle"
      BY <1>5, Zenon DEF Moved
    <2> QED  BY <1>1, <2>1, <2>2, <2>3, Zenon
  <1>7. /\ At("committed") /\ ~At("install") /\ ~At("clear")
        /\ ~At("write_log")' /\ ~At("write_head")' /\ ~At("install")' /\ ~At("clear")'
        /\ ~At("committed")'
    BY <1>6, Zenon DEF CommitAt
  <1>8. disk[LogStart] = <<>>
    BY <1>4, <1>7, Zenon DEF RunOk
  <1>9. TypeOK'
    BY <1>1, <1>2, <1>3, <1>5, Zenon DEF TypeOK, Moved
  <1>10. CallsOk'
    <2>1. {q \in Proc : pc'[q] \in InCall} = {q \in Proc : pc[q] \in InCall}
      <3>1. "idle" \notin InCall /\ pc[p] \notin InCall
        BY <1>1, Zenon DEF InCall
      <3> QED  BY <1>5, <3>1, MovedCalls, Zenon
    <2> QED  BY <1>1, <1>2, <1>3, <1>4, <1>6, <2>1, Zenon DEF CallsOk
  <1>11. HoldOk'
    <2>1. Undisturbed(p) /\ pc[p] \notin HoldsAt /\ pc[p] \notin CopyAt /\ "idle" \notin HoldsAt
      BY <1>1, <1>2, Zenon DEF Undisturbed, HoldsAt, CopyAt
    <2> QED  BY <1>2, <1>3, <1>5, <2>1, HoldKept, Zenon
  <1>12. Dirty' = Dirty
    BY <1>2, <1>7, Zenon DEF Dirty
  <1>13. RefsOk' /\ CacheOk(bc', disk', Dirty')
    BY <1>2, <1>3, <1>12, Zenon DEF RefsOk
  <1>14. RunOk'
    BY <1>2, <1>7, <1>8, Zenon DEF RunOk, Logged
  <1> QED  BY <1>2, <1>3, <1>4, <1>9, <1>10, <1>11, <1>13, <1>14, Zenon DEF LogInv

-----------------------------------------------------------------------------
\* binit(): an empty cache is clean over any disk.
LEMMA EmptyCache ==
  ASSUME NEW d \in [Disk -> Content]
  PROVE  CacheOk(binit, d, {}) /\ \A i \in Buf : binit.refcnt[i] = 0
  <1>1. binit \in Cache
    <2>1. [k \in Buf |-> NBUF + 1 - k] \in [Buf -> Buf]
      BY LogConstants DEF Buf
    <2>2. None \in Content
      BY Zenon DEF Content
    <2> QED  BY <2>1, <2>2, Zenon DEF binit, Cache
  <1>2. \A i \in Buf : binit.blockno[i] = None /\ ~binit.valid[i] /\ binit.refcnt[i] = 0
    BY Zenon DEF binit
  <1>3. Sound(binit)
    BY <1>1, <1>2, Zenon DEF Sound
  <1>4. \A b : Shown(binit, d, b) = d[b]
    <2>1. \A b : \A i \in Buf : ~Has(binit, i, b)
      BY <1>2, Zenon DEF Has
    <2> QED  BY <2>1, ShownDisk, Zenon
  <1> QED  BY <1>2, <1>3, <1>4, Zenon DEF CacheOk, Clean, Pinned

\* The power fails.
LEMMA CrashInv ==
  ASSUME LogInv, CountsOk, Crash
  PROVE  LogInv'
  \* The state a machine comes up in over disk d: nothing cached, nobody running.
  <1>a. ASSUME disk' \in [Disk -> Content], IsLog(disk'[LogStart]), bc' = binit,
               lh' = <<>>, outstanding' = 0, committing' = FALSE,
               pc' = [p \in Proc |-> "idle"], todo' = [p \in Proc |-> {}],
               val' = [p \in Proc |-> 0], cur' = [p \in Proc |-> None], tail' = 1,
               boot' = "head", nops' \in Value
        PROVE  LogInv'
    <2> USE <1>a
    <2>1. TypeOK'
      <3>1. 0 \in Value
        BY LogConstants DEF Value
      <3>2. "idle" \in Label
        BY Zenon DEF Label
      <3>3. /\ pc' \in [Proc -> Label] /\ todo' \in [Proc -> SUBSET Home]
            /\ val' \in [Proc -> Value] /\ cur' \in [Proc -> Buf \cup {None}]
        BY <3>1, <3>2, Zenon
      <3>4. /\ outstanding' \in Nat /\ tail' \in Nat \ {0}
            /\ boot' \in {"up", "head", "install", "clear"}
        OBVIOUS
      <3>5. committing' \in BOOLEAN
        BY Zenon
      <3> QED  BY <3>3, <3>4, <3>5, Zenon DEF TypeOK
    <2>2. \A p \in Proc : pc'[p] = "idle" /\ cur'[p] = None
      BY Zenon
    <2>3. "idle" \notin HoldsAt /\ "idle" \notin CommitAt /\ "idle" \notin InCall
      BY Zenon DEF HoldsAt, CommitAt, InCall
    <2>4. HoldOk'
      BY <2>2, <2>3, Zenon DEF HoldOk
    <2>5. CallsOk'
      <3>1. {p \in Proc : pc'[p] \in InCall} = {}
        BY <2>2, <2>3, Zenon
      <3> QED  BY <2>2, <2>3, <3>1, Zenon DEF CallsOk, CountsOk
    <2>6. Dirty' = {}
      BY Zenon DEF Dirty
    <2>7. CacheOk(bc', disk', Dirty')
      BY <2>6, EmptyCache, Zenon
    <2>8. RefsOk'
      <3>1. SUFFICES ASSUME NEW i \in Buf
                     PROVE  bc'.refcnt[i] = Cardinality({p \in Proc : cur'[p] = i})
                                            + (IF bc'.blockno[i] \in Dirty' THEN 1 ELSE 0)
        BY Zenon DEF RefsOk
      <3>2. {p \in Proc : cur'[p] = i} = {}
        BY <2>2, LogConstants, Zenon
      <3>3. bc'.refcnt[i] = 0
        BY Zenon DEF binit
      <3>4. /\ Cardinality({p \in Proc : cur'[p] = i}) = 0
            /\ (IF bc'.blockno[i] \in Dirty' THEN 1 ELSE 0) = 0
        BY <2>6, <3>2, Zenon DEF CountsOk
      <3> QED  BY <3>3, <3>4
    <2>9. RecoverOk'
      BY EmptyLog, Zenon DEF RecoverOk
    <2> QED  BY <2>1, <2>4, <2>5, <2>7, <2>8, <2>9, EmptyLog, Zenon DEF LogInv
  <1>1. disk' = disk /\ nops' = nops
    BY Zenon DEF Crash
  <1>2. disk \in [Disk -> Content] /\ IsLog(disk[LogStart]) /\ nops \in Value
    BY Zenon DEF LogInv, TypeOK
  <1>3. disk' \in [Disk -> Content] /\ IsLog(disk'[LogStart]) /\ nops' \in Value
    BY <1>1, <1>2, Zenon
  <1>4. /\ bc' = binit /\ lh' = <<>> /\ outstanding' = 0 /\ committing' = FALSE
        /\ pc' = [p \in Proc |-> "idle"] /\ todo' = [p \in Proc |-> {}]
        /\ val' = [p \in Proc |-> 0] /\ cur' = [p \in Proc |-> None] /\ tail' = 1
        /\ boot' = "head"
    BY Zenon DEF Crash
  <1> QED  BY <1>3, <1>4, <1>a, Zenon

\* The disk as mkfs leaves it.
LEMMA InitInv ==
  ASSUME CountsOk, Init
  PROVE  LogInv
  <1>1. disk \in [Disk -> Content] /\ disk[LogStart] = <<>>
    BY Blocks, LogConstants DEF Init, Content, Value
  <1>2. TypeOK
    <2>1. 0 \in Value
      BY LogConstants DEF Value
    <2>2. "idle" \in Label
      BY Zenon DEF Label
    <2>3. /\ pc \in [Proc -> Label] /\ todo \in [Proc -> SUBSET Home]
          /\ val \in [Proc -> Value] /\ cur \in [Proc -> Buf \cup {None}]
      BY <2>1, <2>2, Zenon DEF Init
    <2>4. /\ outstanding \in Nat /\ nops \in Value
          /\ tail \in Nat \ {0} /\ boot \in {"up", "head", "install", "clear"}
      BY <2>1 DEF Init
    <2>5. committing \in BOOLEAN
      BY Zenon DEF Init
    <2> QED  BY <1>1, <2>3, <2>4, <2>5, Zenon DEF TypeOK
  <1>3. \A p \in Proc : pc[p] = "idle" /\ cur[p] = None
    BY Zenon DEF Init
  <1>4. "idle" \notin HoldsAt /\ "idle" \notin CommitAt /\ "idle" \notin InCall
    BY Zenon DEF HoldsAt, CommitAt, InCall
  <1>5. HoldOk
    BY <1>3, <1>4, Zenon DEF HoldOk
  <1>6. CallsOk
    <2>1. {p \in Proc : pc[p] \in InCall} = {}
      BY <1>3, <1>4, Zenon
    <2> QED  BY <1>3, <1>4, <2>1, Zenon DEF CallsOk, CountsOk, Init
  <1>7. Dirty = {} /\ bc = binit
    BY Zenon DEF Dirty, Init
  <1>8. CacheOk(bc, disk, Dirty)
    BY <1>1, <1>7, EmptyCache, Zenon
  <1>9. RefsOk
    <2>1. SUFFICES ASSUME NEW i \in Buf
                   PROVE  bc.refcnt[i] = Cardinality({p \in Proc : cur[p] = i})
                                         + (IF bc.blockno[i] \in Dirty THEN 1 ELSE 0)
      BY Zenon DEF RefsOk
    <2>2. {p \in Proc : cur[p] = i} = {}
      BY <1>3, LogConstants, Zenon
    <2>3. bc.refcnt[i] = 0
      BY <1>7, Zenon DEF binit
    <2>4. /\ Cardinality({p \in Proc : cur[p] = i}) = 0
          /\ (IF bc.blockno[i] \in Dirty THEN 1 ELSE 0) = 0
      BY <1>7, <2>2, Zenon DEF CountsOk
    <2> QED  BY <2>3, <2>4
  <1>10. RecoverOk
    BY EmptyLog, Zenon DEF RecoverOk, Init
  <1> QED  BY <1>1, <1>2, <1>5, <1>6, <1>8, <1>9, <1>10, EmptyLog, Zenon DEF LogInv, Init

\* During recovery nobody runs, and nothing is pinned.
LEMMA BootKeeps ==
  ASSUME LogInv, boot # "up", UNCHANGED <<outstanding, committing, pc, todo, val, cur, nops>>,
         disk' \in [Disk -> Content], tail' \in Nat \ {0},
         boot' \in {"up", "head", "install", "clear"}
  PROVE  TypeOK' /\ HoldOk' /\ CallsOk' /\ Dirty = {} /\ \A m \in CommitAt : ~At(m)'
  <1>1. TypeOK /\ HoldOk /\ CallsOk
    BY Zenon DEF LogInv
  <1>2. \A p \in Proc : pc[p] = "idle"
    BY <1>1, Zenon DEF CallsOk
  <1>3. "idle" \notin HoldsAt /\ "idle" \notin CommitAt /\ "idle" \notin CopyAt
    BY Zenon DEF HoldsAt, CommitAt, CopyAt
  <1>4. TypeOK'
    BY <1>1, Zenon DEF TypeOK
  <1>5. HoldOk'
    BY <1>1, <1>2, <1>3, Zenon DEF HoldOk
  <1>6. CallsOk'
    BY <1>1, <1>2, Zenon DEF CallsOk
  <1>7. Dirty = {}
    BY Zenon DEF Dirty
  <1>8. \A m \in CommitAt : ~At(m)'
    BY <1>2, <1>3, Zenon DEF At
  <1> QED  BY <1>4, <1>5, <1>6, <1>7, <1>8, Zenon

\* The process that runs fsinit().
LEMMA BooterIs == Booter \in Proc
  BY LogConstants, Zenon DEF Booter

\* read_head() at boot.
LEMMA ReadHeadInv ==
  ASSUME LogInv, CountsOk, read_head
  PROVE  LogInv'
  \* What read_head() leaves: the header of the disk in memory.
  <1>a. ASSUME CacheOk(bc, disk, {}), disk \in [Disk -> Content], MaxExists
        PROVE  lh' = disk[LogStart] /\ CacheOk(bc', disk, {}) /\ SameRefs(bc, bc')
    <2> USE <1>a
    <2>1. PICK c \in Bread(bc, LogStart, Booter) :
            lh' = c.data[Slot(c, LogStart)] /\ bc' = brelse(c, Slot(c, LogStart))
      BY Zenon DEF read_head
    <2>2. ~NoBuffers(bc, LogStart) /\ c = bread(bc, disk, LogStart, Booter)
      BY <2>1, Zenon DEF Bread
    <2>3. LogStart \in Disk /\ {} \in SUBSET Disk
      BY Blocks, Zenon
    <2>4. PICK s \in Buf : ReadInto(bc, c, disk, {}, LogStart, s)
      <3>1. \E s \in Buf : ReadInto(bc, bread(bc, disk, LogStart, Booter), disk, {}, LogStart, s)
        BY <2>2, <2>3, BooterIs, BreadOk, Zenon
      <3> QED  BY <2>2, <3>1, Zenon
    <2>5. Slot(c, LogStart) = s
      BY <2>3, <2>4, ReadSlot, Zenon
    <2>6. /\ CacheOk(c, disk, {}) /\ c.data[s] = Shown(bc, disk, LogStart)
          /\ \A x \in Disk : Shown(c, disk, x) = Shown(bc, disk, x)
          /\ \A i \in Buf : c.refcnt[i] = bc.refcnt[i] + (IF i = s THEN 1 ELSE 0)
      BY <2>4, Zenon DEF ReadInto
    <2>7. Sound(c) /\ Clean(c, disk, {}) /\ Sound(bc)
      BY <2>6, Zenon DEF CacheOk
    <2>8. \A i \in Buf : bc.refcnt[i] \in Nat
      BY <2>7, Zenon DEF Sound, Cache
    <2>9. c.refcnt[s] # 0
      BY <2>6, <2>8
    <2>10. /\ Alike(c, bc')
           /\ \A j \in Buf : bc'.refcnt[j] = IF j = s THEN c.refcnt[j] - 1 ELSE c.refcnt[j]
      BY <2>1, <2>5, <2>7, <2>9, RelseEffect, Zenon
    <2>11. SameRefs(bc, bc')
      <3>1. SUFFICES ASSUME NEW i \in Buf
                     PROVE  bc'.refcnt[i] = bc.refcnt[i]
        BY Zenon DEF SameRefs
      <3>2. /\ bc.refcnt[i] \in Nat
            /\ c.refcnt[i] = bc.refcnt[i] + (IF i = s THEN 1 ELSE 0)
            /\ bc'.refcnt[i] = IF i = s THEN c.refcnt[i] - 1 ELSE c.refcnt[i]
        BY <2>6, <2>8, <2>10, Zenon
      <3> QED  BY <3>2
    <2>12. \A x : Shown(bc', disk, x) = Shown(c, disk, x)
      <3>1. Alike(c, bc')
        BY <2>10, Zenon
      <3> QED  BY <3>1, AlikeShows
    <2>13. CacheOk(bc', disk, {})
      BY <2>7, <2>10, <2>12, Zenon DEF CacheOk, Clean, Pinned, Alike
    <2>14. Shown(bc, disk, LogStart) = disk[LogStart]
      BY <2>3, Zenon DEF CacheOk, Clean
    <2> QED  BY <2>1, <2>5, <2>6, <2>11, <2>13, <2>14, Zenon
  <1>1. boot = "head" /\ boot' = (IF lh' = <<>> THEN "clear" ELSE "install")
    BY Zenon DEF read_head
  <1>2. UNCHANGED <<disk, outstanding, committing, pc, todo, val, cur, tail, nops>>
    BY Zenon DEF read_head, procVars, counts
  <1>3. /\ boot # "up" /\ boot' # "up" /\ boot' \in {"up", "head", "install", "clear"}
    BY <1>1, Zenon
  <1>4. /\ disk \in [Disk -> Content] /\ tail \in Nat \ {0} /\ MaxExists /\ RefsOk
        /\ CacheOk(bc, disk, Dirty) /\ IsLog(disk[LogStart]) /\ RecoverOk
    BY <1>3, Zenon DEF LogInv, TypeOK, CountsOk
  <1>5. TypeOK' /\ HoldOk' /\ CallsOk' /\ Dirty = {}
    BY <1>2, <1>3, <1>4, BootKeeps, Zenon
  <1>6. lh' = disk[LogStart] /\ CacheOk(bc', disk, {}) /\ SameRefs(bc, bc')
    BY <1>4, <1>5, <1>a, Zenon
  <1>7. Dirty' = {}
    BY <1>3, Zenon DEF Dirty
  <1>8. RefsOk'
    BY <1>2, <1>4, <1>5, <1>6, <1>7, Zenon DEF RefsOk, SameRefs
  <1>9. RecoverOk'
    <2>1. tail = 1
      BY <1>1, <1>4, Zenon DEF RecoverOk
    <2>2. boot' = "install" => tail' <= Len(lh')
      BY <1>1, <1>2, <1>4, <1>6, <2>1 DEF IsLog
    <2>3. \A k \in 1 .. Len(lh') : ~(k < tail')
      BY <1>2, <2>1
    <2>4. boot' = "clear" => lh' = <<>>
      BY <1>1, Zenon
    <2>5. boot' # "head"
      BY <1>1, Zenon
    <2> QED  BY <1>2, <1>6, <2>2, <2>3, <2>4, <2>5, EmptyLog, Zenon DEF RecoverOk
  <1> QED  BY <1>2, <1>3, <1>4, <1>5, <1>6, <1>7, <1>8, <1>9, Zenon DEF LogInv

\* What a round of install_trans() at boot leaves: nothing is pinned then, and
\* the two buffers are given back.
LEMMA BootRound ==
  ASSUME CacheOk(bc, disk, {}), disk \in [Disk -> Content], IsLog(lh),
         tail \in Nat \ {0}, tail <= Len(lh), MaxExists, LogBlock(tail) \in Disk,
         \E c \in Bread(bc, LogBlock(tail), Booter) : install_trans(Booter, c, TRUE)
  PROVE  \/ panic' /\ UNCHANGED <<disk, bc>>
         \/ /\ Stored(bc, disk, bc', disk', lh[tail], Shown(bc, disk, LogBlock(tail)))
            /\ SameRefs(bc, bc')
  <1> DEFINE l == LogBlock(tail)
             h == lh[tail]
  <1>1. PICK c \in Bread(bc, l, Booter) : install_trans(Booter, c, TRUE)
    BY Zenon
  <1>2. ~NoBuffers(bc, l) /\ c = bread(bc, disk, l, Booter) /\ {} \in SUBSET Disk
    BY Zenon DEF Bread
  <1>3. PICK k \in Buf : ReadInto(bc, c, disk, {}, l, k)
    BY <1>2, BooterIs, BreadOk, Zenon
  <1>4. /\ CacheOk(c, disk, {}) /\ Has(c, k, l)
        /\ \A x \in Disk : Shown(c, disk, x) = Shown(bc, disk, x)
        /\ \A i \in Buf : c.refcnt[i] = bc.refcnt[i] + (IF i = k THEN 1 ELSE 0)
        /\ \A i \in Buf : bc.refcnt[i] # 0 => c.blockno[i] = bc.blockno[i]
        /\ \A i \in Buf, x \in Disk : bc.refcnt[i] # 0 /\ Has(bc, i, x) => Has(c, i, x)
    BY <1>3, Zenon DEF ReadInto
  <1>5. \A i \in Buf : bc.refcnt[i] \in Nat
    BY Zenon DEF CacheOk, Sound, Cache
  <1>6. \A i \in Buf : (i = k \/ bc.refcnt[i] # 0) => c.refcnt[i] # 0
    BY <1>4, <1>5
  <1>7. TRUE \in BOOLEAN /\ c.refcnt[k] # 0
    BY <1>6, Zenon
  <1>a. \/ panic' /\ UNCHANGED <<disk, bc>>
        \/ Stored(c, disk, bc', disk', h, Shown(c, disk, l)) /\ Released(c, bc', k)
    BY <1>1, <1>2, <1>4, <1>7, BooterIs, InstallEffect, Zenon
  <1>8. SUFFICES ASSUME Stored(c, disk, bc', disk', h, Shown(c, disk, l)),
                        Released(c, bc', k)
                 PROVE  /\ Stored(bc, disk, bc', disk', h, Shown(bc, disk, l))
                        /\ SameRefs(bc, bc')
    BY <1>a, Zenon
  <1> HIDE DEF l, h
  <1>9. /\ Sound(bc') /\ Put(disk, disk', h, Shown(c, disk, l))
        /\ \A x \in Disk : Shown(bc', disk', x) = IF x = h THEN Shown(c, disk, l)
                                                  ELSE Shown(c, disk, x)
        /\ \A i \in Buf : c.refcnt[i] # 0 => bc'.blockno[i] = c.blockno[i]
        /\ \A i \in Buf, x \in Disk : c.refcnt[i] # 0 /\ Has(c, i, x) => Has(bc', i, x)
    BY <1>8, Zenon DEF Stored
  <1>10. Shown(c, disk, l) = Shown(bc, disk, l)
    BY <1>4, Zenon DEF l
  <1>11. Stored(bc, disk, bc', disk', h, Shown(bc, disk, l))
    <2>1. \A x \in Disk : Shown(bc', disk', x) = IF x = h THEN Shown(bc, disk, l)
                                                 ELSE Shown(bc, disk, x)
      BY <1>4, <1>9, <1>10, Zenon
    <2>2. \A i \in Buf : bc.refcnt[i] # 0 => bc'.blockno[i] = bc.blockno[i]
      BY <1>4, <1>6, <1>9, Zenon
    <2>3. \A i \in Buf, x \in Disk : bc.refcnt[i] # 0 /\ Has(bc, i, x) => Has(bc', i, x)
      BY <1>4, <1>6, <1>9, Zenon
    <2> QED  BY <1>9, <1>10, <2>1, <2>2, <2>3, Zenon DEF Stored
  <1>12. SameRefs(bc, bc')
    <2>1. SUFFICES ASSUME NEW i \in Buf
                   PROVE  bc'.refcnt[i] = bc.refcnt[i]
      BY Zenon DEF SameRefs
    <2>2. /\ bc.refcnt[i] \in Nat
          /\ c.refcnt[i] = bc.refcnt[i] + (IF i = k THEN 1 ELSE 0)
          /\ bc'.refcnt[i] = IF i = k THEN c.refcnt[i] - 1 ELSE c.refcnt[i]
      BY <1>4, <1>5, <1>8, Zenon DEF Released
    <2> QED  BY <2>2
  <1> QED  BY <1>11, <1>12, Zenon

\* A round of install_trans() at boot.
LEMMA RecoverInstallInv ==
  ASSUME LogInv, CountsOk, RecoverInstall
  PROVE  Inv'
  <1> DEFINE h == lh[tail]
             b == LogBlock(tail)
             v == disk[b]
  <1>1. /\ boot = "install" /\ \E c \in Bread(bc, b, Booter) : install_trans(Booter, c, TRUE)
        /\ boot' = (IF tail = Len(lh) THEN "clear" ELSE "install")
    BY Zenon DEF RecoverInstall
  <1>2. UNCHANGED <<lh, outstanding, committing, pc, todo, val, cur, nops>>
    BY Zenon DEF RecoverInstall, logVars, procVars, counts
  <1>3. tail' = IF tail = Len(lh) THEN 1 ELSE tail + 1
    BY <1>1, Zenon DEF install_trans
  <1>4. boot # "up" /\ boot' # "up" /\ boot' \in {"up", "head", "install", "clear"}
    BY <1>1, Zenon
  <1>5. /\ disk \in [Disk -> Content] /\ tail \in Nat \ {0} /\ MaxExists
        /\ CacheOk(bc, disk, Dirty) /\ IsLog(lh) /\ IsLog(disk[LogStart]) /\ RecoverOk
    BY <1>4, Zenon DEF LogInv, TypeOK, CountsOk
  <1>6. tail <= Len(lh) /\ lh = disk[LogStart]
    BY <1>1, <1>5, Zenon DEF RecoverOk
  <1>7. tail \in Nat /\ Len(lh) \in Nat /\ tail \in 1 .. Len(lh) /\ tail' \in Nat \ {0}
    BY <1>3, <1>5, <1>6 DEF IsLog
  <1>8. Dirty = {} /\ Dirty' = {}
    BY <1>4, Zenon DEF Dirty
  <1>9. CASE panic'
    BY <1>9, Zenon DEF Inv
  <1>10. CASE ~panic'
    <2>1. h \in Home /\ h \in Disk /\ h # LogStart /\ b \in Disk /\ b \notin Home /\ b # LogStart
      BY <1>5, <1>7, LogPlaces, Zenon
    <2>2. Stored(bc, disk, bc', disk', h, v) /\ SameRefs(bc, bc')
      <3>1. Stored(bc, disk, bc', disk', h, Shown(bc, disk, b)) /\ SameRefs(bc, bc')
        BY <1>1, <1>5, <1>6, <1>8, <1>10, <2>1, BootRound, Zenon
      <3>2. Shown(bc, disk, b) = v
        BY <1>5, <1>8, <2>1, Zenon DEF CacheOk, Clean
      <3> QED  BY <3>1, <3>2, Zenon
    <2>3. h = lh[tail] /\ b = LogBlock(tail) /\ v = disk[b]
      OBVIOUS
    <2> HIDE DEF h, b, v
    <2>4. disk' \in [Disk -> Content] /\ \A x \in Disk : disk'[x] = IF x = h THEN v ELSE disk[x]
      BY <2>2, Zenon DEF Stored, Put
    <2>5. TypeOK' /\ HoldOk' /\ CallsOk'
      BY <1>2, <1>4, <1>7, <2>4, BootKeeps
    <2>6. RefsOk' /\ CacheOk(bc', disk', Dirty')
      BY <1>2, <1>8, <2>2, StageCache
    <2>7. disk'[LogStart] = lh
      BY <1>6, <2>1, <2>4, Blocks, Zenon
    <2>8. \A k \in 1 .. Len(lh) : (boot' = "install" /\ k < tail') \/ boot' = "clear" => k <= tail
      BY <1>1, <1>3, <1>7
    <2>9. ASSUME NEW k \in 1 .. Len(lh), k <= tail
          PROVE  disk'[LogBlock(k)] = disk'[lh[k]]
      <3>1. LogBlock(k) \in Disk /\ LogBlock(k) \notin Home /\ lh[k] \in Disk
        BY <1>5, LogPlaces, Zenon
      <3>2. disk'[LogBlock(k)] = disk[LogBlock(k)]
        BY <2>1, <2>4, <3>1, Zenon
      <3>3. CASE k = tail
        BY <2>1, <2>3, <2>4, <3>2, <3>3, Zenon
      <3>4. CASE k # tail
        <4>1. k < tail
          BY <1>7, <2>9, <3>4
        <4>2. disk[LogBlock(k)] = disk[lh[k]]
          BY <1>1, <1>5, <4>1, Zenon DEF RecoverOk
        <4>3. lh[k] # h
          BY <1>5, <1>7, <2>3, <3>4, Zenon DEF IsLog
        <4> QED  BY <2>4, <3>1, <3>2, <4>2, <4>3, Zenon
      <3> QED  BY <3>3, <3>4, Zenon
    <2>10. RecoverOk'
      <3>1. boot' = "install" => tail' <= Len(lh)
        BY <1>1, <1>3, <1>7
      <3>2. boot' # "head"
        BY <1>1, Zenon
      <3> QED  BY <1>2, <2>7, <2>8, <2>9, <3>1, <3>2, Zenon DEF RecoverOk
    <2> QED  BY <1>2, <1>4, <1>5, <2>5, <2>6, <2>7, <2>10, Zenon DEF LogInv, Inv
  <1> QED  BY <1>9, <1>10, Zenon

\* The header is erased at boot, and the system is up.
LEMMA RecoverClearInv ==
  ASSUME LogInv, CountsOk, RecoverClear
  PROVE  Inv'
  <1>1. boot = "clear" /\ write_head(Booter, <<>>) /\ boot' = "up" /\ lh' = <<>>
    BY Zenon DEF RecoverClear
  <1>2. UNCHANGED <<outstanding, committing, pc, todo, val, cur, tail, nops>>
    BY Zenon DEF RecoverClear, procVars, counts
  <1>3. boot # "up" /\ boot' \in {"up", "head", "install", "clear"}
    BY <1>1, Zenon
  <1>4. /\ disk \in [Disk -> Content] /\ tail \in Nat \ {0} /\ MaxExists
        /\ CacheOk(bc, disk, Dirty)
    BY Zenon DEF LogInv, TypeOK, CountsOk
  <1>5. Dirty = {} /\ Dirty' = {}
    BY <1>1, <1>3, EmptyLog, Zenon DEF Dirty
  <1>6. CASE panic'
    BY <1>6, Zenon DEF Inv
  <1>7. CASE ~panic'
    <2>1. Stored(bc, disk, bc', disk', LogStart, <<>>) /\ SameRefs(bc, bc')
      <3>1. <<>> \in Seq(Home)
        OBVIOUS
      <3> QED  BY <1>1, <1>4, <1>7, <3>1, Blocks, BooterIs, HeadEffect, Zenon
    <2>2. disk' \in [Disk -> Content] /\ disk'[LogStart] = <<>>
      BY <2>1, Blocks, Zenon DEF Stored, Put
    <2>3. TypeOK' /\ HoldOk' /\ CallsOk' /\ \A m \in CommitAt : ~At(m)'
      BY <1>2, <1>3, <1>4, <2>2, BootKeeps, Zenon
    <2>4. RefsOk' /\ CacheOk(bc', disk', Dirty')
      BY <1>2, <1>5, <2>1, StageCache, Zenon
    <2>5. /\ ~At("write_log")' /\ ~At("write_head")' /\ ~At("install")' /\ ~At("clear")'
          /\ ~At("committed")'
      BY <2>3, Zenon DEF CommitAt
    <2>6. RunOk'
      BY <2>2, <2>5, Zenon DEF RunOk, Logged
    <2> QED  BY <1>1, <2>2, <2>3, <2>4, <2>6, EmptyLog, Zenon DEF LogInv, Inv
  <1> QED  BY <1>6, <1>7, Zenon

-----------------------------------------------------------------------------
\* Every step of the log keeps the invariant.
LEMMA NextInv ==
  ASSUME CountsOk, Inv, [Next]_vars
  PROVE  Inv'
  <1>1. CASE UNCHANGED vars
    <2>1. UNCHANGED <<disk, bc, lh, outstanding, committing, pc, todo, val, cur, tail, boot,
                      panic, nops>>
      BY <1>1, Zenon DEF vars
    <2>2. \A l : At(l)' <=> At(l)
      BY <2>1, Zenon DEF At
    <2>3. Dirty' = Dirty
      BY <2>1, <2>2, Zenon DEF Dirty
    <2>4. \A k : Logged(k)' <=> Logged(k)
      BY <2>1, <2>2, Zenon DEF Logged
    <2>5. TypeOK' <=> TypeOK
      BY <2>1, Zenon DEF TypeOK
    <2>6. (HoldOk' <=> HoldOk) /\ (CallsOk' <=> CallsOk)
      BY <2>1, Zenon DEF HoldOk, CallsOk
    <2>7. RefsOk' <=> RefsOk
      BY <2>1, <2>3, Zenon DEF RefsOk
    <2>8. (RunOk' <=> RunOk) /\ (RecoverOk' <=> RecoverOk)
      BY <2>1, <2>2, <2>4, Zenon DEF RunOk, RecoverOk
    <2> QED  BY <2>1, <2>3, <2>5, <2>6, <2>7, <2>8, Zenon DEF Inv, LogInv
  <1>2. CASE Next
    <2>1. LogInv
      BY <1>2, Zenon DEF Next, Inv
    <2>2. ASSUME NEW p \in Proc, Step(p)
          PROVE  Inv'
      <3>1. CASE begin_op(p)
        BY <2>1, <3>1, BeginInv, Zenon DEF Inv
      <3>2. CASE GetToWrite(p)
        BY <2>1, <3>2, GetToWriteInv, Zenon
      <3>3. CASE Modify(p)
        BY <2>1, <3>3, ModifyInv
      <3>4. CASE Read(p)
        BY <2>1, <3>4, ReadInv, Zenon DEF Inv
      <3>5. CASE Release(p)
        BY <2>1, <3>5, ReleaseInv, Zenon DEF Inv
      <3>6. CASE end_op(p)
        BY <2>1, <3>6, EndInv, Zenon DEF Inv
      <3>12. CASE GetLogBlock(p)
        BY <2>1, <3>12, GetLogInv, Zenon
      <3>7. CASE write_log(p)
        BY <2>1, <3>7, WriteLogInv, Zenon
      <3>8. CASE WriteHead(p)
        BY <2>1, <3>8, WriteHeadInv, Zenon
      <3>9. CASE Install(p)
        BY <2>1, <3>9, InstallInv, Zenon
      <3>10. CASE ClearHead(p)
        BY <2>1, <3>10, ClearHeadInv, Zenon
      <3>11. CASE Committed(p)
        BY <2>1, <3>11, CommittedInv, Zenon DEF Inv
      <3> QED  BY <2>2, <3>1, <3>2, <3>3, <3>4, <3>5, <3>6, <3>7, <3>8, <3>9, <3>10, <3>11,
                  <3>12, Zenon DEF Step
    <2>3. ASSUME NEW p \in Proc, GetToRead(p)
          PROVE  Inv'
      BY <2>1, <2>3, GetToReadInv, Zenon
    <2>4. ASSUME NEW p \in Proc, NEW bs \in SUBSET Home, Call(p, bs)
          PROVE  Inv'
      BY <2>1, <2>4, CallInv, Zenon DEF Inv
    <2>5. CASE Crash
      BY <2>1, <2>5, CrashInv, Zenon DEF Inv
    <2>6. CASE Recover
      <3>1. CASE read_head
        BY <2>1, <3>1, ReadHeadInv, Zenon DEF Inv
      <3>2. CASE RecoverInstall
        BY <2>1, <3>2, RecoverInstallInv, Zenon
      <3>3. CASE RecoverClear
        BY <2>1, <3>3, RecoverClearInv, Zenon
      <3> QED  BY <2>6, <3>1, <3>2, <3>3, Zenon DEF Recover
    <2> QED  BY <1>2, <2>2, <2>3, <2>4, <2>5, <2>6, Zenon DEF Next
  <1> QED  BY <1>1, <1>2, Zenon
=============================================================================
