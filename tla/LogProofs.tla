----------------------------- MODULE LogProofs ------------------------------
(***************************************************************************)
(* Crash atomicity of the guest's log, proved for any number of processes, *)
(* buffers, home blocks and log blocks: log.c over bio.c implements        *)
(* AtomicDisk, step by step from the invariant of LogInvProofs; and its    *)
(* own panics never happen when calls write less than they reserve.        *)
(***************************************************************************)
EXTENDS LogInvProofs

\* The processes with an open call, and what a reboot finds on disk d.
Active == {p \in Proc : pc[p] \in InCall}

RecoveredIn(d, b) ==
    LET n == d[LogStart]
        S == {t \in 1 .. Len(n) : n[t] = b}
    IN IF S = {} THEN d[b] ELSE d[LogBlock(CHOOSE t \in S : TRUE)]

\* A step that no process and no reboot can tell.
Hidden ==
    /\ \A b \in Home : Seen(b)' = Seen(b)
    /\ \A b \in Home : Recovered(b)' = Recovered(b)
    /\ Active' = Active

\* The header decides where a reboot takes a block from.
LEMMA RecoveredIs ==
  ASSUME NEW d, IsLog(d[LogStart])
  PROVE  /\ \A k \in 1 .. Len(d[LogStart]) :
              RecoveredIn(d, d[LogStart][k]) = d[LogBlock(k)]
         /\ \A b : (\A k \in 1 .. Len(d[LogStart]) : d[LogStart][k] # b)
                   => RecoveredIn(d, b) = d[b]
  <1> DEFINE n == d[LogStart]
  <1>1. \A s, t \in 1 .. Len(n) : n[s] = n[t] => s = t
    BY Zenon DEF IsLog
  <1> HIDE DEF n
  <1>2. ASSUME NEW k \in 1 .. Len(n)
        PROVE  RecoveredIn(d, n[k]) = d[LogBlock(k)]
    <2>1. {t \in 1 .. Len(n) : n[t] = n[k]} = {k}
      BY <1>1, Zenon
    <2>2. (CHOOSE t \in {k} : TRUE) = k
      BY Zenon
    <2> QED  BY <2>1, <2>2, Zenon DEF RecoveredIn, n
  <1>3. ASSUME NEW b, \A k \in 1 .. Len(n) : n[k] # b
        PROVE  RecoveredIn(d, b) = d[b]
    <2>1. {t \in 1 .. Len(n) : n[t] = b} = {}
      BY <1>3, Zenon
    <2> QED  BY <2>1, Zenon DEF RecoveredIn, n
  <1> QED  BY <1>2, <1>3, Zenon DEF n

\* The same, of an erased header.
LEMMA RecoveredHome ==
  ASSUME NEW d, d[LogStart] = <<>>
  PROVE  \A b : RecoveredIn(d, b) = d[b]
  BY EmptyLog, RecoveredIs, Zenon

\* Seen and Recovered in terms of the cache and the disk.
LEMMA Views ==
  /\ \A b : Recovered(b) = RecoveredIn(disk, b)
  /\ \A b : Seen(b) = IF boot = "up" THEN Shown(bc, disk, b) ELSE RecoveredIn(disk, b)
  <1>1. \A b : Recovered(b) = RecoveredIn(disk, b)
    BY Zenon DEF Recovered, RecoveredIn
  <1>2. \A b : boot # "up" => Seen(b) = Recovered(b)
    BY Zenon DEF Seen
  <1>3. \A b : boot = "up" => Seen(b) = Shown(bc, disk, b)
    BY Zenon DEF Seen, Shown
  <1> QED  BY <1>1, <1>2, <1>3, Zenon

\* The same after a step.
LEMMA ViewsNext ==
  /\ \A b : Recovered(b)' = RecoveredIn(disk', b)
  /\ \A b : Seen(b)' = IF boot' = "up" THEN Shown(bc', disk', b) ELSE RecoveredIn(disk', b)
  <1>1. \A b : Recovered(b)' = RecoveredIn(disk', b)
    BY Zenon DEF Recovered, RecoveredIn
  <1>2. \A b : boot' # "up" => Seen(b)' = Recovered(b)'
    BY Zenon DEF Seen, Recovered
  <1>3. \A b : boot' = "up" => Seen(b)' = Shown(bc', disk', b)
    BY Zenon DEF Seen, Shown
  <1> QED  BY <1>1, <1>2, <1>3, Zenon

\* A hidden step changes nothing in AtomicDisk.
LEMMA HiddenStutters ==
  ASSUME Hidden
  PROVE  UNCHANGED Atomic!vars
  <1>1. [b \in Home |-> Seen(b)'] = [b \in Home |-> Seen(b)]
    BY Zenon DEF Hidden
  <1>2. [b \in Home |-> Recovered(b)'] = [b \in Home |-> Recovered(b)]
    BY Zenon DEF Hidden
  <1>3. {p \in Proc : pc'[p] \in InCall} = {p \in Proc : pc[p] \in InCall}
    BY Zenon DEF Hidden, Active
  <1> QED  BY <1>1, <1>2, <1>3, Zenon DEF Atomic!vars

\* A process that neither opens nor closes a call.
LEMMA ActiveKept ==
  ASSUME NEW p \in Proc, NEW l, Moved(p, l), pc[p] \in InCall <=> l \in InCall
  PROVE  Active' = Active
  <1>1. Active' = IF l \in InCall THEN Active \cup {p} ELSE Active \ {p}
    BY MovedCalls, Zenon DEF Active
  <1> QED  BY <1>1, Zenon DEF Active

\* A step of the running system that leaves the disk and what is seen.
LEMMA ShownHidden ==
  ASSUME boot = "up", UNCHANGED <<disk, boot>>, Active' = Active,
         \A x \in Disk : Shown(bc', disk, x) = Shown(bc, disk, x)
  PROVE  Hidden
  <1>1. \A b \in Home : b \in Disk
    BY Blocks, Zenon
  <1>2. \A b \in Home : Seen(b)' = Seen(b)
    BY <1>1, Views, ViewsNext, Zenon
  <1>3. \A b \in Home : Recovered(b)' = Recovered(b)
    BY Views, ViewsNext, Zenon
  <1> QED  BY <1>2, <1>3, Zenon DEF Hidden

\* A step that leaves the disk, the cache and the calls.
LEMMA SameHidden ==
  ASSUME UNCHANGED <<disk, bc, boot>>, Active' = Active
  PROVE  Hidden
  BY Views, ViewsNext, Zenon DEF Hidden

-----------------------------------------------------------------------------
\* begin_op() opens the call, or puts the process to sleep.
LEMMA BeginMaps ==
  ASSUME LogInv, NEW p \in Proc, begin_op(p)
  PROVE  Atomic!Begin(p) \/ Hidden
  <1>1. pc[p] = "begin" /\ TypeOK /\ UNCHANGED <<disk, bc, boot>>
    BY Zenon DEF begin_op, LogInv
  <1>2. p \notin Active
    BY <1>1, Zenon DEF Active, InCall
  <1>3. CASE MustWait
    <2>1. Moved(p, "asleep")
      BY <1>1, <1>3, GotoMoved, Zenon DEF begin_op, Label
    <2>2. Active' = Active
      BY <1>1, <2>1, ActiveKept, Zenon DEF InCall
    <2> QED  BY <1>1, <2>2, SameHidden, Zenon
  <1>4. CASE ~MustWait
    <2>1. Moved(p, "op")
      BY <1>1, <1>4, GotoMoved, Zenon DEF begin_op, Label
    <2>2. Active' = Active \cup {p}
      BY <2>1, MovedCalls, Zenon DEF Active, InCall
    <2>3. \A b : Seen(b)' = Seen(b) /\ Recovered(b)' = Recovered(b)
      BY <1>1, Views, ViewsNext, Zenon
    <2>4. /\ [b \in Home |-> Seen(b)'] = [b \in Home |-> Seen(b)]
          /\ [b \in Home |-> Recovered(b)'] = [b \in Home |-> Recovered(b)]
      BY <2>3, Zenon
    <2> QED  BY <1>2, <2>2, <2>4, Zenon DEF Active, Atomic!Begin
  <1> QED  BY <1>3, <1>4, Zenon

\* end_op() closes it; the commit comes later.
LEMMA EndMaps ==
  ASSUME LogInv, CountsOk, NEW p \in Proc, end_op(p)
  PROVE  Atomic!End(p)
  <1>1. pc[p] = "op" /\ UNCHANGED <<disk, bc, boot>>
    BY Zenon DEF end_op
  <1>2. p \in Active
    BY <1>1, Zenon DEF Active, InCall
  <1>3. Active' = Active \ {p}
    <2>1. Moved(p, "idle") \/ Moved(p, "committed") \/ Moved(p, "write_log")
      BY EndCalls, Zenon
    <2>2. "idle" \notin InCall /\ "committed" \notin InCall /\ "write_log" \notin InCall
      BY Zenon DEF InCall
    <2>3. \A l : Moved(p, l) /\ l \notin InCall =>
            {q \in Proc : pc'[q] \in InCall} = {q \in Proc : pc[q] \in InCall} \ {p}
      BY MovedCalls, Zenon
    <2> QED  BY <2>1, <2>2, <2>3, Zenon DEF Active
  <1>4. \A b : Seen(b)' = Seen(b) /\ Recovered(b)' = Recovered(b)
    BY <1>1, Views, ViewsNext, Zenon
  <1>5. /\ [b \in Home |-> Seen(b)'] = [b \in Home |-> Seen(b)]
        /\ [b \in Home |-> Recovered(b)'] = [b \in Home |-> Recovered(b)]
    BY <1>4, Zenon
  <1> QED  BY <1>2, <1>3, <1>5, Zenon DEF Active, Atomic!End

\* bread() up to the buffer's lock shows nothing: what it evicts is clean.
LEMMA GetHidden ==
  ASSUME LogInv, CountsOk, boot = "up", NEW p \in Proc, NEW b \in Home, NEW next \in Label,
         pc[p] \in InCall <=> next \in InCall, Get(p, b, next)
  PROVE  Hidden
  <1>1. UNCHANGED <<disk, boot>>
    BY Zenon DEF Get
  <1>2. CASE NoBuffers(bc, b)
    <2>1. UNCHANGED <<bc, pc>>
      BY <1>2, Zenon DEF Get
    <2>2. Active' = Active
      BY <2>1, Zenon DEF Active
    <2> QED  BY <1>1, <2>1, <2>2, SameHidden, Zenon
  <1>3. CASE ~NoBuffers(bc, b)
    <2>1. bc' = bget(bc, b) /\ Goto(p, next)
      BY <1>3, Zenon DEF Get
    <2>2. TypeOK /\ CacheOk(bc, disk, Dirty) /\ Sound(bc) /\ MaxExists
      BY Zenon DEF LogInv, CacheOk, CountsOk
    <2>3. b \in Disk /\ Dirty \in SUBSET Disk
      BY Blocks, Zenon
    <2>4. PICK s \in Buf : Got(bc, bc', b, s)
      BY <1>3, <2>1, <2>2, <2>3, BgetGot, Zenon
    <2>5. \A x \in Disk : Shown(bc', disk, x) = Shown(bc, disk, x)
      BY <2>2, <2>3, <2>4, GotShows
    <2>6. Moved(p, next)
      BY <2>1, <2>2, GotoMoved, Zenon
    <2>7. Active' = Active
      BY <2>6, ActiveKept, Zenon
    <2> QED  BY <1>1, <2>5, <2>7, ShownHidden, Zenon
  <1> QED  BY <1>2, <1>3, Zenon

\* bread() in a call.
LEMMA GetToWriteHidden ==
  ASSUME LogInv, CountsOk, NEW p \in Proc, GetToWrite(p)
  PROVE  Hidden
  <1>1. pc[p] = "op"
    BY Zenon DEF GetToWrite
  <1>2. boot = "up"
    BY <1>1, Running, Zenon
  <1>3. PICK b \in todo[p] : Get(p, b, "got")
    BY Zenon DEF GetToWrite
  <1>4. b \in Home
    BY Zenon DEF LogInv, TypeOK
  <1> QED  BY <1>1, <1>2, <1>3, <1>4, GetHidden, Zenon DEF Label, InCall

\* bread() outside one.
LEMMA GetToReadHidden ==
  ASSUME LogInv, CountsOk, NEW p \in Proc, GetToRead(p)
  PROVE  Hidden
  <1>1. pc[p] = "idle" /\ boot = "up"
    BY Zenon DEF GetToRead
  <1>2. PICK b \in Home : Get(p, b, "reading")
    BY LogConstants, Zenon DEF GetToRead
  <1> QED  BY <1>1, <1>2, GetHidden, Zenon DEF Label, InCall

\* The read of the block into its buffer.
LEMMA ReadHidden ==
  ASSUME LogInv, CountsOk, NEW p \in Proc, Read(p)
  PROVE  Hidden
  <1>1. pc[p] = "reading" /\ bc' = acquire_read(bc, disk, cur[p], p)
    BY Zenon DEF Read
  <1>2. UNCHANGED <<disk, boot>>
    BY Zenon DEF Read
  <1>3. cur[p] \in Buf /\ bc.blockno[cur[p]] \in Disk /\ boot = "up"
    BY <1>1, HeldBlock, Zenon DEF HoldsAt
  <1>4. TypeOK /\ CacheOk(bc, disk, Dirty) /\ disk \in [Disk -> Content]
    BY Zenon DEF LogInv, TypeOK
  <1>5. Moved(p, "done")
    BY <1>4, GotoMoved, Zenon DEF Read, Label
  <1>6. Active' = Active
    BY <1>1, <1>5, ActiveKept, Zenon DEF InCall
  <1>7. CacheOk(bc', disk, Dirty) /\ \A x \in Disk : Shown(bc', disk, x) = Shown(bc, disk, x)
    BY ReadAcquires, Zenon DEF Acquired
  <1> QED  BY <1>2, <1>3, <1>6, <1>7, ShownHidden, Zenon

\* brelse().
LEMMA ReleaseHidden ==
  ASSUME LogInv, CountsOk, NEW p \in Proc, Release(p)
  PROVE  Hidden
  <1> DEFINE l == IF pc[p] = "release" THEN "op" ELSE "idle"
  <1>1. pc[p] \in {"release", "done"} /\ bc' = brelse(bc, cur[p]) /\ Goto(p, l)
    BY Zenon DEF Release
  <1>2. UNCHANGED <<disk, boot>>
    BY Zenon DEF Release
  <1>3. pc[p] \in HoldsAt /\ l \in Label /\ (pc[p] \in InCall <=> l \in InCall)
    BY <1>1, Zenon DEF HoldsAt, Label, InCall
  <1> HIDE DEF l
  <1>4. cur[p] \in Buf /\ bc.refcnt[cur[p]] # 0 /\ boot = "up"
    BY <1>3, HeldBlock, Zenon
  <1>5. TypeOK /\ Sound(bc)
    BY Zenon DEF LogInv, CacheOk
  <1>6. Moved(p, l)
    BY <1>1, <1>3, <1>5, GotoMoved, Zenon
  <1>7. Active' = Active
    BY <1>3, <1>6, ActiveKept, Zenon
  <1>8. Alike(bc, bc')
    BY <1>1, <1>4, <1>5, RelseEffect, Zenon
  <1>9. \A x : Shown(bc', disk, x) = Shown(bc, disk, x)
    BY <1>8, AlikeShows
  <1> QED  BY <1>2, <1>4, <1>7, <1>9, ShownHidden, Zenon

\* A call's write is seen at once, and only in its block.
LEMMA ModifyMaps ==
  ASSUME LogInv, CountsOk, NEW p \in Proc, Modify(p)
  PROVE  \E b \in Home, v \in Value : Atomic!Write(p, b, v)
  <1> DEFINE b == bc.blockno[cur[p]]
  <1>1. pc[p] = "got" /\ Goto(p, "release")
    BY Zenon DEF Modify
  <1>2. UNCHANGED <<disk, boot>>
    BY Zenon DEF Modify
  <1>3. b \in Home /\ boot = "up"
    BY <1>1, HeldBlock, Zenon DEF HoldsAt
  <1>4. TypeOK /\ val[p] \in Value
    BY Zenon DEF LogInv, TypeOK
  <1>5. Moved(p, "release")
    BY <1>1, <1>4, GotoMoved, Zenon DEF Label
  <1>6. Active' = Active /\ p \in Active
    <2>1. Active' = Active
      BY <1>1, <1>5, ActiveKept, Zenon DEF InCall
    <2> QED  BY <1>1, <2>1, Zenon DEF Active, InCall
  <1>7. \A x \in Disk : Shown(bc', disk, x) = IF x = b THEN val[p] ELSE Shown(bc, disk, x)
    BY ModifyEffect, Zenon
  <1> HIDE DEF b
  <1>8. ASSUME NEW x \in Home
        PROVE  Seen(x)' = IF x = b THEN val[p] ELSE Seen(x)
    <2>1. Seen(x) = Shown(bc, disk, x)
      BY <1>3, Views, Zenon
    <2>2. Seen(x)' = Shown(bc', disk, x)
      BY <1>2, <1>3, ViewsNext, Zenon
    <2>3. x \in Disk
      BY Blocks, Zenon
    <2> QED  BY <1>7, <2>1, <2>2, <2>3, Zenon
  <1>9. \A x \in Home : Recovered(x)' = Recovered(x)
    BY <1>2, Views, ViewsNext, Zenon
  <1>10. [x \in Home |-> Seen(x)'] = [[x \in Home |-> Seen(x)] EXCEPT ![b] = val[p]]
    BY <1>3, <1>8, Zenon
  <1>11. [x \in Home |-> Recovered(x)'] = [x \in Home |-> Recovered(x)]
    BY <1>9, Zenon
  <1>12. Atomic!Write(p, b, val[p])
    BY <1>6, <1>10, <1>11, Zenon DEF Active, Atomic!Write
  <1> QED  BY <1>3, <1>4, <1>12, Zenon

\* bread() of the log block shows nothing either.
LEMMA GetLogHidden ==
  ASSUME LogInv, CountsOk, NEW p \in Proc, GetLogBlock(p)
  PROVE  Hidden
  <1> DEFINE l == LogBlock(tail)
  <1>1. pc[p] \in CopyAt /\ UNCHANGED <<disk, pc, boot>>
    BY Zenon DEF GetLogBlock, CopyAt, Panic
  <1>2. Active' = Active
    BY <1>1, Zenon DEF Active
  <1>3. CASE UNCHANGED bc
    BY <1>1, <1>2, <1>3, SameHidden, Zenon
  <1>4. CASE \E c \in Bread(bc, l, p) : bc' = c
    <2>1. /\ CacheOk(bc, disk, Dirty) /\ disk \in [Disk -> Content] /\ MaxExists
          /\ IsLog(lh) /\ tail \in Nat \ {0} /\ (boot = "up" => RunOk)
      BY Zenon DEF LogInv, TypeOK, CountsOk
    <2>2. l \in Disk /\ Dirty \in SUBSET Disk /\ boot = "up"
      <3>1. boot = "up" /\ RunOk
        BY <1>1, <2>1, Running, Zenon DEF CopyAt
      <3>2. tail <= Len(lh)
        BY <1>1, <3>1, Zenon DEF RunOk, At, CopyAt
      <3> QED  BY <2>1, <3>1, <3>2, RoundBlocks, Blocks, Zenon
    <2>3. ~NoBuffers(bc, l) /\ bc' = bread(bc, disk, l, p)
      BY <1>4, Zenon DEF Bread
    <2>4. PICK k \in Buf : ReadInto(bc, bc', disk, Dirty, l, k)
      BY <2>1, <2>2, <2>3, BreadOk, Zenon
    <2>5. \A x \in Disk : Shown(bc', disk, x) = Shown(bc, disk, x)
      BY <2>4, Zenon DEF ReadInto
    <2> QED  BY <1>1, <1>2, <2>2, <2>5, ShownHidden, Zenon
  <1> QED  BY <1>3, <1>4, Zenon DEF GetLogBlock, Panic

\* A round of write_log() writes only to the log, and the header is empty.
LEMMA WriteLogHidden ==
  ASSUME LogInv, CountsOk, NEW p \in Proc, write_log(p)
  PROVE  Hidden
  <1> DEFINE l == IF tail = Len(lh) THEN "write_head" ELSE "write_log"
             b == LogBlock(tail)
             v == Shown(bc, disk, lh[tail])
  <1>1. pc[p] = "write_log" /\ Goto(p, l)
    BY Zenon DEF write_log
  <1>2. UNCHANGED boot
    BY Zenon DEF write_log
  <1>3. /\ TypeOK /\ CallsOk /\ CacheOk(bc, disk, Dirty) /\ MaxExists
        /\ IsLog(lh) /\ disk \in [Disk -> Content]
        /\ tail \in Nat \ {0} /\ (boot = "up" => RunOk)
    BY Zenon DEF LogInv, TypeOK, CountsOk
  <1>4. /\ l \in Label /\ l \notin InCall /\ pc[p] \notin InCall
    BY <1>1, Zenon DEF InCall, Label
  <1>5. Moved(p, l)
    BY <1>1, <1>3, <1>4, GotoMoved, Zenon
  <1>6. Active' = Active
    BY <1>4, <1>5, ActiveKept, Zenon
  <1>7. boot = "up" /\ RunOk
    BY <1>1, <1>3, Running, Zenon
  <1>8. tail <= Len(lh) /\ disk[LogStart] = <<>>
    <2>1. \A m \in CommitAt : At(m) <=> m = pc[p]
      BY <1>1, <1>3, <1>5, MovedStage, Zenon DEF CommitAt
    <2>2. At("write_log") /\ ~At("install") /\ ~At("clear")
      BY <1>1, <2>1, Zenon DEF CommitAt
    <2> QED  BY <1>7, <2>2, Zenon DEF RunOk
  <1>9. \/ panic' /\ UNCHANGED <<disk, bc>>
        \/ Stored(bc, disk, bc', disk', b, v)
    <2>1. pc[p] \in CopyAt /\ cur[p] # None
      BY <1>1, Zenon DEF write_log, CopyAt
    <2>2. Has(bc, cur[p], b) /\ bc.refcnt[cur[p]] # 0
      BY <2>1, RoundHeld, Zenon
    <2> QED  BY <1>3, <1>8, <2>2, Blocks, WriteLogEffect, Zenon
  <1>10. CASE UNCHANGED <<disk, bc>>
    BY <1>2, <1>6, <1>10, SameHidden, Zenon
  <1>11. CASE Stored(bc, disk, bc', disk', b, v)
    <2>1. b \notin Home /\ b # LogStart
      BY <1>3, <1>8, RoundBlocks, Zenon
    <2> HIDE DEF b, v
    <2>2. /\ \A x \in Disk : disk'[x] = IF x = b THEN v ELSE disk[x]
          /\ \A x \in Disk : Shown(bc', disk', x) = IF x = b THEN v ELSE Shown(bc, disk, x)
      BY <1>11, Zenon DEF Stored, Put
    <2>3. disk'[LogStart] = <<>>
      BY <1>8, <2>1, <2>2, Blocks, Zenon
    <2>4. \A x : RecoveredIn(disk, x) = disk[x] /\ RecoveredIn(disk', x) = disk'[x]
      BY <1>8, <2>3, RecoveredHome, Zenon
    <2>5. ASSUME NEW x \in Home
          PROVE  disk'[x] = disk[x] /\ Shown(bc', disk', x) = Shown(bc, disk, x)
      BY <2>1, <2>2, Blocks, Zenon
    <2>6. \A x \in Home : Recovered(x)' = Recovered(x)
      BY <2>4, <2>5, Views, ViewsNext, Zenon
    <2>7. \A x \in Home : Seen(x)' = Seen(x)
      BY <1>2, <1>7, <2>5, Views, ViewsNext, Zenon
    <2> QED  BY <1>6, <2>6, <2>7, Zenon DEF Hidden
  <1> QED  BY <1>9, <1>10, <1>11, Zenon

\* The header's write commits: a reboot now finds what processes see.
LEMMA WriteHeadMaps ==
  ASSUME LogInv, CountsOk, NEW p \in Proc, WriteHead(p)
  PROVE  Atomic!Commit \/ Hidden
  <1>1. pc[p] = "write_head" /\ write_head(p, lh) /\ Goto(p, "install")
    BY Zenon DEF WriteHead
  <1>2. UNCHANGED <<lh, boot>>
    BY Zenon DEF WriteHead, logVars
  <1>3. /\ TypeOK /\ CallsOk /\ CacheOk(bc, disk, Dirty) /\ MaxExists
        /\ IsLog(lh) /\ lh \in Seq(Home) /\ disk \in [Disk -> Content]
        /\ (boot = "up" => RunOk) /\ Clean(bc, disk, Dirty)
    BY Zenon DEF LogInv, TypeOK, CountsOk, IsLog, CacheOk
  <1>4. Moved(p, "install")
    BY <1>1, <1>3, GotoMoved, Zenon DEF Label
  <1>5. Active' = Active
    BY <1>1, <1>4, ActiveKept, Zenon DEF InCall
  <1>6. Active = {}
    <2>1. pc[p] \in CommitAt
      BY <1>1, Zenon DEF CommitAt
    <2> QED  BY <1>3, <2>1, Zenon DEF CallsOk, Active
  <1>7. boot = "up" /\ RunOk
    BY <1>1, <1>3, Running, Zenon
  <1>8. At("write_head")
    BY <1>1, Zenon DEF At
  <1>9. \/ panic' /\ UNCHANGED <<disk, bc>>
        \/ Stored(bc, disk, bc', disk', LogStart, lh)
    BY <1>1, <1>3, Blocks, HeadEffect, Zenon
  <1>10. CASE UNCHANGED <<disk, bc>>
    BY <1>2, <1>5, <1>10, SameHidden, Zenon
  <1>11. CASE Stored(bc, disk, bc', disk', LogStart, lh)
    <2>1. /\ \A x \in Disk : disk'[x] = IF x = LogStart THEN lh ELSE disk[x]
          /\ \A x \in Disk : Shown(bc', disk', x) = IF x = LogStart THEN lh ELSE Shown(bc, disk, x)
      BY <1>11, Zenon DEF Stored, Put
    <2>2. disk'[LogStart] = lh
      BY <2>1, Blocks, Zenon
    <2>3. ASSUME NEW x \in Home
          PROVE  RecoveredIn(disk', x) = Shown(bc, disk, x)
      <3>1. x \in Disk /\ x # LogStart
        BY Blocks, Zenon
      <3>2. CASE InLog(x)
        <4>1. PICK k \in 1 .. Len(lh) : lh[k] = x
          BY <3>2, Zenon DEF InLog
        <4>2. disk[LogBlock(k)] = Shown(bc, disk, x)
          BY <1>7, <1>8, <4>1, Zenon DEF RunOk, Logged
        <4>3. LogBlock(k) \in Disk /\ LogBlock(k) # LogStart
          BY <1>3, LogPlaces, Zenon
        <4>4. RecoveredIn(disk', x) = disk'[LogBlock(k)]
          <5>1. \A j \in 1 .. Len(disk'[LogStart]) :
                  RecoveredIn(disk', disk'[LogStart][j]) = disk'[LogBlock(j)]
            BY <1>3, <2>2, RecoveredIs, Zenon
          <5> QED  BY <2>2, <4>1, <5>1, Zenon
        <4> QED  BY <2>1, <4>2, <4>3, <4>4, Zenon
      <3>3. CASE ~InLog(x)
        <4>1. RecoveredIn(disk', x) = disk'[x]
          <5>1. \A y : (\A k \in 1 .. Len(disk'[LogStart]) : disk'[LogStart][k] # y)
                       => RecoveredIn(disk', y) = disk'[y]
            BY <1>3, <2>2, RecoveredIs, Zenon
          <5> QED  BY <2>2, <3>3, <5>1, Zenon DEF InLog
        <4>2. x \notin Dirty
          BY <3>3, Zenon DEF Dirty, InLog
        <4> QED  BY <1>3, <2>1, <3>1, <4>1, <4>2, Zenon DEF Clean
      <3> QED  BY <3>2, <3>3, Zenon
    <2>4. ASSUME NEW x \in Home
          PROVE  Recovered(x)' = Seen(x) /\ Seen(x)' = Seen(x)
      <3>1. Shown(bc', disk', x) = Shown(bc, disk, x)
        BY <2>1, Blocks, Zenon
      <3>2. Seen(x) = Shown(bc, disk, x)
        BY <1>7, Views, Zenon
      <3>3. Seen(x)' = Shown(bc', disk', x) /\ Recovered(x)' = RecoveredIn(disk', x)
        BY <1>2, <1>7, ViewsNext, Zenon
      <3> QED  BY <2>3, <3>1, <3>2, <3>3, Zenon
    <2>5. /\ [x \in Home |-> Recovered(x)'] = [x \in Home |-> Seen(x)]
          /\ [x \in Home |-> Seen(x)'] = [x \in Home |-> Seen(x)]
      BY <2>4, Zenon
    <2> QED  BY <1>5, <1>6, <2>5, Zenon DEF Active, Atomic!Commit
  <1> QED  BY <1>9, <1>10, <1>11, Zenon

\* A write to a home block that the header names, with the header and the log
\* left alone, recovers the same.
LEMMA HomeWrite ==
  ASSUME IsLog(disk[LogStart]), NEW k \in 1 .. Len(disk[LogStart]), NEW v,
         \A x \in Disk : disk'[x] = IF x = disk[LogStart][k] THEN v ELSE disk[x]
  PROVE  \A x \in Home : RecoveredIn(disk', x) = RecoveredIn(disk, x)
  <1> DEFINE n == disk[LogStart]
  <1>1. n[k] \in Home /\ n[k] # LogStart /\ IsLog(n)
    BY LogPlaces, Zenon
  <1>2. disk'[LogStart] = n
    BY <1>1, Blocks, Zenon
  <1>3. /\ \A j \in 1 .. Len(n) : RecoveredIn(disk, n[j]) = disk[LogBlock(j)]
        /\ \A b : (\A j \in 1 .. Len(n) : n[j] # b) => RecoveredIn(disk, b) = disk[b]
    BY RecoveredIs, Zenon
  <1>4. /\ \A j \in 1 .. Len(n) : RecoveredIn(disk', n[j]) = disk'[LogBlock(j)]
        /\ \A b : (\A j \in 1 .. Len(n) : n[j] # b) => RecoveredIn(disk', b) = disk'[b]
    <2>1. /\ \A j \in 1 .. Len(disk'[LogStart]) :
               RecoveredIn(disk', disk'[LogStart][j]) = disk'[LogBlock(j)]
          /\ \A b : (\A j \in 1 .. Len(disk'[LogStart]) : disk'[LogStart][j] # b)
                    => RecoveredIn(disk', b) = disk'[b]
      BY <1>1, <1>2, RecoveredIs, Zenon
    <2> QED  BY <1>2, <2>1, Zenon
  <1> HIDE DEF n
  <1>5. \A j \in 1 .. Len(n) : disk'[LogBlock(j)] = disk[LogBlock(j)]
    <2>1. \A j \in 1 .. Len(n) : LogBlock(j) \in Disk /\ LogBlock(j) \notin Home
      BY <1>1, LogPlaces, Zenon
    <2> QED  BY <1>1, <2>1, Zenon DEF n
  <1>6. ASSUME NEW x \in Home
        PROVE  RecoveredIn(disk', x) = RecoveredIn(disk, x)
    <2>1. CASE \E j \in 1 .. Len(n) : n[j] = x
      <3>1. PICK j \in 1 .. Len(n) : n[j] = x
        BY <2>1, Zenon
      <3>2. RecoveredIn(disk, x) = disk[LogBlock(j)]
        BY <1>3, <3>1, Zenon
      <3>3. RecoveredIn(disk', x) = disk'[LogBlock(j)]
        BY <1>4, <3>1, Zenon
      <3> QED  BY <1>5, <3>2, <3>3, Zenon
    <2>2. CASE ~\E j \in 1 .. Len(n) : n[j] = x
      <3>1. disk'[x] = disk[x]
        BY <2>2, Blocks, Zenon DEF n
      <3> QED  BY <1>3, <1>4, <2>2, <3>1, Zenon
    <2> QED  BY <2>1, <2>2, Zenon
  <1> QED  BY <1>6, Zenon

\* A round of install_trans() brings home what is seen and recovered already.
LEMMA InstallHidden ==
  ASSUME LogInv, CountsOk, NEW p \in Proc, Install(p)
  PROVE  Hidden
  <1> DEFINE l == IF tail = Len(lh) THEN "clear" ELSE "install"
             h == lh[tail]
             v == Shown(bc, disk, LogBlock(tail))
  <1>1. pc[p] = "install" /\ install_trans(p, bc, FALSE) /\ Goto(p, l)
    BY Zenon DEF Install
  <1>2. UNCHANGED boot
    BY Zenon DEF Install
  <1>3. /\ TypeOK /\ CacheOk(bc, disk, Dirty) /\ MaxExists /\ IsLog(lh)
        /\ disk \in [Disk -> Content] /\ tail \in Nat \ {0} /\ IsLog(disk[LogStart])
    BY Zenon DEF LogInv, TypeOK, CountsOk
  <1>4. l \in Label /\ l \notin InCall /\ pc[p] \notin InCall
    BY <1>1, Zenon DEF InCall, Label
  <1>5. Moved(p, l)
    BY <1>1, <1>3, <1>4, GotoMoved, Zenon
  <1>6. Active' = Active
    BY <1>4, <1>5, ActiveKept, Zenon
  <1>7. boot = "up"
    BY <1>1, Running, Zenon
  <1>8. disk[LogStart] = lh /\ tail \in 1 .. Len(lh) /\ h \in Dirty /\ v = Shown(bc, disk, h)
    BY <1>1, InstallAt, Zenon
  <1>9. \/ panic' /\ UNCHANGED <<disk, bc>>
        \/ Stored(bc, disk, bc', disk', h, v)
    <2>1. tail <= Len(lh)
      BY <1>3, <1>8
    <2>2. pc[p] \in CopyAt /\ cur[p] # None
      BY <1>1, Zenon DEF Install, CopyAt
    <2>3. cur[p] \in Buf /\ Has(bc, cur[p], LogBlock(tail)) /\ bc.refcnt[cur[p]] # 0
      BY <2>2, RoundHeld, Zenon
    <2>4. FALSE \in BOOLEAN /\ Dirty \in SUBSET Disk
      BY Blocks, Zenon
    <2> QED  BY <1>1, <1>3, <1>8, <2>1, <2>3, <2>4, InstallEffect, Zenon
  <1>10. CASE UNCHANGED <<disk, bc>>
    BY <1>2, <1>6, <1>10, SameHidden, Zenon
  <1>11. CASE Stored(bc, disk, bc', disk', h, v)
    <2>1. h = disk[LogStart][tail] /\ tail \in 1 .. Len(disk[LogStart])
      BY <1>8, Zenon
    <2> HIDE DEF h, v
    <2>2. /\ \A x \in Disk : disk'[x] = IF x = h THEN v ELSE disk[x]
          /\ \A x \in Disk : Shown(bc', disk', x) = Shown(bc, disk, x)
      BY <1>8, <1>11, Zenon DEF Stored, Put
    <2>3. \A x \in Home : RecoveredIn(disk', x) = RecoveredIn(disk, x)
      BY <1>3, <2>1, <2>2, HomeWrite, Zenon
    <2>4. \A x \in Home : Recovered(x)' = Recovered(x)
      BY <2>3, Views, ViewsNext, Zenon
    <2>5. \A x \in Home : x \in Disk
      BY Blocks, Zenon
    <2>6. \A x \in Home : Seen(x)' = Seen(x)
      BY <1>2, <1>7, <2>2, <2>5, Views, ViewsNext, Zenon
    <2> QED  BY <1>6, <2>4, <2>6, Zenon DEF Hidden
  <1> QED  BY <1>9, <1>10, <1>11, Zenon

\* With every logged block at home, the header can go.
LEMMA HeadCleared ==
  ASSUME IsLog(disk[LogStart]),
         \A k \in 1 .. Len(disk[LogStart]) : disk[LogBlock(k)] = disk[disk[LogStart][k]]
  PROVE  \A x : RecoveredIn(disk, x) = disk[x]
  <1>1. /\ \A k \in 1 .. Len(disk[LogStart]) :
             RecoveredIn(disk, disk[LogStart][k]) = disk[LogBlock(k)]
        /\ \A b : (\A k \in 1 .. Len(disk[LogStart]) : disk[LogStart][k] # b)
                  => RecoveredIn(disk, b) = disk[b]
    BY RecoveredIs, Zenon
  <1>2. ASSUME NEW x
        PROVE  RecoveredIn(disk, x) = disk[x]
    <2>1. CASE \A k \in 1 .. Len(disk[LogStart]) : disk[LogStart][k] # x
      BY <1>1, <2>1, Zenon
    <2>2. CASE \E k \in 1 .. Len(disk[LogStart]) : disk[LogStart][k] = x
      BY <1>1, <2>2, Zenon
    <2> QED  BY <2>1, <2>2, Zenon
  <1> QED  BY <1>2, Zenon

\* The write of the empty header keeps the home blocks.
LEMMA HeadErased ==
  ASSUME Stored(bc, disk, bc', disk', LogStart, <<>>)
  PROVE  \A x \in Home : /\ RecoveredIn(disk', x) = disk[x]
                         /\ Shown(bc', disk', x) = Shown(bc, disk, x)
  <1>1. /\ \A x \in Disk : disk'[x] = IF x = LogStart THEN <<>> ELSE disk[x]
        /\ \A x \in Disk : Shown(bc', disk', x) = IF x = LogStart THEN <<>> ELSE Shown(bc, disk, x)
    BY Zenon DEF Stored, Put
  <1>2. disk'[LogStart] = <<>>
    BY <1>1, Blocks, Zenon
  <1>3. \A x : RecoveredIn(disk', x) = disk'[x]
    BY <1>2, RecoveredHome, Zenon
  <1> QED  BY <1>1, <1>3, Blocks, Zenon

\* The header is erased after install_trans().
LEMMA ClearHeadHidden ==
  ASSUME LogInv, CountsOk, NEW p \in Proc, ClearHead(p)
  PROVE  Hidden
  <1>1. pc[p] = "clear" /\ write_head(p, <<>>) /\ Goto(p, "committed")
    BY Zenon DEF ClearHead
  <1>2. UNCHANGED boot
    BY Zenon DEF ClearHead
  <1>3. /\ TypeOK /\ CacheOk(bc, disk, Dirty) /\ MaxExists /\ IsLog(lh)
        /\ disk \in [Disk -> Content] /\ IsLog(disk[LogStart])
        /\ (boot = "up" => RunOk) /\ Clean(bc, disk, Dirty)
    BY Zenon DEF LogInv, TypeOK, CountsOk, CacheOk
  <1>4. Moved(p, "committed")
    BY <1>1, <1>3, GotoMoved, Zenon DEF Label
  <1>5. Active' = Active
    BY <1>1, <1>4, ActiveKept, Zenon DEF InCall
  <1>6. boot = "up" /\ RunOk
    BY <1>1, <1>3, Running, Zenon
  <1>7. At("clear") /\ Dirty = {}
    BY <1>1, Zenon DEF At, Dirty
  <1>8. disk[LogStart] = lh /\ \A k \in 1 .. Len(lh) : disk[LogBlock(k)] = Shown(bc, disk, lh[k])
    BY <1>6, <1>7, Zenon DEF RunOk, Logged
  <1>9. \A k \in 1 .. Len(lh) : disk[LogBlock(k)] = disk[lh[k]]
    <2>1. \A k \in 1 .. Len(lh) : lh[k] \in Disk
      BY <1>3, LogPlaces, Zenon
    <2> QED  BY <1>3, <1>7, <1>8, <2>1, Zenon DEF Clean
  <1>10. \A x : RecoveredIn(disk, x) = disk[x]
    BY <1>3, <1>8, <1>9, HeadCleared, Zenon
  <1>11. \/ panic' /\ UNCHANGED <<disk, bc>>
         \/ Stored(bc, disk, bc', disk', LogStart, <<>>)
    <2>1. <<>> \in Seq(Home)
      OBVIOUS
    <2> QED  BY <1>1, <1>3, <2>1, Blocks, HeadEffect, Zenon
  <1>12. CASE UNCHANGED <<disk, bc>>
    BY <1>2, <1>5, <1>12, SameHidden, Zenon
  <1>13. CASE Stored(bc, disk, bc', disk', LogStart, <<>>)
    <2>1. \A x \in Home : /\ RecoveredIn(disk', x) = disk[x]
                          /\ Shown(bc', disk', x) = Shown(bc, disk, x)
      BY <1>13, HeadErased, Zenon
    <2>2. \A x \in Home : Recovered(x)' = Recovered(x)
      BY <1>10, <2>1, Views, ViewsNext, Zenon
    <2>3. \A x \in Home : Seen(x)' = Seen(x)
      BY <1>2, <1>6, <2>1, Views, ViewsNext, Zenon
    <2> QED  BY <1>5, <2>2, <2>3, Zenon DEF Hidden
  <1> QED  BY <1>11, <1>12, <1>13, Zenon

\* The power fails: processes see what is recovered, and no call is open.
LEMMA CrashMaps ==
  ASSUME Crash
  PROVE  Atomic!Crash
  <1>1. disk' = disk /\ boot' = "head" /\ pc' = [p \in Proc |-> "idle"]
    BY Zenon DEF Crash
  <1>2. {p \in Proc : pc'[p] \in InCall} = {}
    BY <1>1, Zenon DEF InCall
  <1>3. boot' # "up"
    BY <1>1, Zenon
  <1>4. \A x : Recovered(x)' = Recovered(x) /\ Seen(x)' = Recovered(x)
    BY <1>1, <1>3, Views, ViewsNext, Zenon
  <1>5. /\ [x \in Home |-> Recovered(x)'] = [x \in Home |-> Recovered(x)]
        /\ [x \in Home |-> Seen(x)'] = [x \in Home |-> Recovered(x)]
    BY <1>4, Zenon
  <1> QED  BY <1>2, <1>5, Zenon DEF Atomic!Crash

\* A round of install_trans() at boot recovers the same.
LEMMA RecoverInstallHidden ==
  ASSUME LogInv, CountsOk, RecoverInstall
  PROVE  Hidden
  <1> DEFINE h == lh[tail]
             v == Shown(bc, disk, LogBlock(tail))
  <1>1. /\ boot = "install" /\ boot' # "up"
        /\ \E c \in Bread(bc, LogBlock(tail), Booter) : install_trans(Booter, c, TRUE)
    BY Zenon DEF RecoverInstall
  <1>2. Active' = Active
    BY Zenon DEF RecoverInstall, Active
  <1>3. /\ CacheOk(bc, disk, Dirty) /\ MaxExists /\ IsLog(lh)
        /\ disk \in [Disk -> Content] /\ tail \in Nat \ {0} /\ IsLog(disk[LogStart])
        /\ (boot # "up" => RecoverOk)
    BY Zenon DEF LogInv, TypeOK, CountsOk
  <1>4. boot # "up" /\ tail <= Len(lh) /\ lh = disk[LogStart]
    BY <1>1, <1>3, Zenon DEF RecoverOk
  <1>5. \/ panic' /\ UNCHANGED <<disk, bc>>
        \/ Stored(bc, disk, bc', disk', h, v)
    <2>1. CacheOk(bc, disk, {})
      BY <1>3, <1>4, Zenon DEF Dirty
    <2>2. LogBlock(tail) \in Disk
      BY <1>3, <1>4, RoundBlocks, Zenon
    <2> QED  BY <1>1, <1>3, <1>4, <2>1, <2>2, BootRound, Zenon
  <1>6. \A x \in Home : RecoveredIn(disk', x) = RecoveredIn(disk, x)
    <2>1. CASE UNCHANGED <<disk, bc>>
      BY <2>1, Zenon
    <2>2. CASE Stored(bc, disk, bc', disk', h, v)
      <3>1. tail \in 1 .. Len(disk[LogStart]) /\ h = disk[LogStart][tail]
        BY <1>3, <1>4 DEF IsLog
      <3> HIDE DEF h, v
      <3>2. \A x \in Disk : disk'[x] = IF x = h THEN v ELSE disk[x]
        BY <2>2, Zenon DEF Stored, Put
      <3> QED  BY <1>3, <3>1, <3>2, HomeWrite, Zenon
    <2> QED  BY <1>5, <2>1, <2>2, Zenon
  <1>7. \A x \in Home : Recovered(x)' = Recovered(x) /\ Seen(x)' = Seen(x)
    BY <1>1, <1>4, <1>6, Views, ViewsNext, Zenon
  <1> QED  BY <1>2, <1>7, Zenon DEF Hidden

\* The system comes up with what was recovered.
LEMMA RecoverClearHidden ==
  ASSUME LogInv, CountsOk, RecoverClear
  PROVE  Hidden
  <1>1. boot = "clear" /\ write_head(Booter, <<>>) /\ boot' = "up"
    BY Zenon DEF RecoverClear
  <1>2. Active' = Active
    BY Zenon DEF RecoverClear, Active
  <1>3. /\ CacheOk(bc, disk, Dirty) /\ MaxExists /\ disk \in [Disk -> Content]
        /\ IsLog(disk[LogStart]) /\ (boot # "up" => RecoverOk) /\ Clean(bc, disk, Dirty)
    BY Zenon DEF LogInv, TypeOK, CountsOk, CacheOk
  <1>4. boot # "up" /\ boot \in {"install", "clear"}
    BY <1>1, Zenon
  <1>5. /\ lh = disk[LogStart] /\ \A k \in 1 .. Len(lh) : disk[LogBlock(k)] = disk[lh[k]]
    BY <1>1, <1>3, <1>4, Zenon DEF RecoverOk
  <1>6. \A x : RecoveredIn(disk, x) = disk[x]
    BY <1>3, <1>5, HeadCleared, Zenon
  <1>7. \A x \in Home : Shown(bc, disk, x) = disk[x]
    <2>1. Dirty = {}
      BY <1>4, Zenon DEF Dirty
    <2> QED  BY <1>3, <2>1, Blocks, Zenon DEF Clean
  <1>8. \/ panic' /\ UNCHANGED <<disk, bc>>
        \/ Stored(bc, disk, bc', disk', LogStart, <<>>)
    <2>1. <<>> \in Seq(Home)
      OBVIOUS
    <2> QED  BY <1>1, <1>3, <2>1, Blocks, BooterIs, HeadEffect, Zenon
  <1>9. \A x \in Home : RecoveredIn(disk', x) = disk[x] /\ Shown(bc', disk', x) = disk[x]
    <2>1. CASE UNCHANGED <<disk, bc>>
      BY <1>6, <1>7, <2>1, Zenon
    <2>2. CASE Stored(bc, disk, bc', disk', LogStart, <<>>)
      <3>1. \A x \in Home : /\ RecoveredIn(disk', x) = disk[x]
                            /\ Shown(bc', disk', x) = Shown(bc, disk, x)
        BY <2>2, HeadErased, Zenon
      <3> QED  BY <1>7, <3>1, Zenon
    <2> QED  BY <1>8, <2>1, <2>2, Zenon
  <1>10. \A x \in Home : Recovered(x)' = Recovered(x)
    BY <1>6, <1>9, Views, ViewsNext, Zenon
  <1>11. \A x \in Home : Seen(x)' = Seen(x)
    BY <1>1, <1>4, <1>6, <1>9, Views, ViewsNext, Zenon
  <1> QED  BY <1>2, <1>10, <1>11, Zenon DEF Hidden

\* The steps that touch neither the disk nor the cache nor the open calls.
LEMMA StillHidden ==
  ASSUME LogInv, NEW p \in Proc, Committed(p) \/ \E bs \in SUBSET Home : Call(p, bs)
  PROVE  Hidden
  <1>1. TypeOK /\ UNCHANGED <<disk, bc, boot>>
    BY Zenon DEF LogInv, Committed, Call
  <1>2. CASE Committed(p)
    <2>1. Moved(p, "idle") /\ pc[p] = "committed"
      BY <1>1, <1>2, WakeMoved, Zenon DEF Committed, Label
    <2>2. Active' = Active
      BY <2>1, ActiveKept, Zenon DEF InCall
    <2> QED  BY <1>1, <2>2, SameHidden, Zenon
  <1>3. CASE \E bs \in SUBSET Home : Call(p, bs)
    <2>1. pc[p] = "idle" /\ Goto(p, "begin")
      BY <1>3, Zenon DEF Call
    <2>2. Moved(p, "begin")
      BY <1>1, <2>1, GotoMoved, Zenon DEF Label
    <2>3. Active' = Active
      BY <2>1, <2>2, ActiveKept, Zenon DEF InCall
    <2> QED  BY <1>1, <2>3, SameHidden, Zenon
  <1> QED  BY <1>2, <1>3, Zenon

\* read_head() changes nothing on the disk.
LEMMA ReadHeadHidden ==
  ASSUME read_head
  PROVE  Hidden
  <1>1. disk' = disk /\ pc' = pc /\ boot = "head" /\ boot' \in {"clear", "install"}
    BY Zenon DEF read_head
  <1>2. Active' = Active
    BY <1>1, Zenon DEF Active
  <1>3. boot # "up" /\ boot' # "up"
    BY <1>1, Zenon
  <1>4. \A x \in Home : Recovered(x)' = Recovered(x) /\ Seen(x)' = Seen(x)
    BY <1>1, <1>3, Views, ViewsNext, Zenon
  <1> QED  BY <1>2, <1>4, Zenon DEF Hidden

\* Each step of the log is one of AtomicDisk, or hidden.
LEMMA NextMaps ==
  ASSUME CountsOk, Inv, [Next]_vars
  PROVE  [Atomic!Next]_(Atomic!vars)
  <1>1. SUFFICES Atomic!Next \/ Hidden
    BY HiddenStutters, Zenon
  <1>2. CASE UNCHANGED vars
    <2>1. UNCHANGED <<disk, bc, pc, boot>>
      BY <1>2, Zenon DEF vars
    <2>2. Active' = Active
      BY <2>1, Zenon DEF Active
    <2> QED  BY <2>1, <2>2, SameHidden, Zenon
  <1>3. CASE Next
    <2>1. LogInv
      BY <1>3, Zenon DEF Next, Inv
    <2>2. ASSUME NEW p \in Proc, Step(p)
          PROVE  Atomic!Next \/ Hidden
      <3>1. CASE begin_op(p)
        <4>1. Atomic!Begin(p) \/ Hidden
          BY <2>1, <3>1, BeginMaps
        <4> QED  BY <4>1, Zenon DEF Atomic!Next
      <3>2. CASE GetToWrite(p)
        BY <2>1, <3>2, GetToWriteHidden
      <3>3. CASE Modify(p)
        <4>1. \E b \in Home, v \in Value : Atomic!Write(p, b, v)
          BY <2>1, <3>3, ModifyMaps
        <4> QED  BY <4>1, Zenon DEF Atomic!Next
      <3>4. CASE Read(p)
        BY <2>1, <3>4, ReadHidden, Zenon
      <3>5. CASE Release(p)
        BY <2>1, <3>5, ReleaseHidden, Zenon
      <3>6. CASE end_op(p)
        <4>1. Atomic!End(p)
          BY <2>1, <3>6, EndMaps
        <4> QED  BY <4>1, Zenon DEF Atomic!Next
      <3>7. CASE write_log(p)
        BY <2>1, <3>7, WriteLogHidden, Zenon
      <3>8. CASE WriteHead(p)
        <4>1. Atomic!Commit \/ Hidden
          BY <2>1, <3>8, WriteHeadMaps
        <4> QED  BY <4>1, Zenon DEF Atomic!Next
      <3>9. CASE Install(p)
        BY <2>1, <3>9, InstallHidden, Zenon
      <3>10. CASE ClearHead(p)
        BY <2>1, <3>10, ClearHeadHidden, Zenon
      <3>11. CASE Committed(p)
        BY <2>1, <3>11, StillHidden, Zenon
      <3>12. CASE GetLogBlock(p)
        BY <2>1, <3>12, GetLogHidden, Zenon
      <3> QED  BY <2>2, <3>1, <3>2, <3>3, <3>4, <3>5, <3>6, <3>7, <3>8, <3>9, <3>10, <3>11,
                  <3>12, Zenon DEF Step
    <2>3. ASSUME NEW p \in Proc, GetToRead(p)
          PROVE  Hidden
      BY <2>1, <2>3, GetToReadHidden, Zenon
    <2>4. ASSUME NEW p \in Proc, NEW bs \in SUBSET Home, Call(p, bs)
          PROVE  Hidden
      BY <2>1, <2>4, StillHidden, Zenon
    <2>5. CASE Crash
      <3>1. Atomic!Crash
        BY <2>5, CrashMaps, Zenon
      <3> QED  BY <3>1, Zenon DEF Atomic!Next
    <2>6. CASE Recover
      <3>1. CASE read_head
        BY <3>1, ReadHeadHidden, Zenon
      <3>2. CASE RecoverInstall
        BY <2>1, <3>2, RecoverInstallHidden
      <3>3. CASE RecoverClear
        BY <2>1, <3>3, RecoverClearHidden
      <3> QED  BY <2>6, <3>1, <3>2, <3>3, Zenon DEF Recover
    <2> QED  BY <1>3, <2>2, <2>3, <2>4, <2>5, <2>6, Zenon DEF Next
  <1> QED  BY <1>2, <1>3, Zenon

\* The disk of mkfs is an initial state of AtomicDisk.
LEMMA InitMaps ==
  ASSUME Init
  PROVE  Atomic!Init
  <1>1. disk[LogStart] = <<>> /\ \A x \in Home : disk[x] = 0
    BY Blocks, Zenon DEF Init
  <1>2. boot # "up" /\ \A p \in Proc : pc[p] = "idle"
    BY Zenon DEF Init
  <1>3. \A x : RecoveredIn(disk, x) = disk[x]
    BY <1>1, RecoveredHome, Zenon
  <1>4. \A x \in Home : Seen(x) = 0 /\ Recovered(x) = 0
    BY <1>1, <1>2, <1>3, Views, Zenon
  <1>5. 0 \in Value
    BY LogConstants DEF Value
  <1>6. /\ [x \in Home |-> Seen(x)] \in [Home -> Value]
        /\ [x \in Home |-> Recovered(x)] = [x \in Home |-> Seen(x)]
    BY <1>4, <1>5, Zenon
  <1>7. {p \in Proc : pc[p] \in InCall} = {}
    BY <1>2, Zenon DEF InCall
  <1> QED  BY <1>6, <1>7, Zenon DEF Atomic!Init

-----------------------------------------------------------------------------
(***************************************************************************)
(* Log space.  begin_op() admits a call when the blocks in the log and     *)
(* MAXOPBLOCKS for each open call fit in LOGSIZE.  What the open calls     *)
(* have still to write is counted as pairs of a call and a block; a block  *)
(* that is in the log already is absorbed and needs no room.               *)
(***************************************************************************)
Pairs(A, t) == {x \in Proc \X Home : x[1] \in A /\ x[2] \in t[x[1]]}

\* What the open calls have still to write and is not in the log.
Reserved == {x \in Pairs(Active, todo) : ~InLog(x[2])}

\* A block is got in order to be written.
WillWrite == \A p \in Proc : pc[p] = "got" => bc.blockno[cur[p]] \in todo[p]

\* While a call is open, what is in the log and what is to come leave the log
\* short of full, for an absorbed log_write() finds a full log too full as well.
Room == outstanding > 0 => Len(lh) + Cardinality(Reserved) <= LOGSIZE - 2

\* Between transactions the log is empty.
Emptied == boot = "up" /\ outstanding = 0 /\ ~committing => lh = <<>>

\* What is in the log and what is to come fit into the shares of begin_op().
SpaceInv ==
    /\ \A p \in Proc : Cardinality(todo[p]) <= MaxWrites
    /\ WillWrite /\ Room /\ Emptied

\* What is used of the counting of pairs; proved at the end.
PairCounts ==
    /\ \A A \in SUBSET Proc, t \in [Proc -> SUBSET Home] :
         (\A p \in Proc : Cardinality(t[p]) <= MaxWrites)
         => Cardinality(Pairs(A, t)) <= Cardinality(A) * MaxWrites
    /\ \A S \in SUBSET (Proc \X Home) :
         /\ Cardinality(S) \in Nat
         /\ \A T \in SUBSET S : Cardinality(T) <= Cardinality(S)
         /\ \A x \in S : Cardinality(S) = Cardinality(S \ {x}) + 1
    /\ \A S \in SUBSET Home : \A b \in Home :
         /\ Cardinality(S) \in Nat /\ Cardinality(S \ {b}) \in Nat
         /\ Cardinality(S \ {b}) <= Cardinality(S)
    /\ Cardinality({}) = 0

\* The buffers in use keep their blocks.
Kept == \A i \in Buf : bc.refcnt[i] # 0 => bc'.blockno[i] = bc.blockno[i]

\* What is to come depends on the open calls and the log only.
LEMMA ReservedSame ==
  ASSUME Active' = Active, \A p \in Active : todo'[p] = todo[p], lh' = lh
  PROVE  Reserved' = Reserved
  <1>1. Pairs(Active', todo') = Pairs(Active, todo)
    BY Zenon DEF Pairs
  <1> QED  BY <1>1, Zenon DEF Reserved, InLog

\* The types of the sum.
LEMMA SpaceTypes ==
  ASSUME LogInv, PairCounts
  PROVE  /\ Len(lh) \in Nat /\ Cardinality(Reserved) \in Nat
         /\ Reserved \in SUBSET (Proc \X Home)
         /\ outstanding \in Nat /\ outstanding = Cardinality(Active)
  <1>1. TypeOK /\ CallsOk /\ lh \in Seq(Home) /\ outstanding \in Nat
    BY Zenon DEF LogInv, IsLog, TypeOK
  <1>2. Len(lh) \in Nat
    BY <1>1
  <1>3. Reserved \in SUBSET (Proc \X Home)
    BY Zenon DEF Reserved, Pairs
  <1>4. Cardinality(Reserved) \in Nat
    BY <1>3, Zenon DEF PairCounts
  <1>5. outstanding = Cardinality(Active)
    BY <1>1, Zenon DEF CallsOk, Active
  <1> QED  BY <1>1, <1>2, <1>3, <1>4, <1>5, Zenon

\* Other processes' buffers keep the blocks that they will write.
LEMMA WillWriteKept ==
  ASSUME CountsOk, LogInv, WillWrite, Kept, NEW p \in Proc, NEW l, Moved(p, l),
         \A q \in Proc \ {p} : cur'[q] = cur[q] /\ todo'[q] = todo[q],
         l = "got" => bc'.blockno[cur'[p]] \in todo'[p]
  PROVE  WillWrite'
  <1>1. SUFFICES ASSUME NEW q \in Proc, pc'[q] = "got"
                 PROVE  bc'.blockno[cur'[q]] \in todo'[q]
    BY Zenon DEF WillWrite
  <1>2. CASE q = p
    BY <1>1, <1>2, Zenon DEF Moved
  <1>3. CASE q # p
    <2>1. pc[q] = "got" /\ cur'[q] = cur[q] /\ todo'[q] = todo[q]
      BY <1>1, <1>3, Zenon DEF Moved
    <2>2. cur[q] \in Buf /\ bc.refcnt[cur[q]] # 0
      BY <2>1, HeldBlock, Zenon DEF HoldsAt
    <2> QED  BY <2>1, <2>2, Zenon DEF Kept, WillWrite
  <1> QED  BY <1>2, <1>3, Zenon

\* The sum when nothing is reserved or given back, and the log stays.
LEMMA SumKept ==
  ASSUME SpaceInv, Reserved' = Reserved,
         UNCHANGED <<lh, outstanding, committing, boot>>
  PROVE  Room' /\ Emptied'
  BY Zenon DEF SpaceInv, Room, Emptied

\* A step of a process that opens, closes and writes nothing.
LEMMA QuietSpace ==
  ASSUME LogInv, CountsOk, SpaceInv,
         NEW p \in Proc, NEW l, Moved(p, l), Kept, Active' = Active,
         l = "got" => bc'.blockno[cur'[p]] \in todo'[p],
         \A q \in Proc \ {p} : cur'[q] = cur[q],
         UNCHANGED <<todo, lh, outstanding, committing, boot>>
  PROVE  SpaceInv'
  <1>1. Reserved' = Reserved
    BY ReservedSame, Zenon
  <1>2. Room' /\ Emptied'
    BY <1>1, SumKept, Zenon
  <1>3. WillWrite'
    BY WillWriteKept, Zenon DEF SpaceInv
  <1> QED  BY <1>2, <1>3, Zenon DEF SpaceInv

\* begin_op() has MAXOPBLOCKS blocks left for each open call and for this one.
LEMMA BeginSpace ==
  ASSUME LogInv, CountsOk, PairCounts, SpaceInv, NEW p \in Proc, begin_op(p)
  PROVE  SpaceInv'
  <1>1. pc[p] = "begin" /\ TypeOK /\ UNCHANGED <<bc, lh, cur, todo, committing, boot>>
    BY Zenon DEF begin_op, LogInv, procVars
  <1>2. Kept /\ boot = "up"
    BY <1>1, Running, Zenon DEF Kept
  <1>3. CASE MustWait
    <2>1. Moved(p, "asleep") /\ UNCHANGED outstanding
      BY <1>1, <1>3, GotoMoved, Zenon DEF begin_op, Label
    <2>2. Active' = Active
      BY <1>1, <2>1, ActiveKept, Zenon DEF InCall
    <2>3. "asleep" # "got" /\ \A q \in Proc \ {p} : cur'[q] = cur[q]
      BY <1>1, Zenon
    <2> QED  BY <1>1, <1>2, <2>1, <2>2, <2>3, QuietSpace, Zenon
  <1>4. CASE ~MustWait
    <2>1. Moved(p, "op") /\ outstanding' = outstanding + 1
      BY <1>1, <1>4, GotoMoved, Zenon DEF begin_op, Label
    <2>2. WillWrite'
      BY <1>1, <1>2, <2>1, WillWriteKept DEF SpaceInv
    <2>3. Active' = Active \cup {p} /\ p \notin Active
      BY <1>1, <2>1, MovedCalls, Zenon DEF Active, InCall
    <2>4. Len(lh) \in Nat /\ outstanding \in Nat /\ outstanding = Cardinality(Active)
      BY SpaceTypes, Zenon
    <2> DEFINE n == outstanding + 1
               A == Active \cup {p}
               r == Cardinality(Reserved')
    <2>5. A \in SUBSET Proc /\ Cardinality(A) = n
      BY <2>3, <2>4, Zenon DEF CountsOk, Active
    <2>6. r \in Nat /\ r <= n * MaxWrites
      <3>1. todo \in [Proc -> SUBSET Home] /\ \A q \in Proc : Cardinality(todo[q]) <= MaxWrites
        BY <1>1, Zenon DEF TypeOK, SpaceInv
      <3> DEFINE P == Pairs(A, todo)
      <3>2. P \in SUBSET (Proc \X Home) /\ Reserved' \in SUBSET P
        BY <1>1, <2>3, Zenon DEF Reserved, Pairs
      <3>3. Cardinality(P) <= n * MaxWrites
        <4> HIDE DEF A
        <4> QED  BY <2>5, <3>1, Zenon DEF PairCounts
      <3> HIDE DEF P, n
      <3>4. /\ Cardinality(P) \in Nat /\ r <= Cardinality(P) /\ r \in Nat
        BY <3>2, Zenon DEF PairCounts
      <3>5. n * MaxWrites \in Nat
        BY <2>4, LogConstants DEF n
      <3> HIDE DEF r
      <3> QED  BY <3>3, <3>4, <3>5
    <2>7. Len(lh) + n * MAXOPBLOCKS <= LOGSIZE
      <3>1. ~(Len(lh) + (outstanding + 1) * MAXOPBLOCKS > LOGSIZE)
        BY <1>4, Zenon DEF MustWait
      <3>2. (outstanding + 1) * MAXOPBLOCKS \in Nat
        BY <2>4, LogConstants
      <3> QED  BY <2>4, <3>1, <3>2, LogConstants
    <2>8. Len(lh) + r <= LOGSIZE - 2
      <3>1. CASE outstanding = 0
        <4>1. lh = <<>>
          BY <1>2, <1>4, <3>1, Zenon DEF SpaceInv, Emptied, MustWait
        <4>2. n = 1 /\ Len(lh) = 0
          BY <3>1, <4>1
        <4>3. r <= 1 * MaxWrites
          BY <2>6, <4>2, Zenon
        <4> HIDE DEF n, r
        <4> QED  BY <2>6, <4>2, <4>3, LogConstants, WritesFit
      <3>2. CASE outstanding # 0
        <4>1. n \in Nat /\ n >= 2
          BY <2>4, <3>2
        <4> HIDE DEF n, r
        <4>2. \A j, k \in Nat : k >= 1 => j * k >= j
          OBVIOUS
        <4>3. MAXOPBLOCKS - MaxWrites \in Nat /\ MAXOPBLOCKS - MaxWrites >= 1
          BY LogConstants, WritesFit
        <4>4. n * (MAXOPBLOCKS - MaxWrites) >= n
          BY <4>1, <4>2, <4>3, Zenon
        <4>5. n * MAXOPBLOCKS = n * (MAXOPBLOCKS - MaxWrites) + n * MaxWrites
          BY <4>1, LogConstants
        <4>6. /\ n * MAXOPBLOCKS \in Nat /\ n * (MAXOPBLOCKS - MaxWrites) \in Int
              /\ n * MaxWrites \in Nat
          BY <4>1, LogConstants
        <4> QED  BY <2>4, <2>6, <2>7, <4>1, <4>4, <4>5, <4>6, LogConstants
      <3> QED  BY <3>1, <3>2, Zenon
    <2>9. Room'
      BY <1>1, <2>8, Zenon DEF Room
    <2>10. Emptied'
      <3>1. outstanding' # 0
        BY <2>1, <2>4
      <3> QED  BY <3>1, Zenon DEF Emptied
    <2> QED  BY <1>1, <2>2, <2>9, <2>10, Zenon DEF SpaceInv
  <1> QED  BY <1>3, <1>4, Zenon

\* log_write() takes the block from what the call has reserved, unless the
\* block is in the log already.
LEMMA ModifySpace ==
  ASSUME LogInv, CountsOk, PairCounts, SpaceInv, NEW p \in Proc, Modify(p)
  PROVE  SpaceInv' /\ ~panic'
  <1> DEFINE b == bc.blockno[cur[p]]
             x == <<p, b>>
  <1>1. /\ pc[p] = "got" /\ Goto(p, "release")
        /\ \/ todo' = [todo EXCEPT ![p] = todo[p] \ {b}]
           \/ todo' = todo
    BY Zenon DEF Modify
  <1>2. UNCHANGED <<outstanding, cur>>
    BY Zenon DEF Modify
  <1>3. TypeOK /\ lh \in Seq(Home)
    BY Zenon DEF LogInv, IsLog
  <1>4. b \in Home /\ b \in todo[p]
    <2>1. b \in Home
      BY <1>1, HeldBlock, Zenon DEF HoldsAt
    <2> QED  BY <1>1, <2>1, Zenon DEF SpaceInv, WillWrite
  <1>5. /\ Len(lh) \in Nat /\ Cardinality(Reserved) \in Nat
        /\ Reserved \in SUBSET (Proc \X Home)
        /\ outstanding \in Nat /\ outstanding = Cardinality(Active)
    BY SpaceTypes, Zenon
  <1>6. p \in Active
    BY <1>1, Zenon DEF Active, InCall
  <1>7. outstanding >= 1
    <2>1. Active \in SUBSET Proc
      BY Zenon DEF Active
    <2>2. Cardinality(Active) = Cardinality(Active \ {p}) + 1 /\ Cardinality(Active \ {p}) \in Nat
      BY <1>6, <2>1, CountLess, Zenon
    <2> QED  BY <1>5, <2>2
  <1>8. Len(lh) + Cardinality(Reserved) <= LOGSIZE - 2
    <2>1. outstanding > 0
      BY <1>5, <1>7
    <2> QED  BY <2>1, Zenon DEF SpaceInv, Room
  <1>9. ~panic'
    <2>1. panic' = \/ Len(lh) >= LOGSIZE \/ Len(lh) >= log_size - 1 \/ outstanding < 1
      BY Zenon DEF Modify, log_write
    <2>2. ~(Len(lh) >= LOGSIZE) /\ ~(Len(lh) >= log_size - 1) /\ ~(outstanding < 1)
      BY <1>5, <1>7, <1>8, LogConstants DEF log_size
    <2> QED  BY <2>1, <2>2, Zenon
  <1>10. Moved(p, "release")
    BY <1>1, <1>3, GotoMoved, Zenon DEF Label
  <1>11. Active' = Active
    BY <1>1, <1>10, ActiveKept, Zenon DEF InCall
  <1>12. /\ bc'.blockno = bc.blockno
         /\ InLog(b) => lh' = lh
         /\ ~InLog(b) => lh' = Append(lh, b)
    BY ModifyEffect, Zenon
  <1> HIDE DEF b
  <1>13. /\ todo'[p] = todo[p] \ {b} \/ todo'[p] = todo[p]
         /\ \A q \in Proc \ {p} : todo'[q] = todo[q]
    BY <1>1, <1>3, Zenon DEF TypeOK
  <1>14. WillWrite'
    <2>1. Kept /\ "release" # "got"
      BY <1>12, Zenon DEF Kept
    <2> QED  BY <1>2, <1>10, <1>13, <2>1, WillWriteKept, Zenon DEF SpaceInv
  <1>15. \A q \in Proc : Cardinality(todo'[q]) <= MaxWrites
    <2>1. Cardinality(todo[p] \ {b}) <= MaxWrites
      <3>1. todo[p] \in SUBSET Home
        BY <1>3, Zenon DEF TypeOK
      <3>2. /\ Cardinality(todo[p]) \in Nat /\ Cardinality(todo[p] \ {b}) \in Nat
            /\ Cardinality(todo[p] \ {b}) <= Cardinality(todo[p])
        BY <1>4, <3>1, Zenon DEF PairCounts
      <3>3. Cardinality(todo[p]) <= MaxWrites
        BY Zenon DEF SpaceInv
      <3> QED  BY <3>2, <3>3, LogConstants
    <2> QED  BY <1>13, <2>1, Zenon DEF SpaceInv
  <1>16. ASSUME NEW h, ~InLog(h)'
         PROVE  ~InLog(h) /\ h # b
    <2>1. CASE InLog(b)
      BY <1>12, <1>16, <2>1, Zenon DEF InLog
    <2>2. CASE ~InLog(b)
      <3>1. /\ lh' = Append(lh, b) /\ Len(lh') = Len(lh) + 1 /\ lh'[Len(lh) + 1] = b
            /\ \A t \in 1 .. Len(lh) : lh'[t] = lh[t] /\ t \in 1 .. Len(lh')
            /\ Len(lh) + 1 \in 1 .. Len(lh')
        BY <1>3, <1>4, <1>5, <1>12, <2>2
      <3> QED  BY <1>16, <3>1, Zenon DEF InLog
    <2> QED  BY <2>1, <2>2, Zenon
  <1>17. Reserved' \in SUBSET (Reserved \ {x})
    <2>1. SUFFICES ASSUME NEW y \in Reserved'
                   PROVE  y \in Reserved /\ y # x
      BY Zenon
    <2>2. /\ y \in Proc \X Home /\ y[1] \in Active /\ y[2] \in todo'[y[1]] /\ ~InLog(y[2])'
      BY <1>11, <2>1, Zenon DEF Reserved, Pairs
    <2>3. y[1] \in Proc /\ ~InLog(y[2]) /\ y[2] # b
      <3>1. y[1] \in Proc
        BY <2>2
      <3> QED  BY <1>16, <2>2, <3>1, Zenon
    <2>4. y[2] \in todo[y[1]]
      BY <1>13, <2>2, <2>3, Zenon
    <2>5. y # x
      <3>1. x[2] = b
        OBVIOUS
      <3> QED  BY <2>3, <3>1, Zenon
    <2> QED  BY <2>2, <2>3, <2>4, <2>5, Zenon DEF Reserved, Pairs
  <1>18. Len(lh') + Cardinality(Reserved') <= LOGSIZE - 2
    <2> DEFINE S == Reserved \ {x}
               r == Cardinality(Reserved')
    <2>1. S \in SUBSET (Proc \X Home) /\ Reserved' \in SUBSET (Proc \X Home)
      BY <1>5, <1>17, Zenon
    <2>2. /\ Cardinality(S) \in Nat /\ r \in Nat /\ r <= Cardinality(S)
      BY <1>17, <2>1, Zenon DEF PairCounts
    <2>3. CASE InLog(b)
      <3>1. S \in SUBSET Reserved
        BY Zenon
      <3>2. Cardinality(S) <= Cardinality(Reserved)
        <4> HIDE DEF S
        <4> QED  BY <1>5, <3>1, Zenon DEF PairCounts
      <3>3. lh' = lh
        BY <1>12, <2>3, Zenon
      <3> HIDE DEF S, r
      <3>4. Len(lh) + r <= LOGSIZE - 2
        BY <1>5, <1>8, <2>2, <3>2, LogConstants
      <3> QED  BY <3>3, <3>4, Zenon DEF r
    <2>4. CASE ~InLog(b)
      <3>1. x \in Reserved
        <4>1. x \in Proc \X Home /\ x[1] = p /\ x[2] = b
          BY <1>4, Zenon
        <4> HIDE DEF x
        <4> QED  BY <1>4, <1>6, <2>4, <4>1, Zenon DEF Reserved, Pairs
      <3>2. Cardinality(Reserved) = Cardinality(S) + 1
        <4> HIDE DEF x
        <4> QED  BY <1>5, <3>1, Zenon DEF PairCounts
      <3>3. Len(lh') = Len(lh) + 1
        BY <1>3, <1>4, <1>12, <2>4
      <3> HIDE DEF S, r
      <3>4. (Len(lh) + 1) + r <= LOGSIZE - 2
        BY <1>5, <1>8, <2>2, <3>2, LogConstants
      <3> QED  BY <3>3, <3>4, Zenon DEF r
    <2> QED  BY <2>3, <2>4, Zenon
  <1>19. Emptied'
    <2>1. outstanding' # 0
      BY <1>2, <1>5, <1>7
    <2> QED  BY <2>1, Zenon DEF Emptied
  <1> QED  BY <1>9, <1>14, <1>15, <1>18, <1>19, Zenon DEF SpaceInv, Room

\* A process enters the file system: nothing is reserved yet.
LEMMA CallSpace ==
  ASSUME LogInv, CountsOk, PairCounts, SpaceInv,
         NEW p \in Proc, NEW bs \in SUBSET Home, Cardinality(bs) <= MaxWrites, Call(p, bs)
  PROVE  SpaceInv'
  <1>1. pc[p] = "idle" /\ Goto(p, "begin") /\ todo' = [todo EXCEPT ![p] = bs]
    BY Zenon DEF Call
  <1>2. UNCHANGED <<bc, lh, outstanding, committing, boot, cur>> /\ TypeOK
    BY Zenon DEF Call, logVars, LogInv
  <1>3. Moved(p, "begin")
    BY <1>1, <1>2, GotoMoved, Zenon DEF Label
  <1>4. Active' = Active /\ p \notin Active
    BY <1>1, <1>3, ActiveKept, Zenon DEF InCall, Active
  <1>5. todo'[p] = bs /\ \A q \in Proc \ {p} : todo'[q] = todo[q]
    BY <1>1, <1>2, Zenon DEF TypeOK
  <1>6. Reserved' = Reserved
    <2>1. \A q \in Active : q \in Proc \ {p}
      BY <1>4, Zenon DEF Active
    <2> QED  BY <1>2, <1>4, <1>5, <2>1, ReservedSame, Zenon
  <1>7. Room' /\ Emptied'
    BY <1>2, <1>6, SumKept, Zenon
  <1>8. WillWrite'
    <2>1. Kept /\ "begin" # "got"
      BY <1>2, Zenon DEF Kept
    <2> QED  BY <1>2, <1>3, <1>5, <2>1, WillWriteKept DEF SpaceInv
  <1>9. \A q \in Proc : Cardinality(todo'[q]) <= MaxWrites
    BY <1>5, Zenon DEF SpaceInv
  <1> QED  BY <1>7, <1>8, <1>9, Zenon DEF SpaceInv

\* bget() takes a buffer for a block that the call may write.
LEMMA GetSpace ==
  ASSUME LogInv, CountsOk, PairCounts, SpaceInv,
         NEW p \in Proc, NEW b \in Home, NEW next \in Label,
         pc[p] \in InCall <=> next \in InCall, next = "got" => b \in todo[p],
         Get(p, b, next)
  PROVE  panic' \/ SpaceInv'
  <1>1. UNCHANGED <<lh, outstanding, committing, boot, todo>> /\ panic' = NoBuffers(bc, b)
    BY Zenon DEF Get, logVars
  <1>2. CASE NoBuffers(bc, b)
    BY <1>1, <1>2, Zenon
  <1>3. CASE ~NoBuffers(bc, b)
    <2>1. bc' = bget(bc, b) /\ Goto(p, next) /\ cur' = [cur EXCEPT ![p] = Slot(bc', b)]
      BY <1>3, Zenon DEF Get
    <2>2. TypeOK /\ Sound(bc) /\ MaxExists
      BY Zenon DEF LogInv, CacheOk, CountsOk
    <2>3. b \in Disk
      BY Blocks, Zenon
    <2>4. PICK s \in Buf : Got(bc, bc', b, s)
      BY <1>3, <2>1, <2>2, <2>3, BgetGot
    <2>5. Kept /\ bc'.blockno[s] = b
      BY <2>2, <2>3, <2>4, GotKeeps DEF Kept
    <2>6. cur'[p] = s /\ \A q \in Proc \ {p} : cur'[q] = cur[q]
      <3>1. Slot(bc', b) = s
        BY <2>4, Zenon DEF Got
      <3> QED  BY <2>1, <2>2, <3>1, Zenon DEF TypeOK
    <2>7. Moved(p, next)
      BY <2>1, <2>2, GotoMoved, Zenon
    <2>8. Active' = Active
      BY <2>7, ActiveKept, Zenon
    <2>9. next = "got" => bc'.blockno[cur'[p]] \in todo'[p]
      BY <1>1, <2>5, <2>6, Zenon
    <2> QED  BY <1>1, <2>5, <2>6, <2>7, <2>8, <2>9, QuietSpace
  <1> QED  BY <1>2, <1>3, Zenon

\* bread() in a call.
LEMMA GetToWriteSpace ==
  ASSUME LogInv, CountsOk, PairCounts, SpaceInv,
         NEW p \in Proc, GetToWrite(p)
  PROVE  panic' \/ SpaceInv'
  <1>1. pc[p] = "op"
    BY Zenon DEF GetToWrite
  <1>2. PICK b \in todo[p] : Get(p, b, "got")
    BY Zenon DEF GetToWrite
  <1>3. b \in Home
    BY Zenon DEF LogInv, TypeOK
  <1> QED  BY <1>1, <1>2, <1>3, GetSpace, Zenon DEF Label, InCall

\* bread() outside one.
LEMMA GetToReadSpace ==
  ASSUME LogInv, CountsOk, PairCounts, SpaceInv,
         NEW p \in Proc, GetToRead(p)
  PROVE  panic' \/ SpaceInv'
  <1>1. pc[p] = "idle"
    BY Zenon DEF GetToRead
  <1>2. PICK b \in Home : Get(p, b, "reading")
    BY LogConstants, Zenon DEF GetToRead
  <1> QED  BY <1>1, <1>2, GetSpace, Zenon DEF Label, InCall

\* The read of the block into its buffer.
LEMMA ReadSpace ==
  ASSUME LogInv, CountsOk, PairCounts, SpaceInv,
         NEW p \in Proc, Read(p)
  PROVE  SpaceInv'
  <1>1. pc[p] = "reading" /\ bc' = acquire_read(bc, disk, cur[p], p)
    BY Zenon DEF Read
  <1>2. UNCHANGED <<lh, outstanding, committing, boot, todo, cur>>
    BY Zenon DEF Read, logVars, procVars
  <1>3. cur[p] \in Buf /\ bc.blockno[cur[p]] \in Disk
    BY <1>1, HeldBlock, Zenon DEF HoldsAt
  <1>4. TypeOK /\ CacheOk(bc, disk, Dirty) /\ disk \in [Disk -> Content]
    BY Zenon DEF LogInv, TypeOK
  <1>5. Moved(p, "done")
    BY <1>4, GotoMoved, Zenon DEF Read, Label
  <1>6. Active' = Active
    BY <1>1, <1>5, ActiveKept, Zenon DEF InCall
  <1>7. CacheOk(bc', disk, Dirty) /\ bc'.blockno = bc.blockno
    BY ReadAcquires, Zenon DEF Acquired
  <1>8. Kept /\ "done" # "got"
    BY <1>7, Zenon DEF Kept
  <1> QED  BY <1>2, <1>5, <1>6, <1>8, QuietSpace, Zenon

\* brelse().
LEMMA ReleaseSpace ==
  ASSUME LogInv, CountsOk, PairCounts, SpaceInv,
         NEW p \in Proc, Release(p)
  PROVE  SpaceInv'
  <1> DEFINE l == IF pc[p] = "release" THEN "op" ELSE "idle"
  <1>1. /\ pc[p] \in {"release", "done"} /\ bc' = brelse(bc, cur[p]) /\ Goto(p, l)
        /\ cur' = [cur EXCEPT ![p] = None]
    BY Zenon DEF Release
  <1>2. UNCHANGED <<lh, outstanding, committing, boot, todo>>
    BY Zenon DEF Release, logVars
  <1>3. pc[p] \in HoldsAt /\ l \in Label /\ (pc[p] \in InCall <=> l \in InCall) /\ l # "got"
    BY <1>1, Zenon DEF HoldsAt, Label, InCall
  <1> HIDE DEF l
  <1>4. cur[p] \in Buf /\ bc.refcnt[cur[p]] # 0
    BY <1>3, HeldBlock, Zenon
  <1>5. TypeOK /\ Sound(bc)
    BY Zenon DEF LogInv, CacheOk
  <1>6. Moved(p, l)
    BY <1>1, <1>3, <1>5, GotoMoved, Zenon
  <1>7. Active' = Active
    BY <1>3, <1>6, ActiveKept, Zenon
  <1>8. Alike(bc, bc')
    BY <1>1, <1>4, <1>5, RelseEffect, Zenon
  <1>9. Kept
    BY <1>8, Zenon DEF Kept, Alike
  <1>10. \A q \in Proc \ {p} : cur'[q] = cur[q]
    BY <1>1, <1>5, Zenon DEF TypeOK
  <1> QED  BY <1>2, <1>3, <1>6, <1>7, <1>9, <1>10, QuietSpace

\* end_op() gives back what the call did not write.
LEMMA EndSpace ==
  ASSUME LogInv, CountsOk, PairCounts, SpaceInv,
         NEW p \in Proc, end_op(p)
  PROVE  SpaceInv'
  <1>1. /\ pc[p] = "op" /\ todo[p] = {} /\ outstanding' = outstanding - 1
        /\ UNCHANGED <<bc, lh, todo, cur>>
    BY Zenon DEF end_op, procVars
  <1>2. p \in Active
    BY <1>1, Zenon DEF Active, InCall
  <1>3. PICK l \in {"idle", "committed", "write_log"} : Moved(p, l)
    BY EndCalls, Zenon
  <1>4. Active' = Active \ {p}
    BY <1>3, MovedCalls, Zenon DEF Active, InCall
  <1>5. Reserved' = Reserved
    <2>1. \A q : q \in Active /\ q # p <=> q \in Active'
      BY <1>4, Zenon
    <2>2. Pairs(Active', todo') = Pairs(Active, todo)
      BY <1>1, <2>1, Zenon DEF Pairs
    <2> QED  BY <1>1, <2>2, Zenon DEF Reserved, InLog
  <1>6. WillWrite'
    <2>1. Kept /\ l # "got"
      BY <1>1, <1>3, Zenon DEF Kept
    <2> QED  BY <1>1, <1>3, <2>1, WillWriteKept, Zenon DEF SpaceInv
  <1>7. outstanding \in Nat
    BY SpaceTypes, Zenon
  <1>8. Room'
    <2>1. outstanding' > 0 => outstanding > 0
      BY <1>1, <1>7
    <2> QED  BY <1>1, <1>5, <2>1, Zenon DEF SpaceInv, Room
  <1>9. Emptied'
    <2>1. outstanding' = 0 => outstanding = 1
      BY <1>1, <1>7
    <2>2. outstanding' = 0 => committing'
      BY <2>1, Zenon DEF end_op
    <2> QED  BY <2>2, Zenon DEF Emptied
  <1> QED  BY <1>1, <1>6, <1>8, <1>9, Zenon DEF SpaceInv

\* With no call open, nothing is to come.
LEMMA IdleSpace ==
  ASSUME LogInv', PairCounts, Active' = {},
         \A p \in Proc : Cardinality(todo'[p]) <= MaxWrites,
         boot' = "up" /\ ~committing' => lh' = <<>>
  PROVE  SpaceInv'
  <1>1. outstanding' = Cardinality(Active')
    BY Zenon DEF LogInv, CallsOk, Active
  <1>2. outstanding' = 0 /\ ~(0 > 0)
    BY <1>1 DEF PairCounts
  <1>3. Room' /\ Emptied'
    BY <1>2, Zenon DEF Room, Emptied
  <1>4. WillWrite'
    <2>1. "got" \in InCall
      BY Zenon DEF InCall
    <2> QED  BY <2>1, Zenon DEF WillWrite, Active
  <1> QED  BY <1>3, <1>4, Zenon DEF SpaceInv

\* A stage of the commit: no call is open, and the log is empty at its end.
LEMMA CommitSpace ==
  ASSUME LogInv, PairCounts, SpaceInv, LogInv', NEW p \in Proc, NEW l, Moved(p, l),
         pc[p] \in CommitAt, l \notin InCall, l \in CommitAt \/ lh' = <<>>, UNCHANGED todo
  PROVE  SpaceInv'
  <1>1. \A q \in Proc : pc[q] \notin InCall
    BY Zenon DEF LogInv, CallsOk
  <1>2. "begin" \notin InCall
    BY Zenon DEF InCall
  <1>3. Active' = {}
    BY <1>1, <1>2, Zenon DEF Active, Moved
  <1>4. l \in CommitAt => committing'
    BY Zenon DEF LogInv, CallsOk, Moved
  <1>5. boot' = "up" /\ ~committing' => lh' = <<>>
    BY <1>4, Zenon
  <1> QED  BY <1>3, <1>5, IdleSpace, Zenon DEF SpaceInv

\* A step of the recovery: nobody runs, and the log is empty at its end.
LEMMA BootSpace ==
  ASSUME LogInv, PairCounts, SpaceInv, LogInv', boot # "up", UNCHANGED <<pc, todo>>,
         boot' = "up" => lh' = <<>>
  PROVE  SpaceInv'
  <1>1. \A q \in Proc : pc[q] = "idle"
    BY Zenon DEF LogInv, CallsOk
  <1>2. "idle" \notin InCall
    BY Zenon DEF InCall
  <1>3. Active' = {}
    BY <1>1, <1>2, Zenon DEF Active
  <1> QED  BY <1>3, IdleSpace, Zenon DEF SpaceInv

\* After a crash nobody is in a call.
LEMMA CrashSpace ==
  ASSUME PairCounts, LogInv', Crash
  PROVE  SpaceInv'
  <1>1. lh' = <<>> /\ \A q \in Proc : pc'[q] = "idle" /\ todo'[q] = {}
    BY Zenon DEF Crash
  <1>2. "idle" \notin InCall
    BY Zenon DEF InCall
  <1>3. Active' = {}
    BY <1>1, <1>2, Zenon DEF Active
  <1>4. \A q \in Proc : Cardinality(todo'[q]) <= MaxWrites
    <2>1. 0 <= MaxWrites
      BY LogConstants
    <2> QED  BY <1>1, <2>1, Zenon DEF PairCounts
  <1> QED  BY <1>1, <1>3, <1>4, IdleSpace, Zenon

\* The log is empty and no call open when the machine starts.
LEMMA InitSpace ==
  ASSUME PairCounts, Init
  PROVE  SpaceInv
  <1>1. /\ \A q \in Proc : pc[q] = "idle" /\ todo[q] = {}
        /\ outstanding = 0 /\ lh = <<>>
    BY Zenon DEF Init
  <1>2. WillWrite /\ Emptied
    BY <1>1, Zenon DEF WillWrite, Emptied
  <1>3. ~(0 > 0) /\ 0 <= MaxWrites
    BY LogConstants
  <1>4. Cardinality({}) = 0
    BY Zenon DEF PairCounts
  <1> QED  BY <1>1, <1>2, <1>3, <1>4, Zenon DEF SpaceInv, Room

\* After a panic the kernel stands still.
SpaceOk == panic \/ SpaceInv

\* No step makes the log's account of its space wrong.
LEMMA NextSpace ==
  ASSUME CountsOk, PairCounts, Inv, Inv', SpaceOk, [Next]_vars
  PROVE  SpaceOk'
  <1>1. CASE UNCHANGED vars
    <2>1. UNCHANGED <<bc, lh, outstanding, committing, boot, pc, todo, cur, panic>>
      BY <1>1, Zenon DEF vars
    <2>2. Active' = Active
      BY <2>1, Zenon DEF Active
    <2>3. Reserved' = Reserved
      BY <2>1, <2>2, ReservedSame, Zenon
    <2> QED  BY <2>1, <2>3, Zenon DEF SpaceOk, SpaceInv, WillWrite, Room, Emptied
  <1>2. CASE Next
    <2>1. LogInv /\ SpaceInv
      BY <1>2, Zenon DEF Next, Inv, SpaceOk
    <2>2. SUFFICES ASSUME ~panic'
                   PROVE  SpaceInv'
      BY Zenon DEF SpaceOk
    <2>3. LogInv' /\ TypeOK
      BY <2>1, <2>2, Zenon DEF Inv, LogInv
    <2>4. ASSUME NEW p \in Proc, Step(p)
          PROVE  SpaceInv'
      <3>1. CASE begin_op(p)
        BY <2>1, <3>1, BeginSpace, Zenon
      <3>2. CASE GetToWrite(p)
        BY <2>1, <2>2, <3>2, GetToWriteSpace, Zenon
      <3>3. CASE Modify(p)
        BY <2>1, <3>3, ModifySpace
      <3>4. CASE Read(p)
        BY <2>1, <3>4, ReadSpace, Zenon
      <3>5. CASE Release(p)
        BY <2>1, <3>5, ReleaseSpace, Zenon
      <3>6. CASE end_op(p)
        BY <2>1, <3>6, EndSpace, Zenon
      <3>7. CASE write_log(p)
        <4>1. PICK l \in {"write_head", "write_log"} : Goto(p, l)
          BY <3>7, Zenon DEF write_log
        <4>2. /\ pc[p] \in CommitAt /\ l \notin InCall /\ l \in Label /\ l \in CommitAt
              /\ UNCHANGED todo
          BY <3>7, Zenon DEF write_log, CommitAt, InCall, Label
        <4>3. Moved(p, l)
          BY <2>3, <4>1, <4>2, GotoMoved, Zenon
        <4> QED  BY <2>1, <2>3, <4>2, <4>3, CommitSpace, Zenon
      <3>8. CASE WriteHead(p)
        <4>1. /\ pc[p] \in CommitAt /\ "install" \notin InCall /\ "install" \in Label
              /\ "install" \in CommitAt /\ UNCHANGED todo /\ Goto(p, "install")
          BY <3>8, Zenon DEF WriteHead, procVars, CommitAt, InCall, Label
        <4>2. Moved(p, "install")
          BY <2>3, <4>1, GotoMoved, Zenon
        <4> QED  BY <2>1, <2>3, <4>1, <4>2, CommitSpace, Zenon
      <3>9. CASE Install(p)
        <4>1. PICK l \in {"clear", "install"} : Goto(p, l)
          BY <3>9, Zenon DEF Install
        <4>2. /\ pc[p] \in CommitAt /\ l \notin InCall /\ l \in Label /\ l \in CommitAt
              /\ UNCHANGED todo
          BY <3>9, Zenon DEF Install, CommitAt, InCall, Label
        <4>3. Moved(p, l)
          BY <2>3, <4>1, <4>2, GotoMoved, Zenon
        <4> QED  BY <2>1, <2>3, <4>2, <4>3, CommitSpace, Zenon
      <3>10. CASE ClearHead(p)
        <4>1. /\ pc[p] \in CommitAt /\ "committed" \notin InCall /\ "committed" \in Label
              /\ lh' = <<>> /\ UNCHANGED todo /\ Goto(p, "committed")
          BY <3>10, Zenon DEF ClearHead, procVars, CommitAt, InCall, Label
        <4>2. Moved(p, "committed")
          BY <2>3, <4>1, GotoMoved, Zenon
        <4> QED  BY <2>1, <2>3, <4>1, <4>2, CommitSpace, Zenon
      <3>11. CASE Committed(p)
        <4>1. /\ pc[p] = "committed" /\ pc[p] \in CommitAt /\ "idle" \notin InCall
              /\ "idle" \in Label /\ UNCHANGED <<lh, todo>> /\ WakeLog(p, "idle")
          BY <3>11, Zenon DEF Committed, procVars, CommitAt, InCall, Label
        <4>2. Moved(p, "idle")
          BY <2>3, <4>1, WakeMoved, Zenon
        <4>3. lh' = <<>>
          <5>1. boot = "up" /\ RunOk
            BY <2>1, <4>1, Running, Zenon DEF LogInv
          <5> QED  BY <4>1, <5>1, Zenon DEF RunOk, At
        <4> QED  BY <2>1, <2>3, <4>1, <4>2, <4>3, CommitSpace, Zenon
      <3>12. CASE GetLogBlock(p)
        <4>1. /\ pc[p] \in CommitAt /\ pc[p] \notin InCall /\ UNCHANGED <<pc, todo>>
          BY <3>12, Zenon DEF GetLogBlock, CommitAt, InCall
        <4>2. Moved(p, pc[p])
          BY <2>3, <4>1, Zenon DEF Moved, TypeOK
        <4> QED  BY <2>1, <2>3, <4>1, <4>2, CommitSpace, Zenon
      <3> QED  BY <2>4, <3>1, <3>2, <3>3, <3>4, <3>5, <3>6, <3>7, <3>8, <3>9, <3>10, <3>11,
                  <3>12, Zenon DEF Step
    <2>5. ASSUME NEW p \in Proc, GetToRead(p)
          PROVE  SpaceInv'
      BY <2>1, <2>2, <2>5, GetToReadSpace, Zenon
    <2>6. ASSUME NEW p \in Proc, NEW bs \in SUBSET Home,
                 Cardinality(bs) <= MaxWrites, Call(p, bs)
          PROVE  SpaceInv'
      BY <2>1, <2>6, CallSpace, Zenon
    <2>7. CASE Crash
      BY <2>3, <2>7, CrashSpace, Zenon
    <2>8. CASE Recover
      <3>1. /\ boot # "up" /\ UNCHANGED <<pc, todo>>
            /\ boot' = "up" => lh' = <<>>
        BY <2>8, Zenon DEF Recover, read_head, RecoverInstall, RecoverClear, procVars
      <3> QED  BY <2>1, <2>3, <3>1, BootSpace, Zenon
    <2> QED  BY <1>2, <2>4, <2>5, <2>6, <2>7, <2>8, Zenon DEF Next
  <1> QED  BY <1>1, <1>2, Zenon

-----------------------------------------------------------------------------
(***************************************************************************)
(* Counting.  The theorems about finite sets and about the naturals are    *)
(* brought in here, for what the lemmas above assume (CountsOk).           *)
(***************************************************************************)
INSTANCE FiniteSetTheorems
INSTANCE WellFoundedInduction

\* A set of buffers has a greatest one: bget()'s scan from the tail ends.
LEMMA BuffersMax == MaxExists
  <1>1. SUFFICES ASSUME NEW S \in SUBSET Buf, S # {}
                 PROVE  \E k \in S : \A j \in S : j <= k
    BY Zenon DEF MaxExists
  <1> DEFINE T == {NBUF - k : k \in S}
  <1>2. NBUF \in Nat /\ \A k \in S : k \in Nat /\ NBUF - k \in Nat
    BY LogConstants DEF Buf
  <1>3. T \subseteq Nat /\ T # {}
    BY <1>1, <1>2, Zenon
  <1>4. PICK x \in T : \A y \in T : ~(<<y, x>> \in OpToRel(<, Nat))
    <2> HIDE DEF T
    <2> QED  BY <1>3, NatLessThanWellFounded, WFMin, Zenon
  <1>5. \A y \in T : ~(y < x)
    BY <1>3, <1>4, Zenon DEF OpToRel
  <1>6. PICK k \in S : x = NBUF - k
    BY <1>4, Zenon
  <1>7. ASSUME NEW j \in S
        PROVE  j <= k
    <2>1. ~(NBUF - j < NBUF - k)
      BY <1>5, <1>6, Zenon
    <2> QED  BY <1>2, <2>1
  <1> QED  BY <1>7, Zenon

\* Sets of processes are counted.
LEMMA CountsHold == CountsOk
  <1>1. Cardinality({}) = 0
    BY FS_EmptySet, Zenon
  <1>2. \A S \in SUBSET Proc : IsFiniteSet(S)
    BY FS_Subset, LogConstants, Zenon
  <1>3. \A S \in SUBSET Proc : Cardinality(S) \in Nat
    BY <1>2, FS_CardinalityType, Zenon
  <1>4. ASSUME NEW S \in SUBSET Proc, NEW p \in Proc \ S
        PROVE  Cardinality(S \cup {p}) = Cardinality(S) + 1
    BY <1>2, <1>4, FS_AddElement, Zenon
  <1> QED  BY <1>1, <1>3, <1>4, BuffersMax, Zenon DEF CountsOk

\* The calls of A have at most MaxWrites blocks each to write.
LEMMA PairsBound ==
  ASSUME NEW A \in SUBSET Proc, NEW t \in [Proc -> SUBSET Home],
         \A p \in Proc : IsFiniteSet(t[p]) /\ Cardinality(t[p]) <= MaxWrites
  PROVE  Cardinality(Pairs(A, t)) <= Cardinality(A) * MaxWrites
  <1> DEFINE n == [p \in Proc |-> Cardinality(t[p])]
             e == [p \in Proc |-> CHOOSE f : f \in Surjection(1 .. n[p], t[p])]
             P == A \X (1 .. MaxWrites)
             D == {y \in P : y[2] \in 1 .. n[y[1]]}
             g == [y \in D |-> <<y[1], e[y[1]][y[2]]>>]
  <1>1. ASSUME NEW p \in Proc
        PROVE  /\ n[p] \in Nat /\ n[p] <= MaxWrites
               /\ \A k \in 1 .. n[p] : e[p][k] \in t[p]
               /\ \A h \in t[p] : \E k \in 1 .. n[p] : e[p][k] = h
    <2>1. n[p] = Cardinality(t[p]) /\ n[p] \in Nat /\ ExistsBijection(1 .. n[p], t[p])
      BY FS_CardinalityType, Zenon
    <2>2. \E f : f \in Surjection(1 .. n[p], t[p])
      BY <2>1, Zenon DEF ExistsBijection, Bijection
    <2>3. e[p] \in Surjection(1 .. n[p], t[p])
      <3>1. e[p] = CHOOSE f : f \in Surjection(1 .. n[p], t[p])
        BY Zenon
      <3> HIDE DEF e, n
      <3> QED  BY <2>2, <3>1, Zenon
    <2> HIDE DEF e, n
    <2> QED  BY <2>1, <2>3, Zenon DEF Surjection
  <1>2. IsFiniteSet(A) /\ IsFiniteSet(1 .. MaxWrites) /\ Cardinality(1 .. MaxWrites) = MaxWrites
    <2>1. IsFiniteSet(A)
      BY FS_Subset, LogConstants, Zenon
    <2>2. /\ IsFiniteSet(1 .. MaxWrites)
          /\ Cardinality(1 .. MaxWrites) = IF 1 > MaxWrites THEN 0 ELSE MaxWrites - 1 + 1
      BY FS_Interval, LogConstants
    <2> QED  BY <2>1, <2>2, LogConstants
  <1>3. IsFiniteSet(P) /\ Cardinality(P) = Cardinality(A) * MaxWrites
    BY <1>2, FS_Product, Zenon
  <1>4. IsFiniteSet(D) /\ Cardinality(D) <= Cardinality(P) /\ Cardinality(D) \in Nat
    <2>1. D \in SUBSET P
      BY Zenon
    <2>2. IsFiniteSet(D) /\ Cardinality(D) <= Cardinality(P)
      <3> HIDE DEF D, P
      <3> QED  BY <1>3, <2>1, FS_Subset, Zenon
    <2> QED  BY <2>2, FS_CardinalityType, Zenon
  <1> HIDE DEF n, e
  <1>5. g \in Surjection(D, Pairs(A, t))
    <2>1. ASSUME NEW y \in D
          PROVE  g[y] \in Pairs(A, t)
      <3>1. y[1] \in A /\ y[1] \in Proc /\ y[2] \in 1 .. n[y[1]]
        OBVIOUS
      <3>2. e[y[1]][y[2]] \in t[y[1]] /\ t[y[1]] \in SUBSET Home
        BY <1>1, <3>1, Zenon
      <3>3. g[y] = <<y[1], e[y[1]][y[2]]>>
        BY Zenon
      <3> HIDE DEF g, D
      <3> QED  BY <3>1, <3>2, <3>3 DEF Pairs
    <2>2. ASSUME NEW x \in Pairs(A, t)
          PROVE  \E y \in D : g[y] = x
      <3>1. x \in Proc \X Home /\ x[1] \in A /\ x[2] \in t[x[1]] /\ x[1] \in Proc
        BY Zenon DEF Pairs
      <3>2. PICK k \in 1 .. n[x[1]] : e[x[1]][k] = x[2]
        BY <1>1, <3>1, Zenon
      <3>3. n[x[1]] \in Nat /\ n[x[1]] <= MaxWrites
        BY <1>1, <3>1, Zenon
      <3>4. k \in 1 .. MaxWrites
        BY <3>2, <3>3, LogConstants
      <3> DEFINE y == <<x[1], k>>
      <3>5. y \in P /\ y[1] = x[1] /\ y[2] = k
        BY <3>1, <3>4, Zenon
      <3>6. x = <<x[1], x[2]>>
        BY <3>1
      <3> HIDE DEF y, P
      <3>7. y \in D
        BY <3>2, <3>5, Zenon
      <3>8. g[y] = <<x[1], x[2]>>
        BY <3>2, <3>5, <3>7, Zenon
      <3> QED  BY <3>6, <3>7, <3>8, Zenon
    <2>3. g \in [D -> Pairs(A, t)]
      <3> HIDE DEF D
      <3>1. \A y \in D : <<y[1], e[y[1]][y[2]]>> \in Pairs(A, t)
        BY <2>1, Zenon
      <3> QED  BY <3>1, Zenon
    <2> HIDE DEF g, D
    <2> QED  BY <2>2, <2>3, Zenon DEF Surjection
  <1>6. Cardinality(Pairs(A, t)) <= Cardinality(D) /\ Cardinality(Pairs(A, t)) \in Nat
    <2> HIDE DEF g, D
    <2>1. IsFiniteSet(Pairs(A, t)) /\ Cardinality(Pairs(A, t)) <= Cardinality(D)
      BY <1>4, <1>5, FS_Surjection, Zenon
    <2> QED  BY <2>1, FS_CardinalityType, Zenon
  <1>7. Cardinality(A) * MaxWrites \in Nat
    BY <1>2, FS_CardinalityType, LogConstants
  <1> HIDE DEF P, D
  <1> QED  BY <1>3, <1>4, <1>6, <1>7

\* Sets of blocks, and of calls and blocks, are counted.
LEMMA PairCountsHold == PairCounts
  <1>1. IsFiniteSet(Home) /\ IsFiniteSet(Proc \X Home)
    <2>1. IsFiniteSet(Home)
      BY FS_Interval, LogConstants DEF Home
    <2> QED  BY <2>1, FS_Product, LogConstants, Zenon
  <1>2. \A S \in SUBSET (Proc \X Home) : IsFiniteSet(S) /\ Cardinality(S) \in Nat
    BY <1>1, FS_Subset, FS_CardinalityType, Zenon
  <1>3. \A S \in SUBSET Home : IsFiniteSet(S) /\ Cardinality(S) \in Nat
    BY <1>1, FS_Subset, FS_CardinalityType, Zenon
  <1>4. ASSUME NEW A \in SUBSET Proc, NEW t \in [Proc -> SUBSET Home],
               \A p \in Proc : Cardinality(t[p]) <= MaxWrites
        PROVE  Cardinality(Pairs(A, t)) <= Cardinality(A) * MaxWrites
    <2>1. \A p \in Proc : t[p] \in SUBSET Home
      BY Zenon
    <2> QED  BY <1>3, <1>4, <2>1, PairsBound, Zenon
  <1>8. ASSUME NEW S \in SUBSET (Proc \X Home), NEW T \in SUBSET S
        PROVE  Cardinality(T) <= Cardinality(S)
    BY <1>2, FS_Subset, Zenon
  <1>5. ASSUME NEW S \in SUBSET (Proc \X Home), NEW x \in S
        PROVE  Cardinality(S) = Cardinality(S \ {x}) + 1
    <2>1. Cardinality(S \ {x}) = Cardinality(S) - 1
      BY <1>2, FS_RemoveElement, Zenon
    <2>2. S \ {x} \in SUBSET (Proc \X Home)
      BY Zenon
    <2>3. Cardinality(S) \in Nat /\ Cardinality(S \ {x}) \in Nat
      BY <1>2, <2>2, Zenon
    <2> QED  BY <2>1, <2>3
  <1>6. ASSUME NEW S \in SUBSET Home, NEW b \in Home
        PROVE  /\ Cardinality(S) \in Nat /\ Cardinality(S \ {b}) \in Nat
               /\ Cardinality(S \ {b}) <= Cardinality(S)
    <2>1. S \ {b} \in SUBSET Home /\ S \ {b} \in SUBSET S
      BY Zenon
    <2> QED  BY <1>3, <2>1, FS_Subset, Zenon
  <1>7. Cardinality({}) = 0
    BY FS_EmptySet, Zenon
  <1> QED  BY <1>2, <1>4, <1>5, <1>6, <1>7, <1>8, Zenon DEF PairCounts

-----------------------------------------------------------------------------
\* At every stage of commit() and of recovery the copies of a block agree as
\* log.c means them to, log.outstanding counts the open calls, only one
\* process commits, and a buffer's refcnt counts its users and its pin.
THEOREM LogInvAlways == Spec => []Inv
  <1>1. Init => Inv
    BY InitInv, CountsHold DEF Inv
  <1>2. Inv /\ [Next]_vars => Inv'
    BY NextInv, CountsHold
  <1> QED  BY <1>1, <1>2, PTL DEF Spec

\* Calls are atomic, and a crash at any moment, one during recovery included,
\* leaves the blocks of complete calls.
THEOREM AtomicDiskImplemented == Spec => ImplementsAtomicDisk
  <1>1. Init => Atomic!Init
    BY InitMaps
  <1>2. Inv /\ [Next]_vars => [Atomic!Next]_(Atomic!vars)
    BY NextMaps, CountsHold, Zenon
  <1> QED  BY <1>1, <1>2, LogInvAlways, PTL DEF Spec, ImplementsAtomicDisk, Atomic!Spec

\* log.c's own panics never happen when calls write less than they reserve,
\* as filewrite() sees to (WritesFit): log_write() finds room in the log and
\* its call open, a repeated one too, and end_op() finds no commit running.
THEOREM LogNeverPanics ==
  Spec => [][\A p \in Proc : Modify(p) \/ end_op(p) => ~panic']_vars
  <1>1. Init => SpaceOk
    BY InitSpace, PairCountsHold DEF SpaceOk
  <1>2. Inv /\ Inv' /\ SpaceOk /\ [Next]_vars => SpaceOk'
    BY NextSpace, CountsHold, PairCountsHold
  <1>3. Inv /\ SpaceOk /\ [Next]_vars
        => [\A p \in Proc : Modify(p) \/ end_op(p) => ~panic']_vars
    <2>1. SUFFICES ASSUME Inv, SpaceOk, Next, NEW p \in Proc, Modify(p) \/ end_op(p)
                   PROVE  ~panic'
      BY Zenon
    <2>2. LogInv /\ SpaceInv
      BY <2>1, Zenon DEF Next, Inv, SpaceOk
    <2>3. CASE Modify(p)
      BY <2>2, <2>3, ModifySpace, CountsHold, PairCountsHold
    <2>4. CASE end_op(p)
      BY <2>2, <2>4, EndCalls, CountsHold
    <2> QED  BY <2>1, <2>3, <2>4, Zenon
  <1> QED  BY <1>1, <1>2, <1>3, LogInvAlways, PTL DEF Spec
=============================================================================
