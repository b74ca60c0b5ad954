---------------------------- MODULE VirtioBlkProofs ----------------------------
(***************************************************************************)
(* Proofs about VirtioBlk for any number of processes and of CPUs that     *)
(* notify, rings of any size, indices that wrap anywhere and a disk of any *)
(* size.  DiskInv is inductive: the descriptors of a request in flight are *)
(* its own, and the rings hold, from used_idx to avail->idx, heads of      *)
(* requests in flight, each once, the completed ones first.                *)
(***************************************************************************)
EXTENDS VirtioBlk, TLAPS

\* Between Format and the return of virtio_disk_rw.
LiveAt == {"publish", "notify", "loop", "put_used", "bump_used", "advance",
           "signal", "await", "buf_sleep", "reacquire"}

\* With vdisk_lock held, with virtq_lock held.
DiskHeldAt == {"alloc", "publish", "notify", "loop", "put_used", "bump_used", "advance",
               "signal", "await"}
QueueHeldAt == {"loop", "put_used", "bump_used", "advance"}

\* The request of p is in flight.
Live(p) == pc[p] \in LiveAt

\* The locks are held by who is between acquire and release.
LocksOk ==
    /\ \A p \in Proc : pc[p] \in DiskHeldAt <=> vdisk_lock = p
    /\ ipc = "scan" <=> vdisk_lock = "intr"
    /\ \A a \in Actor : pc[a] \in QueueHeldAt <=> virtq_lock = a

\* The request of p has descriptors i, j and k.
Built(p, i, j, k) ==
    /\ head[p] = i
    /\ desc[i] = [addr |-> <<"op", i>>, more |-> TRUE, next |-> j]
    /\ desc[j] = [addr |-> <<"buf", p>>, more |-> TRUE, next |-> k]
    /\ desc[k] = [addr |-> <<"status", i>>, more |-> FALSE, next |-> 0]
    /\ ops[i] = [write |-> req[p].write, sector |-> SectorOf(req[p].block)]
    /\ info[i].b = p

\* Every request in flight has three descriptors, none of them free.
ChainsOk == \A p \in Proc : Live(p) => \E i, j, k \in Idx \ free : Built(p, i, j, k)

\* A request that is about to be published is unserved and at avail->idx, and
\* one that virtio_disk_intr has marked done has status 0.
StatusOk ==
    \A p \in Proc : Live(p) =>
        /\ pc[p] = "publish" =>
              /\ busy[p] /\ info[head[p]].status = Unserved
              /\ avail.ring[avail.idx % NUM] = head[p]
        /\ ~busy[p] => info[head[p]].status = 0

\* The n-th position after the last completion the driver consumed, and the
\* head the driver put there.
Pos(n) == (used_idx + n) % IdxMod
HeadAt(n) == avail.ring[Pos(n) % NUM]

\* Some actor is at l; virtio_mmio_notify has served a request that it has
\* not counted yet.
At(l) == \E a \in Actor : pc[a] = l
Served == At("put_used") \/ At("bump_used")

\* o requests are published and not consumed, u of them are complete.
Window(o, u) ==
    /\ avail.idx = Pos(o) /\ used.idx = Pos(u)
    /\ \A n \in 0 .. o - 1 :
          \E p \in Proc : Live(p) /\ pc[p] # "publish" /\ busy[p] /\ head[p] = HeadAt(n)
    /\ \A m, n \in 0 .. o - 1 : HeadAt(m) = HeadAt(n) => m = n
    /\ \A n \in 0 .. u - 1 : info[HeadAt(n)].status = 0 /\ used.ring[Pos(n) % NUM] = HeadAt(n)
    /\ \A n \in u + 1 .. o - 1 : info[HeadAt(n)].status = Unserved
    /\ u < o => info[HeadAt(u)].status = IF Served THEN 0 ELSE Unserved
    /\ Served => u < o /\ cur = HeadAt(u)
    /\ At("bump_used") => used.ring[Pos(u) % NUM] = cur

\* The rings, and the hypervisor's copy of the index.
QueueOk ==
    /\ \E o \in 0 .. IdxMod - 1 : \E u \in 0 .. o : Window(o, u)
    /\ used.idx = IF At("advance") THEN Inc16(avail_idx) ELSE avail_idx

\* virtio_disk_intr runs while its interrupt is active.
IrqOk == ipc # "none" <=> irq.lr = "active"

\* The inductive invariant.
DiskInv == TypeOK /\ LocksOk /\ ChainsOk /\ StatusOk /\ QueueOk /\ IrqOk

\* The ring never runs out: no more requests are outstanding than there are
\* descriptors, fewer when some head none of them.
RingHasRoom ==
    \A o \in 0 .. IdxMod - 1 : \A u \in 0 .. o : Window(o, u) =>
        /\ o <= NUM
        /\ \A i, j \in Idx : (\A n \in 0 .. o - 1 : HeadAt(n) \notin {i, j}) =>
               o < NUM /\ (i # j => o + 1 < NUM)
-----------------------------------------------------------------------------
(* Arithmetic of the indices                                               *)

\* Division with remainder.
LEMMA DivMod ==
  ASSUME NEW f \in Nat \ {0}, NEW q \in Nat, NEW r \in 0 .. f - 1
  PROVE  q * f + r \in Nat /\ (q * f + r) \div f = q /\ (q * f + r) % f = r
  OBVIOUS

\* A number is known by its quotient and its remainder.
LEMMA SameDivMod ==
  ASSUME NEW x \in Nat, NEW y \in Nat, NEW f \in Nat \ {0},
         x % f = y % f, x \div f = y \div f
  PROVE  x = y
  OBVIOUS

\* Every number is a quotient and a remainder.
LEMMA Divide ==
  ASSUME NEW f \in Nat \ {0}, NEW n \in Nat
  PROVE  \E q \in Nat, r \in 0 .. f - 1 : n = q * f + r
  <1>1. PICK q \in Nat, r \in 0 .. f - 1 : q = n \div f /\ r = n % f
    OBVIOUS
  <1>2. PICK m \in Nat : m = q * f + r
    BY DivMod, Zenon
  <1>3. m \div f = n \div f /\ m % f = n % f
    BY <1>1, <1>2, DivMod, Zenon
  <1>4. m = n
    <2>1. \A a, b \in Nat : a % f = b % f /\ a \div f = b \div f => a = b
      BY SameDivMod, Zenon
    <2> QED BY <1>3, <2>1, Zenon
  <1> QED BY <1>2, <1>4, Zenon

\* An index wraps once at most.
LEMMA Wrap ==
  ASSUME NEW f \in Nat \ {0}, NEW x \in Nat, x < f + f
  PROVE  x % f = (IF x < f THEN x ELSE x - f) /\ x % f \in 0 .. f - 1
  OBVIOUS

\* Two numbers less than f apart have different remainders.
LEMMA ModApart ==
  ASSUME NEW f \in Nat \ {0}, NEW x \in Nat, NEW d \in 1 .. f - 1
  PROVE  x % f # (x + d) % f
  <1>1. PICK q \in Nat, r \in 0 .. f - 1 : x = q * f + r
    BY Divide, Zenon
  <1>2. x % f = r
    BY <1>1, DivMod, Zenon
  <1>3. \A c \in Nat, t \in 0 .. f - 1 : (c * f + t) % f = t
    BY DivMod, Zenon
  <1>4. CASE r + d < f
    <2>1. PICK t \in 0 .. f - 1 : t = r + d
      BY <1>4
    <2>2. x + d = q * f + t
      BY <1>1, <2>1
    <2>3. (x + d) % f = t
      BY <1>3, <2>2, Zenon
    <2> QED BY <1>2, <2>1, <2>3
  <1>5. CASE r + d >= f
    <2>1. PICK t \in 0 .. f - 1, c \in Nat : t = r + d - f /\ c = q + 1
      BY <1>5
    <2>2. x + d = c * f + t
      BY <1>1, <2>1
    <2>3. (x + d) % f = t
      BY <1>3, <2>2, Zenon
    <2> QED BY <1>2, <2>1, <2>3
  <1> QED BY <1>4, <1>5

\* The indices wrap at a multiple of the size of the ring.
LEMMA ModOfWrap ==
  ASSUME NEW f \in Nat \ {0}, NEW g \in Nat \ {0}, g % f = 0, NEW x \in Nat, x < g + g
  PROVE  (x % g) % f = x % f
  <1>1. CASE x < g
    BY <1>1, Wrap, Zenon
  <1>2. CASE x >= g
    <2>1. PICK y \in Nat : y = x - g /\ x % g = y
      BY <1>2, Wrap
    <2>2. PICK c \in Nat : g = c * f
      <3>1. PICK q \in Nat, r \in 0 .. f - 1 : g = q * f + r
        BY Divide, Zenon
      <3>2. r = 0
        BY <3>1, DivMod
      <3> QED BY <3>1, <3>2
    <2>3. PICK q \in Nat, r \in 0 .. f - 1 : y = q * f + r
      BY Divide, Zenon
    <2>4. x = (q + c) * f + r /\ q + c \in Nat
      BY <2>1, <2>2, <2>3
    <2>5. x % f = r /\ y % f = r
      BY <2>3, <2>4, DivMod
    <2> QED BY <2>1, <2>5, Zenon
  <1> QED BY <1>1, <1>2

\* The ring is no larger than the range of its indices.
LEMMA RingFacts ==
  ASSUME TypeOK
  PROVE  /\ NUM \in Nat \ {0} /\ NUM >= 3 /\ IdxMod \in Nat \ {0} /\ IdxMod % NUM = 0
         /\ NUM <= IdxMod /\ Idx \subseteq Nat /\ used_idx \in Nat /\ used_idx < IdxMod
  <1>1. NUM \in Nat /\ NUM >= 3 /\ IdxMod % NUM = 0 /\ IdxMod \in Nat /\ IdxMod > 0
    BY RingAssumption, Zenon DEF TypeOK
  <1>2. PICK c \in Nat, r \in 0 .. NUM - 1 : IdxMod = c * NUM + r
    BY <1>1, Divide
  <1>3. r = 0
    BY <1>1, <1>2, DivMod
  <1>4. c # 0
    BY <1>1, <1>2, <1>3
  <1>5. NUM <= c * NUM
    BY <1>1, <1>4
  <1> QED BY <1>1, <1>2, <1>3, <1>5 DEF TypeOK, Idx

\* Every index has a slot.
LEMMA SlotOf ==
  ASSUME TypeOK
  PROVE  /\ \A x \in Nat : x % NUM \in Idx
         /\ avail.idx \in 0 .. IdxMod - 1 /\ used.idx \in 0 .. IdxMod - 1
         /\ avail.idx \in Nat /\ used.idx \in Nat
  <1>1. NUM \in Nat \ {0} /\ IdxMod \in Nat
    BY RingFacts, Zenon
  <1>2. \A x \in Nat : x % NUM \in 0 .. NUM - 1
    BY <1>1
  <1>3. avail.idx \in 0 .. IdxMod - 1 /\ used.idx \in 0 .. IdxMod - 1
    BY Zenon DEF TypeOK, Ring
  <1> QED BY <1>1, <1>2, <1>3 DEF Idx

\* The same of the indices of the rings, for every number at once.
LEMMA IdxWrap ==
  ASSUME TypeOK
  PROVE  \A x \in Nat : x < IdxMod + IdxMod =>
            x % IdxMod = IF x < IdxMod THEN x ELSE x - IdxMod
  BY RingFacts, Wrap, Zenon

\* A position is an index, and n positions after used_idx is n steps away.
LEMMA PosFacts ==
  ASSUME TypeOK, NEW n \in 0 .. IdxMod - 1
  PROVE  /\ Pos(n) \in 0 .. IdxMod - 1 /\ Pos(n) % NUM \in Idx
         /\ Pos(n) % NUM = (used_idx + n) % NUM
         /\ n = 0 => Pos(n) = used_idx
         /\ (Pos(n) - used_idx + IdxMod) % IdxMod = n
  <1>1. /\ NUM \in Nat \ {0} /\ IdxMod \in Nat \ {0} /\ IdxMod % NUM = 0
        /\ used_idx \in Nat /\ used_idx < IdxMod
    BY RingFacts, Zenon
  <1>2. PICK x \in Nat : x = used_idx + n /\ x < IdxMod + IdxMod
    BY <1>1
  <1>3. Pos(n) = x % IdxMod
    BY <1>2, Zenon DEF Pos
  <1>4. x % IdxMod = (IF x < IdxMod THEN x ELSE x - IdxMod) /\ x % IdxMod \in 0 .. IdxMod - 1
    BY <1>1, <1>2, Wrap, Zenon
  <1>5. (x % IdxMod) % NUM = x % NUM /\ x % NUM \in 0 .. NUM - 1
    <2>1. x % NUM \in 0 .. NUM - 1
      BY <1>1, <1>2
    <2>2. (x % IdxMod) % NUM = x % NUM
      BY <1>1, <1>2, ModOfWrap, Zenon
    <2> QED BY <2>1, <2>2, Zenon
  <1>6. n = 0 => Pos(n) = used_idx
    BY <1>1, <1>2, <1>3, <1>4
  <1>7. (Pos(n) - used_idx + IdxMod) % IdxMod = n
    <2>1. PICK y \in Nat : /\ y = Pos(n) - used_idx + IdxMod /\ y < IdxMod + IdxMod
                           /\ n = (IF y < IdxMod THEN y ELSE y - IdxMod)
      BY <1>1, <1>2, <1>3, <1>4
    <2> QED BY <1>1, <2>1, Wrap, Zenon
  <1> QED BY <1>2, <1>3, <1>4, <1>5, <1>6, <1>7, Zenon DEF Idx

\* Positions less than a ring apart have slots of their own.
LEMMA SlotApart ==
  ASSUME TypeOK, NEW m \in 0 .. IdxMod - 1, NEW n \in 0 .. IdxMod - 1, m < n, n - m < NUM
  PROVE  Pos(m) % NUM # Pos(n) % NUM
  <1>1. NUM \in Nat \ {0} /\ used_idx \in Nat
    BY RingFacts, Zenon
  <1>2. PICK x \in Nat, d \in 1 .. NUM - 1 : x = used_idx + m /\ d = n - m /\ used_idx + n = x + d
    BY <1>1
  <1>3. x % NUM # (x + d) % NUM
    BY <1>1, ModApart, Zenon
  <1> QED BY <1>2, <1>3, PosFacts, Zenon

\* idx++ goes to the next position.
LEMMA PosInc ==
  ASSUME TypeOK, NEW n \in 0 .. IdxMod - 2
  PROVE  Inc16(Pos(n)) = Pos(n + 1)
  <1>1. IdxMod \in Nat \ {0} /\ used_idx \in Nat /\ used_idx < IdxMod
    BY RingFacts, Zenon
  <1>2. PICK x \in Nat : x = used_idx + n /\ x < IdxMod + IdxMod /\ x + 1 < IdxMod + IdxMod
    BY <1>1
  <1>3. PICK y \in Nat : y = (IF x < IdxMod THEN x ELSE x - IdxMod) /\ y + 1 < IdxMod + IdxMod
    BY <1>1, <1>2
  <1>x. y = x % IdxMod
    BY <1>2, <1>3, IdxWrap, Zenon
  <1>4. PICK z, w \in Nat : z = x + 1 /\ w = y + 1
    BY <1>2, <1>3
  <1>5. /\ z % IdxMod = IF z < IdxMod THEN z ELSE z - IdxMod
        /\ w % IdxMod = IF w < IdxMod THEN w ELSE w - IdxMod
    BY <1>2, <1>3, <1>4, IdxWrap, Zenon
  <1>6. used_idx + (n + 1) = x + 1
    BY <1>1, <1>2
  <1>7. w % IdxMod = z % IdxMod
    BY <1>1, <1>2, <1>3, <1>4, <1>5
  <1> QED BY <1>2, <1>x, <1>4, <1>6, <1>7, Zenon DEF Pos, Inc16

\* After virtio_disk_intr has consumed a completion.
LEMMA PosShift ==
  ASSUME TypeOK, used_idx' = Inc16(used_idx), NEW n \in 0 .. IdxMod - 2
  PROVE  Pos(n)' = Pos(n + 1)
  <1>1. IdxMod \in Nat \ {0} /\ used_idx \in Nat /\ used_idx < IdxMod
    BY RingFacts, Zenon
  <1>2. PICK x \in Nat : x = used_idx + (n + 1) /\ x < IdxMod + IdxMod
    BY <1>1
  <1>3. PICK y \in Nat : y = used_idx' /\ y = (IF used_idx + 1 < IdxMod THEN used_idx + 1 ELSE 0)
    <2>1. PICK z \in Nat : z = used_idx + 1 /\ z < IdxMod + IdxMod
      BY <1>1
    <2>2. z % IdxMod = IF z < IdxMod THEN z ELSE z - IdxMod
      BY <2>1, IdxWrap, Zenon
    <2> QED BY <1>1, <2>1, <2>2 DEF Inc16
  <1>4. PICK w \in Nat : w = y + n /\ w < IdxMod + IdxMod
    BY <1>1, <1>3
  <1>5. /\ x % IdxMod = IF x < IdxMod THEN x ELSE x - IdxMod
        /\ w % IdxMod = IF w < IdxMod THEN w ELSE w - IdxMod
    BY <1>2, <1>4, IdxWrap, Zenon
  <1>6. w % IdxMod = x % IdxMod
    BY <1>1, <1>2, <1>3, <1>4, <1>5
  <1> QED BY <1>2, <1>3, <1>4, <1>6, Zenon DEF Pos

\* The descriptors of a request are distinct, and it has no other chain.
LEMMA ChainOf ==
  ASSUME NEW p, NEW i, NEW j, NEW k, Built(p, i, j, k)
  PROVE  /\ i # j /\ i # k /\ j # k
         /\ Chain(head[p]) = {i, j, k}
  <1>1. /\ desc[i].addr = <<"op", i>> /\ desc[j].addr = <<"buf", p>>
        /\ desc[k].addr = <<"status", i>>
        /\ desc[i].more = TRUE /\ desc[j].more = TRUE /\ desc[i].next = j /\ desc[j].next = k
        /\ head[p] = i
    BY DEF Built
  <1>2. i # j /\ i # k /\ j # k
    BY <1>1
  <1>3. Chain(i) = {i, j, k}
    BY <1>1, Zenon DEF Chain
  <1> QED BY <1>1, <1>2, <1>3, Zenon

\* Requests of two processes share no descriptor.
LEMMA ChainsApart ==
  ASSUME NEW p, NEW i, NEW j, NEW k, Built(p, i, j, k),
         NEW q, NEW l, NEW m, NEW n, Built(q, l, m, n), p # q
  PROVE  {i, j, k} \cap {l, m, n} = {}
  <1>1. /\ desc[i].addr = <<"op", i>> /\ desc[j].addr = <<"buf", p>>
        /\ desc[k].addr = <<"status", i>> /\ info[i].b = p
    BY DEF Built
  <1>2. /\ desc[l].addr = <<"op", l>> /\ desc[m].addr = <<"buf", q>>
        /\ desc[n].addr = <<"status", l>> /\ info[l].b = q
    BY DEF Built
  <1>3. i # l
    BY <1>1, <1>2, Zenon
  <1>4. i # m /\ i # n /\ j # l /\ j # m /\ j # n /\ k # l /\ k # m /\ k # n
    BY <1>1, <1>2, <1>3
  <1> QED BY <1>3, <1>4, Zenon

\* The head of a request in flight is not free and names its owner.
LEMMA LiveHead ==
  ASSUME TypeOK, ChainsOk, NEW p \in Proc, Live(p)
  PROVE  head[p] \in Idx \ free /\ info[head[p]].b = p
  BY Zenon DEF ChainsOk, Built

\* Two requests in flight have different heads.
LEMMA HeadsApart ==
  ASSUME TypeOK, ChainsOk, NEW p \in Proc, Live(p), NEW q \in Proc, Live(q), p # q
  PROVE  head[p] # head[q]
  BY LiveHead, Zenon

\* vdisk_lock, virtq_lock: one holder.
LEMMA OneHolder ==
  ASSUME TypeOK, LocksOk
  PROVE  /\ \A p, q \in Proc : pc[p] \in DiskHeldAt /\ pc[q] \in DiskHeldAt => p = q
         /\ \A a, b \in Actor : pc[a] \in QueueHeldAt /\ pc[b] \in QueueHeldAt => a = b
         /\ \A p \in Proc : pc[p] \in DiskHeldAt => ipc # "scan"
  <1>1. \A p \in Proc : p # "intr"
    BY RingAssumption, Zenon
  <1> QED BY <1>1, Zenon DEF LocksOk

\* Where the other actors are while one serves the queue.
LEMMA OneServer ==
  ASSUME TypeOK, LocksOk, NEW a \in Actor, pc[a] \in QueueHeldAt
  PROVE  \A l \in QueueHeldAt : At(l) <=> pc[a] = l
  BY OneHolder, Zenon DEF At

\* A step that leaves the chains of the requests in flight alone.
LEMMA ChainsFrame ==
  ASSUME ChainsOk, UNCHANGED <<NUM, free, head, desc, ops>>,
         \A p \in Proc : Live(p)' => Live(p) /\ req'[p] = req[p],
         \A i \in Idx : info'[i].b = info[i].b
  PROVE  ChainsOk'
  <1> SUFFICES ASSUME NEW p \in Proc, Live(p)'
               PROVE  \E i, j, k \in Idx' \ free' : Built(p, i, j, k)'
    BY Zenon DEF ChainsOk
  <1>1. PICK i, j, k \in Idx \ free : Built(p, i, j, k)
    BY Zenon DEF ChainsOk
  <1>2. Built(p, i, j, k)'
    BY <1>1, Zenon DEF Built
  <1>3. Idx' = Idx
    BY Zenon DEF Idx
  <1> QED BY <1>1, <1>2, <1>3, Zenon

\* A step that touches no request leaves StatusOk.
LEMMA StatusFrame ==
  ASSUME StatusOk, UNCHANGED <<NUM, busy, info, head, avail>>,
         \A p \in Proc : Live(p)' => Live(p) /\ (pc'[p] = "publish" => pc[p] = "publish")
  PROVE  StatusOk'
  BY Zenon DEF StatusOk

\* A step that touches neither ring leaves QueueOk.
LEMMA QueueFrame ==
  ASSUME QueueOk, UNCHANGED <<NUM, avail, used, used_idx, head, info, cur, avail_idx, busy>>,
         \A p \in Proc : Live(p) /\ pc[p] # "publish" => Live(p)' /\ pc'[p] # "publish",
         \A l \in {"put_used", "bump_used", "advance"} : At(l)' <=> At(l)
  PROVE  QueueOk'
  <1>1. PICK o \in 0 .. IdxMod - 1 : \E u \in 0 .. o : Window(o, u)
    BY Zenon DEF QueueOk
  <1>0. PICK u \in 0 .. o : Window(o, u)
    BY <1>1, Zenon
  <1>2. Served' <=> Served
    BY Zenon DEF Served
  <1>3. \A n : Pos(n)' = Pos(n) /\ HeadAt(n)' = HeadAt(n)
    BY Zenon DEF Pos, HeadAt
  <1>4. Window(o, u)'
    BY <1>0, <1>2, <1>3, Zenon DEF Window
  <1>5. used'.idx = IF At("advance")' THEN Inc16(avail_idx') ELSE avail_idx'
    BY Zenon DEF QueueOk
  <1> QED BY <1>4, <1>5, Zenon DEF QueueOk

-----------------------------------------------------------------------------
(* What a turn of the handler's loop does                                  *)

\* virtio_blk_req_handler fetches the head of a request in flight that nobody
\* served, and virtio_blk_process_desc finds its header, buffer and status.
LEMMA ServeEffect ==
  ASSUME DiskInv, NEW a \in Actor, Serve(a), NEW o \in 0 .. IdxMod - 1, NEW u \in 0 .. o, Window(o, u)
  PROVE  /\ u < o /\ ~Served /\ ~At("advance")
         /\ \E p \in Proc :
              /\ Live(p) /\ pc[p] # "publish" /\ busy[p]
              /\ head[p] = HeadAt(u) /\ info[head[p]].status = Unserved
              /\ cur' = head[p]
              /\ info' = [info EXCEPT ![head[p]].status = 0]
              /\ ramdisk' = IF req[p].write THEN [ramdisk EXCEPT ![req[p].block] = data[p]]
                            ELSE ramdisk
              /\ data' = IF req[p].write THEN data
                         ELSE [data EXCEPT ![p] = ramdisk[req[p].block]]
  <1>1. TypeOK /\ LocksOk /\ ChainsOk /\ QueueOk
    BY Zenon DEF DiskInv
  <1>2. pc[a] = "loop"
    BY Zenon DEF Serve
  <1>3. ~At("put_used") /\ ~At("bump_used") /\ ~At("advance")
    BY <1>1, <1>2, OneServer, Zenon DEF QueueHeldAt
  <1>4. avail_idx = Pos(u) /\ avail_idx # Pos(o)
    BY <1>1, <1>3, Zenon DEF QueueOk, Window, Serve
  <1>5. u < o /\ u \in 0 .. o - 1
    BY <1>1, <1>4, RingFacts
  <1>6. PICK p \in Proc : Live(p) /\ pc[p] # "publish" /\ busy[p] /\ head[p] = HeadAt(u)
    BY <1>5, Zenon DEF Window
  <1>7. info[head[p]].status = Unserved
    BY <1>3, <1>5, <1>6, Zenon DEF Window, Served
  <1>8. PICK i, j, k \in Idx \ free : Built(p, i, j, k)
    BY <1>1, <1>6, Zenon DEF ChainsOk
  <1>9. avail.ring[avail_idx % NUM] = i
    BY <1>4, <1>6, <1>8, Zenon DEF HeadAt, Built
  <1>10. NextDesc(i) = j /\ NextDesc(j) = k /\ NextDesc(k) = NUM /\ j # NUM /\ k # NUM
    <2>1. NUM \in Nat /\ j < NUM /\ k < NUM /\ i < NUM
      BY <1>1, RingFacts DEF Idx
    <2>2. /\ desc[i].more = TRUE /\ desc[j].more = TRUE /\ desc[k].more = FALSE
          /\ desc[i].next = j /\ desc[j].next = k
      BY <1>8 DEF Built
    <2> QED BY <2>1, <2>2 DEF NextDesc
  <1>11. cur' = i /\ ServeChain(i, j, k)
    BY <1>9, <1>10, Zenon DEF Serve
  <1>12. /\ desc[i].addr[2] = i /\ desc[j].addr[2] = p /\ desc[k].addr[2] = i
         /\ ops[i].write = req[p].write /\ ops[i].sector = SectorOf(req[p].block)
    BY <1>8 DEF Built
  <1>13. PICK b \in Block : b = req[p].block
    BY <1>1, Zenon DEF TypeOK, Request
  <1>14. BlockOf(SectorOf(b)) = b /\ b < FSIMG_SIZE
    BY RingAssumption DEF BlockOf, SectorOf, Block
  <1>15. /\ RamdiskRw(b, p, req[p].write)
         /\ info' = [info EXCEPT ![i].status = IF b < FSIMG_SIZE THEN 0 ELSE Failed]
    BY <1>11, <1>12, <1>13, <1>14, Zenon DEF ServeChain
  <1>16. /\ ramdisk' = IF req[p].write THEN [ramdisk EXCEPT ![b] = data[p]] ELSE ramdisk
         /\ data' = IF req[p].write THEN data ELSE [data EXCEPT ![p] = ramdisk[b]]
    <2>1. req[p].write \in BOOLEAN
      BY <1>1, Zenon DEF TypeOK, Request
    <2> QED BY <2>1, <1>14, <1>15, Zenon DEF RamdiskRw
  <1>17. info' = [info EXCEPT ![i].status = 0]
    BY <1>14, <1>15, Zenon
  <1>18. head[p] = i
    BY <1>8, Zenon DEF Built
  <1> QED BY <1>3, <1>5, <1>6, <1>7, <1>11, <1>13, <1>16, <1>17, <1>18, Zenon DEF Served
-----------------------------------------------------------------------------
(* Types                                                                   *)

\* The types at boot.
LEMMA TypeInit == Init => TypeOK
  <1> SUFFICES ASSUME Init PROVE TypeOK
    BY Zenon
  <1>1. NUM \in Nat /\ NUM >= 3 /\ NUM \in RingSize /\ 0 \in Idx /\ MaxReq[NUM] \in Nat /\ MaxKick \in Nat
    BY RingAssumption DEF Init, Idx
  <1>2. req \in [Proc -> Request]
    BY RingAssumption DEF Init, Request, NoRequest, Block
  <1>3. desc \in [Idx -> Descriptor]
    BY <1>1 DEF Init, NoDesc, Addr, Descriptor
  <1>4. ops \in [Idx -> Header]
    BY Zenon DEF Init, Header
  <1>5. info \in [Idx -> Info]
    BY Zenon DEF Init, Info
  <1>6. avail \in Ring /\ used \in Ring
    BY <1>1, RingAssumption, Zenon DEF Init, Ring
  <1>7. /\ pc \in [Actor -> Label] /\ head \in [Proc -> Idx] /\ data \in [Proc -> Data]
        /\ busy \in [Proc -> BOOLEAN] /\ ramdisk \in [Block -> Data]
    BY <1>1, RingAssumption, Zenon DEF Init, Label, Block
  <1>8. irq \in Spi
    BY Zenon DEF Init, Spi
  <1>9. made \in 0 .. MaxReq[NUM] /\ kicks \in 0 .. MaxKick
    BY <1>1 DEF Init
  <1> QED BY <1>1, <1>2, <1>3, <1>4, <1>5, <1>6, <1>7, <1>8, <1>9, RingAssumption, Zenon DEF Init, TypeOK

\* A step keeps the types of what it changes.
LEMMA TypeStep == DiskInv /\ [Next]_vars => TypeOK'
  <1> SUFFICES ASSUME DiskInv, [Next]_vars
               PROVE  TypeOK'
    BY Zenon
  <1>t. TypeOK
    BY Zenon DEF DiskInv
  <1>r. /\ NUM \in Nat /\ NUM >= 3 /\ IdxMod \in Nat /\ IdxMod > 0
        /\ MaxReq[NUM] \in Nat /\ MaxKick \in Nat
    BY <1>t, RingFacts, RingAssumption, Zenon DEF TypeOK
  <1>i. /\ 0 \in Idx
        /\ \A x \in Nat : Inc16(x) \in 0 .. IdxMod - 1
        /\ \A x \in Nat : x % NUM \in Idx
    BY <1>r DEF Inc16, Idx
  <1>s. ASSUME NUM' = NUM
        PROVE  Idx' = Idx /\ Descriptor' = Descriptor /\ Ring' = Ring
    BY <1>s DEF Idx, Descriptor, Ring, Addr
  <1>n. NullAddr \in Addr /\ NoDesc \in Descriptor
    BY <1>i DEF Addr, NoDesc, Descriptor
  <1>g. ASSUME NEW a \in Actor, NEW l \in Label, Goto(a, l)
        PROVE  pc' \in [Actor -> Label]
    BY <1>t, <1>g, Zenon DEF TypeOK, Goto
  <1>w. WakeFree(pc) \in [Actor -> Label]
    BY <1>t, Zenon DEF TypeOK, WakeFree, Label
  <1>1. ASSUME NEW p \in Proc, CallRw(p) PROVE TypeOK'
    <2>1. pc' \in [Actor -> Label]
      BY <1>1, <1>g, Zenon DEF CallRw, Actor, Label
    <2>2. req' \in [Proc -> Request] /\ data' \in [Proc -> Data]
      BY <1>1, <1>t, RingAssumption DEF CallRw, TypeOK, Request
    <2>3. made' \in 0 .. MaxReq[NUM]
      BY <1>1, <1>t, <1>r DEF CallRw, TypeOK
    <2>4. NUM' = NUM
      BY <1>1, Zenon DEF CallRw, hypVars
    <2>5. Idx' = Idx /\ Descriptor' = Descriptor /\ Ring' = Ring
      BY <2>4, <1>s, Zenon
    <2> QED BY <1>1, <1>t, <2>1, <2>2, <2>3, <2>4, <2>5, Zenon DEF CallRw, TypeOK, hypVars
  <1>2. ASSUME NEW p \in Proc, AcquireDisk(p) PROVE TypeOK'
    <2>1. pc' \in [Actor -> Label]
      BY <1>2, <1>g, Zenon DEF AcquireDisk, Actor, Label
    <2>2. NUM' = NUM
      BY <1>2, Zenon DEF AcquireDisk, hypVars
    <2>3. Idx' = Idx /\ Descriptor' = Descriptor /\ Ring' = Ring
      BY <2>2, <1>s, Zenon
    <2> QED BY <1>2, <1>t, <2>1, <2>2, <2>3, Zenon DEF AcquireDisk, TypeOK, hypVars
  <1>3. ASSUME NEW p \in Proc, AllocFails(p) PROVE TypeOK'
    <2>1. pc' \in [Actor -> Label]
      BY <1>3, <1>t, <1>w, Zenon DEF AllocFails, TypeOK, Label
    <2>2. desc' \in [Idx -> Descriptor]
      BY <1>3, <1>t, <1>n, Zenon DEF AllocFails, TypeOK
    <2>3. NUM' = NUM
      BY <1>3, Zenon DEF AllocFails, hypVars
    <2>4. Idx' = Idx /\ Descriptor' = Descriptor /\ Ring' = Ring
      BY <2>3, <1>s, Zenon
    <2> QED BY <1>3, <1>t, <2>1, <2>2, <2>3, <2>4, Zenon DEF AllocFails, TypeOK, hypVars
  <1>4. ASSUME NEW p \in Proc, Publish(p) PROVE TypeOK'
    <2>1. pc' \in [Actor -> Label]
      BY <1>4, <1>g, Zenon DEF Publish, Actor, Label
    <2>2. Inc16(avail.idx) \in 0 .. IdxMod - 1
      BY <1>t, <1>r, <1>i DEF TypeOK, Ring
    <2>3. avail' \in Ring
      BY <1>4, <1>t, <2>2, Zenon DEF Publish, TypeOK, Ring
    <2>4. NUM' = NUM
      BY <1>4, Zenon DEF Publish, hypVars
    <2>5. Idx' = Idx /\ Descriptor' = Descriptor /\ Ring' = Ring
      BY <2>4, <1>s, Zenon
    <2> QED BY <1>4, <1>t, <2>1, <2>2, <2>3, <2>4, <2>5, Zenon DEF Publish, TypeOK, guestVars, hypVars
  <1>5. ASSUME NEW p \in Proc, SleepOnBuf(p) PROVE TypeOK'
    <2>1. pc' \in [Actor -> Label]
      BY <1>5, <1>g, Zenon DEF SleepOnBuf, Actor, Label
    <2>2. vdisk_lock' \in Proc \cup {"intr", Nobody}
      BY <1>5, Zenon DEF SleepOnBuf
    <2>3. NUM' = NUM
      BY <1>5, Zenon DEF SleepOnBuf, hypVars
    <2>4. Idx' = Idx /\ Descriptor' = Descriptor /\ Ring' = Ring
      BY <2>3, <1>s, Zenon
    <2> QED BY <1>5, <1>t, <2>1, <2>2, <2>3, <2>4, Zenon DEF SleepOnBuf, TypeOK, hypVars
  <1>6. ASSUME NEW a \in Kicker, Kick(a) PROVE TypeOK'
    <2>1. pc' \in [Actor -> Label]
      BY <1>6, <1>g, Zenon DEF Kick, Actor, Label
    <2>2. kicks' \in 0 .. MaxKick
      BY <1>6, <1>t, <1>r DEF Kick, TypeOK
    <2>3. NUM' = NUM
      BY <1>6, Zenon DEF Kick, hypVars
    <2>4. Idx' = Idx /\ Descriptor' = Descriptor /\ Ring' = Ring
      BY <2>3, <1>s, Zenon
    <2> QED BY <1>6, <1>t, <2>1, <2>2, <2>3, <2>4, Zenon DEF Kick, TypeOK, hypVars
  <1>7. ASSUME NEW a \in Actor, LockQueue(a) PROVE TypeOK'
    <2>1. pc' \in [Actor -> Label]
      BY <1>7, <1>g, Zenon DEF LockQueue, Actor, Label
    <2>2. NUM' = NUM
      BY <1>7, Zenon DEF LockQueue
    <2>3. Idx' = Idx /\ Descriptor' = Descriptor /\ Ring' = Ring
      BY <2>2, <1>s, Zenon
    <2> QED BY <1>7, <1>t, <2>1, <2>2, <2>3, Zenon DEF LockQueue, TypeOK, guestVars
  <1>8. ASSUME NEW a \in Actor, PutUsed(a) PROVE TypeOK'
    <2>1. pc' \in [Actor -> Label]
      BY <1>8, <1>g, Zenon DEF PutUsed, Actor, Label
    <2>2. used.idx % NUM \in Idx /\ cur \in Idx
      BY <1>t, <1>r, <1>i DEF TypeOK, Ring
    <2>3. used' \in Ring
      BY <1>8, <1>t, <2>2, Zenon DEF PutUsed, TypeOK, Ring
    <2>4. NUM' = NUM
      BY <1>8, Zenon DEF PutUsed, hypVars
    <2>5. Idx' = Idx /\ Descriptor' = Descriptor /\ Ring' = Ring
      BY <2>4, <1>s, Zenon
    <2> QED BY <1>8, <1>t, <2>1, <2>2, <2>3, <2>4, <2>5, Zenon DEF PutUsed, TypeOK, guestVars, hypVars
  <1>9. ASSUME NEW a \in Actor, BumpUsed(a) PROVE TypeOK'
    <2>1. pc' \in [Actor -> Label]
      BY <1>9, <1>g, Zenon DEF BumpUsed, Actor, Label
    <2>2. Inc16(used.idx) \in 0 .. IdxMod - 1
      BY <1>t, <1>r, <1>i DEF TypeOK, Ring
    <2>3. used' \in Ring
      BY <1>9, <1>t, <2>2, Zenon DEF BumpUsed, TypeOK, Ring
    <2>4. NUM' = NUM
      BY <1>9, Zenon DEF BumpUsed, hypVars
    <2>5. Idx' = Idx /\ Descriptor' = Descriptor /\ Ring' = Ring
      BY <2>4, <1>s, Zenon
    <2> QED BY <1>9, <1>t, <2>1, <2>2, <2>3, <2>4, <2>5, Zenon DEF BumpUsed, TypeOK, guestVars, hypVars
  <1>10. ASSUME NEW a \in Actor, AdvanceAvail(a) PROVE TypeOK'
    <2>1. pc' \in [Actor -> Label]
      BY <1>10, <1>g, Zenon DEF AdvanceAvail, Actor, Label
    <2>2. avail_idx' \in 0 .. IdxMod - 1
      BY <1>10, <1>t, <1>r, <1>i DEF AdvanceAvail, TypeOK
    <2>3. NUM' = NUM
      BY <1>10, Zenon DEF AdvanceAvail
    <2>4. Idx' = Idx /\ Descriptor' = Descriptor /\ Ring' = Ring
      BY <2>3, <1>s, Zenon
    <2> QED BY <1>10, <1>t, <2>1, <2>2, <2>3, <2>4, Zenon DEF AdvanceAvail, TypeOK, guestVars
  <1>11. ASSUME NEW a \in Actor, UnlockQueue(a) PROVE TypeOK'
    <2>1. pc' \in [Actor -> Label]
      BY <1>11, <1>g, Zenon DEF UnlockQueue, Actor, Label
    <2>2. NUM' = NUM
      BY <1>11, Zenon DEF UnlockQueue
    <2>3. Idx' = Idx /\ Descriptor' = Descriptor /\ Ring' = Ring
      BY <2>2, <1>s, Zenon
    <2> QED BY <1>11, <1>t, <2>1, <2>2, <2>3, Zenon DEF UnlockQueue, TypeOK, guestVars
  <1>12. ASSUME NEW a \in Actor, Signal(a) PROVE TypeOK'
    <2>1. pc' \in [Actor -> Label]
      BY <1>12, <1>g, Zenon DEF Signal, Actor, Label
    <2>2. irq' \in Spi
      BY <1>12, <1>t, Zenon DEF Signal, TypeOK, Spi
    <2>3. NUM' = NUM
      BY <1>12, Zenon DEF Signal, hypVars
    <2>4. Idx' = Idx /\ Descriptor' = Descriptor /\ Ring' = Ring
      BY <2>3, <1>s, Zenon
    <2> QED BY <1>12, <1>t, <2>1, <2>2, <2>3, <2>4, Zenon DEF Signal, TypeOK, guestVars, hypVars
  <1>13. ASSUME InjectIrq PROVE TypeOK'
    <2>1. irq' \in Spi
      BY <1>13, <1>t, Zenon DEF InjectIrq, TypeOK, Spi
    <2>2. NUM' = NUM
      BY <1>13, Zenon DEF InjectIrq, hypVars
    <2>3. Idx' = Idx /\ Descriptor' = Descriptor /\ Ring' = Ring
      BY <2>2, <1>s, Zenon
    <2> QED BY <1>13, <1>t, <2>1, <2>2, <2>3, Zenon DEF InjectIrq, TypeOK, guestVars, hypVars
  <1>14. ASSUME TakeIrq PROVE TypeOK'
    <2>1. irq' \in Spi
      BY <1>14, <1>t, Zenon DEF TakeIrq, TypeOK, Spi
    <2>2. NUM' = NUM
      BY <1>14, Zenon DEF TakeIrq, hypVars
    <2>3. Idx' = Idx /\ Descriptor' = Descriptor /\ Ring' = Ring
      BY <2>2, <1>s, Zenon
    <2> QED BY <1>14, <1>t, <2>1, <2>2, <2>3, Zenon DEF TakeIrq, TypeOK, guestVars, hypVars
  <1>15. ASSUME IntrAcquire PROVE TypeOK'
    <2>1. ipc' \in {"none", "acquire", "scan", "eoi"}
      BY <1>15, Zenon DEF IntrAcquire
    <2>2. NUM' = NUM
      BY <1>15, Zenon DEF IntrAcquire, hypVars
    <2>3. Idx' = Idx /\ Descriptor' = Descriptor /\ Ring' = Ring
      BY <2>2, <1>s, Zenon
    <2> QED BY <1>15, <1>t, <2>1, <2>2, <2>3, Zenon DEF IntrAcquire, TypeOK, hypVars
  <1>16. ASSUME IntrRelease PROVE TypeOK'
    <2>1. ipc' \in {"none", "acquire", "scan", "eoi"}
      BY <1>16, Zenon DEF IntrRelease
    <2>2. NUM' = NUM
      BY <1>16, Zenon DEF IntrRelease, hypVars
    <2>3. Idx' = Idx /\ Descriptor' = Descriptor /\ Ring' = Ring
      BY <2>2, <1>s, Zenon
    <2> QED BY <1>16, <1>t, <2>1, <2>2, <2>3, Zenon DEF IntrRelease, TypeOK, hypVars
  <1>17. ASSUME IntrEoi PROVE TypeOK'
    <2>1. irq' \in Spi
      BY <1>17, <1>t, Zenon DEF IntrEoi, TypeOK, Spi
    <2>2. NUM' = NUM
      BY <1>17, Zenon DEF IntrEoi, hypVars
    <2>3. Idx' = Idx /\ Descriptor' = Descriptor /\ Ring' = Ring
      BY <2>2, <1>s, Zenon
    <2> QED BY <1>17, <1>t, <2>1, <2>2, <2>3, Zenon DEF IntrEoi, TypeOK, guestVars, hypVars
  <1>18. ASSUME IntrComplete PROVE TypeOK'
    <2>1. busy' \in [Proc -> BOOLEAN]
      BY <1>18, <1>t, Zenon DEF IntrComplete, TypeOK
    <2>2. pc' \in [Actor -> Label]
      BY <1>18, <1>t, Zenon DEF IntrComplete, TypeOK, WakeBuf, Label
    <2>3. used_idx' \in 0 .. IdxMod - 1
      BY <1>18, <1>t, <1>r, <1>i DEF IntrComplete, TypeOK
    <2>4. NUM' = NUM
      BY <1>18, Zenon DEF IntrComplete, hypVars
    <2>5. Idx' = Idx /\ Descriptor' = Descriptor /\ Ring' = Ring
      BY <2>4, <1>s, Zenon
    <2> QED BY <1>18, <1>t, <2>1, <2>2, <2>3, <2>4, <2>5, Zenon DEF IntrComplete, TypeOK, hypVars
  <1>19. ASSUME NEW a \in Actor, Serve(a) PROVE TypeOK'
    <2>1. pc' \in [Actor -> Label]
      BY <1>19, <1>g, Zenon DEF Serve, Actor, Label
    <2>2. \E o \in 0 .. IdxMod - 1 : \E u \in 0 .. o : Window(o, u)
      BY Zenon DEF DiskInv, QueueOk
    <2>3. PICK p \in Proc :
               /\ cur' = head[p] /\ info' = [info EXCEPT ![head[p]].status = 0]
               /\ ramdisk' = IF req[p].write THEN [ramdisk EXCEPT ![req[p].block] = data[p]]
                             ELSE ramdisk
               /\ data' = IF req[p].write THEN data
                          ELSE [data EXCEPT ![p] = ramdisk[req[p].block]]
      BY <1>19, <2>2, ServeEffect, Zenon
    <2>4. cur' \in Idx /\ info' \in [Idx -> Info]
      BY <1>t, <2>3, Zenon DEF TypeOK, Info
    <2>5. req[p].block \in Block
      BY <1>t, Zenon DEF TypeOK, Request
    <2>6. ramdisk' \in [Block -> Data] /\ data' \in [Proc -> Data]
      BY <1>t, <2>3, <2>5, Zenon DEF TypeOK
    <2>7. NUM' = NUM
      BY <1>19, Zenon DEF Serve
    <2>8. Idx' = Idx /\ Descriptor' = Descriptor /\ Ring' = Ring
      BY <2>7, <1>s, Zenon
    <2> QED BY <1>19, <1>t, <2>1, <2>2, <2>3, <2>4, <2>5, <2>6, <2>7, <2>8, Zenon DEF Serve, TypeOK
  <1>20. ASSUME NEW p \in Proc, FreeChain(p) PROVE TypeOK'
    <2>1. pc' \in [Actor -> Label]
      BY <1>20, <1>t, <1>w, Zenon DEF FreeChain, TypeOK, Label
    <2>2. desc' \in [Idx -> Descriptor]
      BY <1>20, <1>t, <1>n, Zenon DEF FreeChain, TypeOK
    <2>3. info' \in [Idx -> Info]
      BY <1>20, <1>t, Zenon DEF FreeChain, TypeOK, Info
    <2>4. NoRequest \in Request
      BY RingAssumption DEF NoRequest, Request, Block
    <2>5. req' \in [Proc -> Request] /\ head' \in [Proc -> Idx]
      BY <1>20, <1>t, <1>i, <2>4, Zenon DEF FreeChain, TypeOK
    <2>6. free' \subseteq Idx
      BY <1>20, <1>t, <1>n DEF FreeChain, TypeOK, Chain, Descriptor
    <2>7. NUM' = NUM
      BY <1>20, Zenon DEF FreeChain, hypVars
    <2>8. Idx' = Idx /\ Descriptor' = Descriptor /\ Ring' = Ring
      BY <2>7, <1>s, Zenon
    <2> QED BY <1>20, <1>t, <2>1, <2>2, <2>3, <2>4, <2>5, <2>6, <2>7, <2>8, Zenon DEF FreeChain, TypeOK, hypVars
  <1>21. ASSUME NEW p \in Proc, Format(p) PROVE TypeOK'
    <2>1. pc' \in [Actor -> Label]
      BY <1>21, <1>g, Zenon DEF Format, Actor, Label
    <2>2. PICK i, j, k \in free :
               /\ free' = free \ {i, j, k} /\ head' = [head EXCEPT ![p] = i]
               /\ ops' = [ops EXCEPT ![i] = [write |-> req[p].write,
                                             sector |-> SectorOf(req[p].block)]]
               /\ desc' = [desc EXCEPT
                     ![i] = [addr |-> <<"op", i>>, more |-> TRUE, next |-> j],
                     ![j] = [addr |-> <<"buf", p>>, more |-> TRUE, next |-> k],
                     ![k] = [addr |-> <<"status", i>>, more |-> FALSE, next |-> 0]]
               /\ info' = [info EXCEPT ![i] = [b |-> p, status |-> Unserved]]
               /\ avail' = [avail EXCEPT !.ring[avail.idx % NUM] = i]
      BY <1>21, Zenon DEF Format, alloc_desc
    <2>3. i \in Idx /\ j \in Idx /\ k \in Idx
      BY <1>t, Zenon DEF TypeOK
    <2>4. free' \subseteq Idx /\ head' \in [Proc -> Idx]
      BY <1>t, <2>2, <2>3, Zenon DEF TypeOK
    <2>5. [write |-> req[p].write, sector |-> SectorOf(req[p].block)] \in Header
      BY <1>t, RingAssumption DEF TypeOK, Request, Block, SectorOf, Header
    <2>6. ops' \in [Idx -> Header]
      BY <1>t, <2>2, <2>5, Zenon DEF TypeOK
    <2>7. /\ [addr |-> <<"op", i>>, more |-> TRUE, next |-> j] \in Descriptor
          /\ [addr |-> <<"buf", p>>, more |-> TRUE, next |-> k] \in Descriptor
          /\ [addr |-> <<"status", i>>, more |-> FALSE, next |-> 0] \in Descriptor
      <3>1. <<"op", i>> \in Addr
        BY <2>3 DEF Addr
      <3>2. <<"buf", p>> \in Addr
        BY DEF Addr
      <3>3. <<"status", i>> \in Addr
        BY <2>3 DEF Addr
      <3> QED BY <1>i, <2>3, <3>1, <3>2, <3>3, Zenon DEF Descriptor
    <2>8. desc' \in [Idx -> Descriptor]
      BY <1>t, <2>2, <2>7, Zenon DEF TypeOK
    <2>9. info' \in [Idx -> Info]
      BY <1>t, <2>2, Zenon DEF TypeOK, Info
    <2>10. avail.idx % NUM \in Idx
      BY <1>t, <1>r, <1>i DEF TypeOK, Ring
    <2>11. avail' \in Ring
      BY <1>t, <2>2, <2>3, <2>10, Zenon DEF TypeOK, Ring
    <2>12. busy' \in [Proc -> BOOLEAN]
      BY <1>21, <1>t, Zenon DEF Format, TypeOK
    <2>13. NUM' = NUM
      BY <1>21, Zenon DEF Format, hypVars
    <2>14. Idx' = Idx /\ Descriptor' = Descriptor /\ Ring' = Ring
      BY <2>13, <1>s, Zenon
    <2> QED BY <1>21, <1>t, <2>1, <2>2, <2>3, <2>4, <2>5, <2>6, <2>7, <2>8, <2>9, <2>10, <2>11, <2>12, <2>13, <2>14, Zenon DEF Format, TypeOK, hypVars
  <1>22. ASSUME UNCHANGED vars PROVE TypeOK'
    <2>1. NUM' = NUM
      BY <1>22, Zenon DEF vars, hypVars
    <2>2. Idx' = Idx /\ Descriptor' = Descriptor /\ Ring' = Ring
      BY <2>1, <1>s, Zenon
    <2> QED BY <1>22, <1>t, <2>1, <2>2, Zenon DEF vars, guestVars, hypVars, TypeOK
  <1> QED BY <1>1, <1>2, <1>3, <1>4, <1>5, <1>6, <1>7, <1>8, <1>9, <1>10, <1>11, <1>12, <1>13, <1>14, <1>15, <1>16, <1>17, <1>18, <1>19, <1>20, <1>21, <1>22, Zenon DEF Next, Driver, Notify, Interrupt

-----------------------------------------------------------------------------
(* Locks and the interrupt                                                 *)

\* A step of one actor.
Moved(a, l) == pc'[a] = l /\ \A b \in Actor \ {a} : pc'[b] = pc[b]

\* A step of one actor that wakes nobody moves that actor alone.
LEMMA MovedByGoto ==
  ASSUME TypeOK, NEW a \in Actor, NEW l, Goto(a, l)
  PROVE  Moved(a, l)
  BY Zenon DEF TypeOK, Goto, Moved

\* The same with wakeup(&disk.free[0]).
MovedWaking(a, l) ==
    /\ pc'[a] = l
    /\ \A b \in Actor \ {a} : \/ pc'[b] = pc[b]
                              \/ pc[b] = "free_sleep" /\ pc'[b] = "acquire"

\* wakeup(&disk.free[0]) sends the sleepers of alloc3_desc back to acquire.
LEMMA MovedByWakeFree ==
  ASSUME TypeOK, NEW a \in Actor, NEW l, NEW f \in {pc, WakeFree(pc)}, pc' = [f EXCEPT ![a] = l]
  PROVE  MovedWaking(a, l)
  <1>1. DOMAIN pc = Actor
    BY Zenon DEF TypeOK
  <1>2. /\ DOMAIN f = Actor
        /\ \A b \in Actor : \/ f[b] = pc[b]
                            \/ pc[b] = "free_sleep" /\ f[b] = "acquire"
    <2>1. CASE f = pc
      BY <1>1, <2>1, Zenon
    <2>2. CASE f = WakeFree(pc)
      BY <2>2, Zenon DEF WakeFree
    <2> QED BY <2>1, <2>2, Zenon
  <1>3. pc'[a] = l /\ \A b \in Actor \ {a} : pc'[b] = f[b]
    BY <1>2, Zenon
  <1> QED BY <1>2, <1>3, Zenon DEF MovedWaking

\* wakeup(b) of virtio_disk_intr.
LEMMA MovedByWakeBuf ==
  ASSUME TypeOK, NEW q, pc' = WakeBuf(pc, q)
  PROVE  \A b \in Actor : \/ pc'[b] = pc[b]
                          \/ pc[b] = "buf_sleep" /\ pc'[b] = "reacquire"
  <1>1. DOMAIN pc = Actor
    BY Zenon DEF TypeOK
  <1>2. CASE pc[q] = "buf_sleep"
    <2>1. pc' = [pc EXCEPT ![q] = "reacquire"]
      BY <1>2, Zenon DEF WakeBuf
    <2>2. ASSUME NEW b \in Actor
          PROVE  pc'[b] = IF b = q THEN "reacquire" ELSE pc[b]
      BY <1>1, <2>1, Zenon
    <2> QED BY <1>2, <2>2, Zenon
  <1>3. CASE pc[q] # "buf_sleep"
    BY <1>3, Zenon DEF WakeBuf
  <1> QED BY <1>2, <1>3, Zenon

\* acquire, release and sleep of vdisk_lock and virtq_lock.
LEMMA LocksStep == TypeOK /\ LocksOk /\ [Next]_vars => LocksOk'
  <1> SUFFICES ASSUME TypeOK, LocksOk, [Next]_vars
               PROVE  LocksOk'
    BY Zenon
  <1>a. /\ \A p \in Proc : p \in Actor /\ p # "intr" /\ p # Nobody /\ p \notin Kicker
        /\ \A a \in Actor : a # Nobody
        /\ "intr" # Nobody /\ \A a \in Kicker : a \in Actor /\ a \notin Proc
    BY RingAssumption, Zenon DEF Actor
  <1>1. ASSUME NEW p \in Proc, CallRw(p) PROVE LocksOk'
    <2>1. Moved(p, "acquire")
      BY <1>1, <1>a, MovedByGoto, Zenon DEF CallRw
    <2> QED BY <1>1, <1>a, <2>1, Zenon DEF Moved, MovedWaking, CallRw, LocksOk, DiskHeldAt, QueueHeldAt, hypVars
  <1>2. ASSUME NEW p \in Proc, AcquireDisk(p) PROVE LocksOk'
    <2>1. \/ pc[p] = "acquire" /\ Moved(p, "alloc")
          \/ pc[p] = "reacquire" /\ Moved(p, "await")
      BY <1>2, <1>a, MovedByGoto, Zenon DEF AcquireDisk
    <2> QED BY <1>2, <1>a, <2>1, Zenon DEF Moved, MovedWaking, AcquireDisk, LocksOk, DiskHeldAt, QueueHeldAt, hypVars
  <1>3. ASSUME NEW p \in Proc, AllocFails(p) PROVE LocksOk'
    <2>1. MovedWaking(p, "free_sleep")
      BY <1>3, <1>a, MovedByWakeFree, Zenon DEF AllocFails
    <2> QED BY <1>3, <1>a, <2>1, Zenon DEF Moved, MovedWaking, AllocFails, LocksOk, DiskHeldAt, QueueHeldAt, hypVars
  <1>4. ASSUME NEW p \in Proc, Format(p) PROVE LocksOk'
    <2>1. Moved(p, "publish")
      BY <1>4, <1>a, MovedByGoto, Zenon DEF Format
    <2> QED BY <1>4, <1>a, <2>1, Zenon DEF Moved, MovedWaking, Format, LocksOk, DiskHeldAt, QueueHeldAt, hypVars
  <1>5. ASSUME NEW p \in Proc, Publish(p) PROVE LocksOk'
    <2>1. Moved(p, "notify")
      BY <1>5, <1>a, MovedByGoto, Zenon DEF Publish
    <2> QED BY <1>5, <1>a, <2>1, Zenon DEF Moved, MovedWaking, Publish, LocksOk, DiskHeldAt, QueueHeldAt, guestVars, hypVars
  <1>6. ASSUME NEW p \in Proc, SleepOnBuf(p) PROVE LocksOk'
    <2>1. Moved(p, "buf_sleep")
      BY <1>6, <1>a, MovedByGoto, Zenon DEF SleepOnBuf
    <2> QED BY <1>6, <1>a, <2>1, Zenon DEF Moved, MovedWaking, SleepOnBuf, LocksOk, DiskHeldAt, QueueHeldAt, hypVars
  <1>7. ASSUME NEW p \in Proc, FreeChain(p) PROVE LocksOk'
    <2>1. MovedWaking(p, "idle")
      BY <1>7, <1>a, MovedByWakeFree, Zenon DEF FreeChain
    <2> QED BY <1>7, <1>a, <2>1, Zenon DEF Moved, MovedWaking, FreeChain, LocksOk, DiskHeldAt, QueueHeldAt, hypVars
  <1>8. ASSUME NEW a \in Kicker, Kick(a) PROVE LocksOk'
    <2>1. Moved(a, "notify")
      BY <1>8, <1>a, MovedByGoto, Zenon DEF Kick
    <2> QED BY <1>8, <1>a, <2>1, Zenon DEF Moved, MovedWaking, Kick, LocksOk, DiskHeldAt, QueueHeldAt, hypVars
  <1>9. ASSUME NEW a \in Actor, LockQueue(a) PROVE LocksOk'
    <2>1. Moved(a, "loop")
      BY <1>9, <1>a, MovedByGoto, Zenon DEF LockQueue
    <2> QED BY <1>9, <1>a, <2>1, Zenon DEF Moved, MovedWaking, LockQueue, LocksOk, DiskHeldAt, QueueHeldAt, guestVars
  <1>10. ASSUME NEW a \in Actor, Serve(a) PROVE LocksOk'
    <2>1. Moved(a, "put_used")
      BY <1>10, <1>a, MovedByGoto, Zenon DEF Serve
    <2> QED BY <1>10, <1>a, <2>1, Zenon DEF Moved, MovedWaking, Serve, LocksOk, DiskHeldAt, QueueHeldAt
  <1>11. ASSUME NEW a \in Actor, PutUsed(a) PROVE LocksOk'
    <2>1. Moved(a, "bump_used")
      BY <1>11, <1>a, MovedByGoto, Zenon DEF PutUsed
    <2> QED BY <1>11, <1>a, <2>1, Zenon DEF Moved, MovedWaking, PutUsed, LocksOk, DiskHeldAt, QueueHeldAt, guestVars, hypVars
  <1>12. ASSUME NEW a \in Actor, BumpUsed(a) PROVE LocksOk'
    <2>1. Moved(a, "advance")
      BY <1>12, <1>a, MovedByGoto, Zenon DEF BumpUsed
    <2> QED BY <1>12, <1>a, <2>1, Zenon DEF Moved, MovedWaking, BumpUsed, LocksOk, DiskHeldAt, QueueHeldAt, guestVars, hypVars
  <1>13. ASSUME NEW a \in Actor, AdvanceAvail(a) PROVE LocksOk'
    <2>1. Moved(a, "loop")
      BY <1>13, <1>a, MovedByGoto, Zenon DEF AdvanceAvail
    <2> QED BY <1>13, <1>a, <2>1, Zenon DEF Moved, MovedWaking, AdvanceAvail, LocksOk, DiskHeldAt, QueueHeldAt, guestVars
  <1>14. ASSUME NEW a \in Actor, UnlockQueue(a) PROVE LocksOk'
    <2>1. Moved(a, "signal")
      BY <1>14, <1>a, MovedByGoto, Zenon DEF UnlockQueue
    <2> QED BY <1>14, <1>a, <2>1, Zenon DEF Moved, MovedWaking, UnlockQueue, LocksOk, DiskHeldAt, QueueHeldAt, guestVars
  <1>15. ASSUME NEW a \in Actor, Signal(a) PROVE LocksOk'
    <2>1. Moved(a, (IF a \in Proc THEN "await" ELSE "idle"))
      BY <1>15, <1>a, MovedByGoto, Zenon DEF Signal
    <2> QED BY <1>15, <1>a, <2>1, Zenon DEF Moved, MovedWaking, Signal, LocksOk, DiskHeldAt, QueueHeldAt, guestVars, hypVars
  <1>16. ASSUME InjectIrq PROVE LocksOk'
    BY <1>16, Zenon DEF InjectIrq, LocksOk, DiskHeldAt, QueueHeldAt, guestVars, hypVars
  <1>17. ASSUME TakeIrq PROVE LocksOk'
    BY <1>17, Zenon DEF TakeIrq, LocksOk, DiskHeldAt, QueueHeldAt, guestVars, hypVars
  <1>18. ASSUME IntrAcquire PROVE LocksOk'
    <2>1. \A p \in Proc : p # "intr"
      BY <1>a, Zenon
    <2> QED BY <1>18, <1>a, <2>1, Zenon DEF Moved, MovedWaking, IntrAcquire, LocksOk, DiskHeldAt, QueueHeldAt, hypVars
  <1>19. ASSUME IntrComplete PROVE LocksOk'
    <2>1. \A b \in Actor : \/ pc'[b] = pc[b]
                           \/ pc[b] = "buf_sleep" /\ pc'[b] = "reacquire"
      BY <1>19, MovedByWakeBuf, Zenon DEF IntrComplete
    <2> QED BY <1>19, <1>a, <2>1, Zenon DEF Moved, MovedWaking, IntrComplete, LocksOk, DiskHeldAt, QueueHeldAt, hypVars
  <1>20. ASSUME IntrRelease PROVE LocksOk'
    <2>1. \A p \in Proc : p # "intr" /\ p # Nobody
      BY <1>a, Zenon
    <2> QED BY <1>20, <1>a, <2>1, Zenon DEF Moved, MovedWaking, IntrRelease, LocksOk, DiskHeldAt, QueueHeldAt, hypVars
  <1>21. ASSUME IntrEoi PROVE LocksOk'
    BY <1>21, Zenon DEF IntrEoi, LocksOk, DiskHeldAt, QueueHeldAt, guestVars, hypVars
  <1>22. ASSUME UNCHANGED vars PROVE LocksOk'
    BY <1>22, Zenon DEF vars, guestVars, hypVars, LocksOk
  <1> QED BY <1>1, <1>2, <1>3, <1>4, <1>5, <1>6, <1>7, <1>8, <1>9, <1>10, <1>11, <1>12, <1>13, <1>14, <1>15, <1>16, <1>17, <1>18, <1>19, <1>20, <1>21, <1>22, Zenon DEF Next, Driver, Notify, Interrupt

\* The list register holds the interrupt while virtio_disk_intr runs.
LEMMA IrqStep == IrqOk /\ TypeOK /\ [Next]_vars => IrqOk'
  <1> SUFFICES ASSUME IrqOk, TypeOK, [Next]_vars
               PROVE  IrqOk'
    BY Zenon
  <1>t. irq \in Spi
    BY Zenon DEF TypeOK
  <1>1. ASSUME UNCHANGED ipc, irq'.lr = irq.lr PROVE IrqOk'
    BY <1>1, Zenon DEF IrqOk
  <1>2. ASSUME NEW p \in Proc, CallRw(p) \/ Driver(p) PROVE IrqOk'
    <2>1. UNCHANGED <<ipc, irq>>
      BY <1>2, Zenon DEF CallRw, Driver, AcquireDisk, AllocFails, Format, Publish, SleepOnBuf, FreeChain
    <2> QED BY <1>1, <2>1, Zenon
  <1>3. ASSUME NEW a \in Kicker, Kick(a) PROVE IrqOk'
    BY <1>1, <1>3, Zenon DEF Kick
  <1>4. ASSUME NEW a \in Actor, Notify(a) PROVE IrqOk'
    <2>1. UNCHANGED ipc /\ (irq' = irq \/ irq' = [irq EXCEPT !.pend = TRUE])
      BY <1>4, Zenon DEF Notify, LockQueue, Serve, PutUsed, BumpUsed, AdvanceAvail, UnlockQueue, Signal
    <2> QED BY <1>1, <1>t, <2>1, Zenon DEF Spi
  <1>5. ASSUME InjectIrq PROVE IrqOk'
    BY <1>5, Zenon DEF InjectIrq, IrqOk
  <1>6. ASSUME TakeIrq PROVE IrqOk'
    BY <1>t, <1>6, Zenon DEF TakeIrq, IrqOk, Spi
  <1>7. ASSUME IntrAcquire \/ IntrComplete \/ IntrRelease PROVE IrqOk'
    BY <1>7, Zenon DEF IntrAcquire, IntrComplete, IntrRelease, IrqOk
  <1>8. ASSUME IntrEoi PROVE IrqOk'
    BY <1>t, <1>8, Zenon DEF IntrEoi, IrqOk, Spi
  <1>9. ASSUME UNCHANGED vars PROVE IrqOk'
    BY <1>1, <1>9, Zenon DEF vars
  <1> QED BY <1>2, <1>3, <1>4, <1>5, <1>6, <1>7, <1>8, <1>9, Zenon DEF Next, Interrupt

-----------------------------------------------------------------------------
(* Chains of descriptors                                                   *)

\* A request whose descriptors a step leaves alone.
LEMMA BuiltFrame ==
  ASSUME NEW p, NEW i, NEW j, NEW k, Built(p, i, j, k),
         head'[p] = head[p], req'[p] = req[p], ops'[i] = ops[i], info'[i].b = info[i].b,
         desc'[i] = desc[i], desc'[j] = desc[j], desc'[k] = desc[k]
  PROVE  Built(p, i, j, k)'
  BY Zenon DEF Built

\* Format, as a step on the three descriptors alloc3_desc found.
LEMMA FormatEffect ==
  ASSUME TypeOK, NEW p \in Proc, Format(p)
  PROVE  \E i, j, k \in free :
            /\ i # j /\ i # k /\ j # k
            /\ free' = free \ {i, j, k} /\ head' = [head EXCEPT ![p] = i]
            /\ ops' = [ops EXCEPT ![i] = [write |-> req[p].write,
                                          sector |-> SectorOf(req[p].block)]]
            /\ desc' = [desc EXCEPT
                  ![i] = [addr |-> <<"op", i>>, more |-> TRUE, next |-> j],
                  ![j] = [addr |-> <<"buf", p>>, more |-> TRUE, next |-> k],
                  ![k] = [addr |-> <<"status", i>>, more |-> FALSE, next |-> 0]]
            /\ info' = [info EXCEPT ![i] = [b |-> p, status |-> Unserved]]
            /\ avail' = [avail EXCEPT !.ring[avail.idx % NUM] = i]
  <1>1. PICK i, j, k \in free :
            /\ alloc_desc(free, i)
            /\ alloc_desc(free \ {i}, j)
            /\ alloc_desc(free \ {i, j}, k)
            /\ free' = free \ {i, j, k} /\ head' = [head EXCEPT ![p] = i]
            /\ ops' = [ops EXCEPT ![i] = [write |-> req[p].write,
                                          sector |-> SectorOf(req[p].block)]]
            /\ desc' = [desc EXCEPT
                  ![i] = [addr |-> <<"op", i>>, more |-> TRUE, next |-> j],
                  ![j] = [addr |-> <<"buf", p>>, more |-> TRUE, next |-> k],
                  ![k] = [addr |-> <<"status", i>>, more |-> FALSE, next |-> 0]]
            /\ info' = [info EXCEPT ![i] = [b |-> p, status |-> Unserved]]
            /\ avail' = [avail EXCEPT !.ring[avail.idx % NUM] = i]
    BY Zenon DEF Format
  <1>2. i # j
    BY <1>1, Zenon DEF alloc_desc
  <1>3. i # k /\ j # k
    BY <1>1, Zenon DEF alloc_desc
  <1> QED  BY <1>1, <1>2, <1>3, Zenon

\* The chain that virtio_disk_rw builds, and those it leaves alone.
LEMMA FormatBuilds ==
  ASSUME TypeOK, ChainsOk, NEW p \in Proc, Format(p)
  PROVE  ChainsOk'
  <1>1. PICK i, j, k \in free :
            /\ i # j /\ i # k /\ j # k
            /\ free' = free \ {i, j, k} /\ head' = [head EXCEPT ![p] = i]
            /\ ops' = [ops EXCEPT ![i] = [write |-> req[p].write,
                                          sector |-> SectorOf(req[p].block)]]
            /\ desc' = [desc EXCEPT
                  ![i] = [addr |-> <<"op", i>>, more |-> TRUE, next |-> j],
                  ![j] = [addr |-> <<"buf", p>>, more |-> TRUE, next |-> k],
                  ![k] = [addr |-> <<"status", i>>, more |-> FALSE, next |-> 0]]
            /\ info' = [info EXCEPT ![i] = [b |-> p, status |-> Unserved]]
    BY FormatEffect
  <1>2. i \in Idx /\ j \in Idx /\ k \in Idx /\ Idx' = Idx /\ req' = req
    BY Zenon DEF TypeOK, Format, Idx, hypVars
  <1>3. Moved(p, "publish")
    BY MovedByGoto, Zenon DEF Format, Actor
  <1>4. /\ desc'[i] = [addr |-> <<"op", i>>, more |-> TRUE, next |-> j]
        /\ desc'[j] = [addr |-> <<"buf", p>>, more |-> TRUE, next |-> k]
        /\ desc'[k] = [addr |-> <<"status", i>>, more |-> FALSE, next |-> 0]
        /\ \A x \in Idx \ {i, j, k} : desc'[x] = desc[x]
    <2> DEFINE di == [addr |-> <<"op", i>>, more |-> TRUE, next |-> j]
               dj == [addr |-> <<"buf", p>>, more |-> TRUE, next |-> k]
               dk == [addr |-> <<"status", i>>, more |-> FALSE, next |-> 0]
    <2>1. desc' = [desc EXCEPT ![i] = di, ![j] = dj, ![k] = dk] /\ DOMAIN desc = Idx
      BY <1>1, Zenon DEF TypeOK
    <2> HIDE DEF di, dj, dk
    <2>2. desc'[i] = di /\ desc'[j] = dj /\ desc'[k] = dk /\ \A x \in Idx \ {i, j, k} : desc'[x] = desc[x]
      BY <1>1, <1>2, <2>1, Zenon
    <2> QED BY <2>2, Zenon DEF di, dj, dk
  <1>5. Built(p, i, j, k)'
    <2>1. head'[p] = i /\ ops'[i] = [write |-> req[p].write, sector |-> SectorOf(req[p].block)]
      BY <1>1, <1>2, Zenon DEF TypeOK
    <2>2. info'[i].b = p
      BY <1>1, <1>2, Zenon DEF TypeOK
    <2> QED BY <1>2, <1>4, <2>1, <2>2, Zenon DEF Built
  <1>6. ASSUME NEW q \in Proc \ {p}, Live(q)'
        PROVE  \E l, m, n \in Idx \ free' : Built(q, l, m, n)'
    <2>1. Live(q)
      BY <1>3, <1>6, Zenon DEF Live, Moved, Actor
    <2>2. PICK l, m, n \in Idx \ free : Built(q, l, m, n)
      BY <2>1, Zenon DEF ChainsOk
    <2>3. desc'[l] = desc[l] /\ desc'[m] = desc[m] /\ desc'[n] = desc[n]
      BY <1>4, <2>2, Zenon
    <2>4. ops'[l] = ops[l] /\ info'[l].b = info[l].b /\ head'[q] = head[q]
      BY <1>1, <1>2, <2>2, Zenon DEF TypeOK
    <2>5. Built(q, l, m, n)'
      BY <1>2, <2>2, <2>3, <2>4, BuiltFrame, Zenon
    <2> QED BY <1>1, <2>2, <2>5, Zenon
  <1>7. \A q \in Proc : Live(q)' => \E l, m, n \in Idx \ free' : Built(q, l, m, n)'
    <2>1. i \in Idx \ free' /\ j \in Idx \ free' /\ k \in Idx \ free'
      BY <1>1, <1>2, Zenon
    <2> QED BY <1>5, <1>6, <2>1, Zenon
  <1> QED BY <1>2, <1>7, Zenon DEF ChainsOk

\* The chain free_chain gives back, and those it leaves alone.
LEMMA FreeChainKeeps ==
  ASSUME TypeOK, ChainsOk, NEW p \in Proc, FreeChain(p)
  PROVE  ChainsOk'
  <1>1. Live(p) /\ Idx' = Idx
    BY Zenon DEF FreeChain, Live, LiveAt, Idx, hypVars
  <1>2. PICK i, j, k \in Idx \ free : Built(p, i, j, k)
    BY <1>1, Zenon DEF ChainsOk
  <1>3. Chain(head[p]) = {i, j, k} /\ head[p] = i
    BY <1>2, ChainOf DEF Built
  <1>4. MovedWaking(p, "idle")
    <2>1. p \in Actor /\ pc' = [WakeFree(pc) EXCEPT ![p] = "idle"]
      BY Zenon DEF FreeChain, Actor
    <2> QED BY <2>1, MovedByWakeFree, Zenon
  <1>5. ASSUME NEW q \in Proc, Live(q)'
        PROVE  q # p /\ Live(q)
    BY <1>4, <1>5, Zenon DEF MovedWaking, Live, LiveAt, Actor
  <1>6. ASSUME NEW q \in Proc, Live(q)'
        PROVE  \E l, m, n \in Idx \ free' : Built(q, l, m, n)'
    <2>1. q # p /\ Live(q)
      BY <1>5, <1>6, Zenon
    <2>2. PICK l, m, n \in Idx \ free : Built(q, l, m, n)
      BY <2>1, Zenon DEF ChainsOk
    <2>3. {i, j, k} \cap {l, m, n} = {}
      BY <1>2, <2>1, <2>2, ChainsApart
    <2>4. desc'[l] = desc[l] /\ desc'[m] = desc[m] /\ desc'[n] = desc[n]
      BY <1>3, <2>2, <2>3, Zenon DEF FreeChain
    <2>5. info'[l].b = info[l].b
      BY <1>3, <2>2, <2>3, Zenon DEF FreeChain, TypeOK
    <2>6. ops'[l] = ops[l] /\ head'[q] = head[q] /\ req'[q] = req[q]
      BY <2>1, Zenon DEF FreeChain, TypeOK
    <2>7. Built(q, l, m, n)'
      BY <2>2, <2>4, <2>5, <2>6, BuiltFrame, Zenon
    <2>8. l \notin free' /\ m \notin free' /\ n \notin free'
      BY <1>3, <2>2, <2>3, Zenon DEF FreeChain
    <2> QED BY <2>2, <2>7, <2>8, Zenon
  <1> QED BY <1>1, <1>6, Zenon DEF ChainsOk

\* alloc3_desc that gives back what it took.
LEMMA AllocFailsKeeps ==
  ASSUME TypeOK, ChainsOk, NEW p \in Proc, AllocFails(p)
  PROVE  ChainsOk'
  <1>1. Idx' = Idx /\ free' = free
    BY Zenon DEF AllocFails, Idx, hypVars
  <1>2. MovedWaking(p, "free_sleep")
    BY MovedByWakeFree, Zenon DEF AllocFails, Actor
  <1>3. ASSUME NEW q \in Proc, Live(q)'
        PROVE  \E l, m, n \in Idx \ free : Built(q, l, m, n)'
    <2>1. Live(q)
      BY <1>2, <1>3, Zenon DEF MovedWaking, Live, LiveAt, Actor
    <2>2. PICK l, m, n \in Idx \ free : Built(q, l, m, n)
      BY <2>1, Zenon DEF ChainsOk
    <2>3. desc'[l] = desc[l] /\ desc'[m] = desc[m] /\ desc'[n] = desc[n]
      BY <2>2, Zenon DEF AllocFails
    <2>4. Built(q, l, m, n)'
      BY <2>2, <2>3, BuiltFrame, Zenon DEF AllocFails
    <2> QED BY <2>2, <2>4, Zenon
  <1> QED BY <1>1, <1>3, Zenon DEF ChainsOk

\* A step of the NOTIFY handler: the process that is in it stays in flight.
LEMMA NotifyMoves ==
  ASSUME TypeOK, NEW a \in Actor, Notify(a)
  PROVE  /\ \A p \in Proc : Live(p)' <=> Live(p)
         /\ \A p \in Proc : pc'[p] = "publish" <=> pc[p] = "publish"
         /\ \A p \in Proc : pc'[p] = "idle" <=> pc[p] = "idle"
         /\ UNCHANGED <<NUM, req, head, busy, free, ops, desc, avail, used_idx, ipc, vdisk_lock>>
  <1>1. ASSUME LockQueue(a) PROVE pc[a] \in LiveAt /\ Moved(a, "loop")
    BY <1>1, MovedByGoto, Zenon DEF LockQueue, LiveAt
  <1>2. ASSUME Serve(a) PROVE pc[a] \in LiveAt /\ Moved(a, "put_used")
    BY <1>2, MovedByGoto, Zenon DEF Serve, LiveAt
  <1>3. ASSUME PutUsed(a) PROVE pc[a] \in LiveAt /\ Moved(a, "bump_used")
    BY <1>3, MovedByGoto, Zenon DEF PutUsed, LiveAt
  <1>4. ASSUME BumpUsed(a) PROVE pc[a] \in LiveAt /\ Moved(a, "advance")
    BY <1>4, MovedByGoto, Zenon DEF BumpUsed, LiveAt
  <1>5. ASSUME AdvanceAvail(a) PROVE pc[a] \in LiveAt /\ Moved(a, "loop")
    BY <1>5, MovedByGoto, Zenon DEF AdvanceAvail, LiveAt
  <1>6. ASSUME UnlockQueue(a) PROVE pc[a] \in LiveAt /\ Moved(a, "signal")
    BY <1>6, MovedByGoto, Zenon DEF UnlockQueue, LiveAt
  <1>7. ASSUME Signal(a) PROVE pc[a] \in LiveAt /\ (a \in Proc => Moved(a, "await")) /\ (a \notin Proc => Moved(a, "idle"))
    BY <1>7, MovedByGoto, Zenon DEF Signal, LiveAt
  <1>8. PICK l \in LiveAt \cup {"idle"} : pc[a] \in LiveAt \ {"publish"} /\ Moved(a, l) /\ l # "publish" /\ (a \in Proc => l \in LiveAt)
    <2>1. pc[a] # "publish"
      BY Zenon DEF Notify, LockQueue, Serve, PutUsed, BumpUsed, AdvanceAvail, UnlockQueue, Signal
    <2> QED BY <1>1, <1>2, <1>3, <1>4, <1>5, <1>6, <1>7, <2>1, Zenon DEF Notify, LiveAt
  <1>9. \A p \in Proc : p = a \/ pc'[p] = pc[p]
    BY <1>8, Zenon DEF Moved, Actor
  <1>10. /\ \A p \in Proc : Live(p)' <=> Live(p)
         /\ \A p \in Proc : pc'[p] = "publish" <=> pc[p] = "publish"
         /\ \A p \in Proc : pc'[p] = "idle" <=> pc[p] = "idle"
    BY <1>8, <1>9, Zenon DEF Live, LiveAt, Moved
  <1>11. UNCHANGED <<NUM, req, head, busy, free, ops, desc, avail, used_idx, ipc, vdisk_lock>>
    BY Zenon DEF Notify, LockQueue, Serve, PutUsed, BumpUsed, AdvanceAvail, UnlockQueue, Signal, guestVars, hypVars
  <1> QED BY <1>10, <1>11, Zenon

\* Who is in flight after a step of the interrupt handler.
LEMMA InterruptMoves ==
  ASSUME TypeOK, Interrupt
  PROVE  /\ \A a \in Actor : \/ pc'[a] = pc[a]
                             \/ pc[a] = "buf_sleep" /\ pc'[a] = "reacquire"
         /\ \A p \in Proc : Live(p)' <=> Live(p)
         /\ UNCHANGED <<NUM, req, head, free, ops, info, desc, avail, used, avail_idx, virtq_lock, cur, data, ramdisk>>
  <1>1. \A a \in Actor : \/ pc'[a] = pc[a]
                         \/ pc[a] = "buf_sleep" /\ pc'[a] = "reacquire"
    BY MovedByWakeBuf, Zenon DEF Interrupt, InjectIrq, TakeIrq, IntrAcquire, IntrComplete, IntrRelease, IntrEoi
  <1>2. \A p \in Proc : Live(p)' <=> Live(p)
    BY <1>1, Zenon DEF Live, LiveAt, Actor
  <1>3. UNCHANGED <<NUM, req, head, free, ops, info, desc, avail, used, avail_idx, virtq_lock, cur, data, ramdisk>>
    BY Zenon DEF Interrupt, InjectIrq, TakeIrq, IntrAcquire, IntrComplete, IntrRelease, IntrEoi, guestVars, hypVars
  <1> QED BY <1>1, <1>2, <1>3, Zenon

\* A status is the only thing of disk.info the handler writes.
LEMMA NotifyInfo ==
  ASSUME DiskInv, NEW a \in Actor, Notify(a)
  PROVE  \A i \in Idx : info'[i].b = info[i].b
  <1>1. CASE Serve(a)
    <2>1. PICK p \in Proc : info' = [info EXCEPT ![head[p]].status = 0]
      BY <1>1, ServeEffect, Zenon DEF DiskInv, QueueOk
    <2>2. info \in [Idx -> Info]
      BY Zenon DEF DiskInv, TypeOK
    <2> QED BY <2>1, <2>2, Zenon DEF Info
  <1>2. CASE ~Serve(a)
    <2>1. info' = info
      BY <1>2, Zenon DEF Notify, LockQueue, PutUsed, BumpUsed, AdvanceAvail, UnlockQueue, Signal, guestVars
    <2> QED BY <2>1, Zenon
  <1> QED BY <1>1, <1>2, Zenon

\* CallRw, Kick, AcquireDisk, Publish and SleepOnBuf leave the requests in
\* flight as they are.
LEMMA DriverMoves ==
  ASSUME TypeOK, NEW p \in Proc, CallRw(p) \/ AcquireDisk(p) \/ Publish(p) \/ SleepOnBuf(p)
  PROVE  /\ \A q \in Proc : Live(q)' <=> Live(q)
         /\ \A q \in Proc : Live(q) => req'[q] = req[q]
         /\ UNCHANGED <<NUM, head, free, ops, desc, info, busy, used, used_idx, avail_idx, cur>>
         /\ \E l \in Label : Moved(p, l)
  <1>1. p \in Actor
    BY Zenon DEF Actor
  <1>2. CASE CallRw(p)
    <2>1. Moved(p, "acquire") /\ pc[p] = "idle"
      BY <1>1, <1>2, MovedByGoto, Zenon DEF CallRw
    <2>2. \A q \in Proc \ {p} : req'[q] = req[q]
      BY <1>2, Zenon DEF CallRw, TypeOK
    <2> QED BY <1>2, <2>1, <2>2, Zenon DEF CallRw, Moved, Live, LiveAt, Actor, hypVars, Label
  <1>3. CASE AcquireDisk(p)
    <2>1. \/ pc[p] = "acquire" /\ Moved(p, "alloc")
          \/ pc[p] = "reacquire" /\ Moved(p, "await")
      BY <1>1, <1>3, MovedByGoto, Zenon DEF AcquireDisk
    <2> QED BY <1>3, <2>1, Zenon DEF AcquireDisk, Moved, Live, LiveAt, Actor, hypVars, Label
  <1>4. CASE Publish(p)
    <2>1. Moved(p, "notify") /\ pc[p] = "publish"
      BY <1>1, <1>4, MovedByGoto, Zenon DEF Publish
    <2> QED BY <1>4, <2>1, Zenon DEF Publish, Moved, Live, LiveAt, Actor, guestVars, hypVars, Label
  <1>5. CASE SleepOnBuf(p)
    <2>1. Moved(p, "buf_sleep") /\ pc[p] = "await"
      BY <1>1, <1>5, MovedByGoto, Zenon DEF SleepOnBuf
    <2> QED BY <1>5, <2>1, Zenon DEF SleepOnBuf, Moved, Live, LiveAt, Actor, hypVars, Label
  <1> QED BY <1>2, <1>3, <1>4, <1>5, Zenon

\* A CPU that only writes QUEUE_NOTIFY leaves the requests alone.
LEMMA KickMoves ==
  ASSUME TypeOK, NEW a \in Kicker, Kick(a)
  PROVE  /\ \A p \in Proc : pc'[p] = pc[p]
         /\ Moved(a, "notify") /\ pc[a] = "idle"
         /\ UNCHANGED <<NUM, req, head, free, ops, desc, info, busy, avail, used, used_idx, avail_idx, cur>>
  <1>1. a \in Actor /\ a \notin Proc
    BY RingAssumption, Zenon DEF Actor
  <1>2. Moved(a, "notify") /\ pc[a] = "idle"
    BY <1>1, MovedByGoto, Zenon DEF Kick
  <1> QED BY <1>1, <1>2, Zenon DEF Moved, Actor, Kick, hypVars

\* Chains stay whole.
LEMMA ChainsStep == DiskInv /\ [Next]_vars => ChainsOk'
  <1> SUFFICES ASSUME DiskInv, [Next]_vars
               PROVE  ChainsOk'
    BY Zenon
  <1>t. TypeOK /\ ChainsOk
    BY Zenon DEF DiskInv
  <1>1. ASSUME NEW p \in Proc, CallRw(p) \/ AcquireDisk(p) \/ Publish(p) \/ SleepOnBuf(p)
        PROVE  ChainsOk'
    BY <1>1, <1>t, DriverMoves, ChainsFrame, Zenon
  <1>2. ASSUME NEW p \in Proc, AllocFails(p) PROVE ChainsOk'
    BY <1>2, <1>t, AllocFailsKeeps, Zenon
  <1>3. ASSUME NEW p \in Proc, Format(p) PROVE ChainsOk'
    BY <1>3, <1>t, FormatBuilds, Zenon
  <1>4. ASSUME NEW p \in Proc, FreeChain(p) PROVE ChainsOk'
    BY <1>4, <1>t, FreeChainKeeps, Zenon
  <1>5. ASSUME NEW a \in Kicker, Kick(a) PROVE ChainsOk'
    <2>1. \A p \in Proc : Live(p)' => Live(p)
      BY <1>5, <1>t, KickMoves, Zenon DEF Live
    <2> QED BY <1>5, <1>t, <2>1, KickMoves, ChainsFrame, Zenon
  <1>6. ASSUME NEW a \in Actor, Notify(a) PROVE ChainsOk'
    BY <1>6, <1>t, NotifyMoves, NotifyInfo, ChainsFrame, Zenon
  <1>7. ASSUME Interrupt PROVE ChainsOk'
    BY <1>7, <1>t, InterruptMoves, ChainsFrame, Zenon
  <1>8. ASSUME UNCHANGED vars PROVE ChainsOk'
    BY <1>8, <1>t, ChainsFrame, Zenon DEF vars, guestVars, hypVars, Live
  <1> QED BY <1>1, <1>2, <1>3, <1>4, <1>5, <1>6, <1>7, <1>8, Zenon DEF Next, Driver

-----------------------------------------------------------------------------
(* What is on the rings                                                    *)

\* The owner of an outstanding head.
LEMMA HeadAtOwned ==
  ASSUME TypeOK, ChainsOk, NEW o \in 0 .. IdxMod - 1, NEW u \in 0 .. o, Window(o, u),
         NEW n \in 0 .. o - 1
  PROVE  /\ HeadAt(n) \in Idx \ free
         /\ \E p \in Proc : /\ Live(p) /\ pc[p] # "publish" /\ busy[p] /\ head[p] = HeadAt(n)
                            /\ info[HeadAt(n)].b = p
  <1>1. PICK p \in Proc : Live(p) /\ pc[p] # "publish" /\ busy[p] /\ head[p] = HeadAt(n)
    BY Zenon DEF Window
  <1> QED BY <1>1, LiveHead, Zenon

\* The completion virtio_disk_intr looks at is that of the oldest outstanding
\* request, which is served and waits.
LEMMA CompleteEffect ==
  ASSUME DiskInv, IntrComplete, NEW o \in 0 .. IdxMod - 1, NEW u \in 0 .. o, Window(o, u)
  PROVE  /\ u > 0
         /\ \E p \in Proc : /\ Live(p) /\ pc[p] # "publish" /\ busy[p]
                            /\ head[p] = HeadAt(0) /\ info[head[p]].status = 0
                            /\ busy' = [busy EXCEPT ![p] = FALSE]
  <1>1. TypeOK /\ ChainsOk
    BY Zenon DEF DiskInv
  <1>2. o \in Nat /\ u \in Nat /\ u <= o /\ 0 \in 0 .. IdxMod - 1
    BY <1>1, RingFacts
  <1>3. Pos(0) = used_idx
    BY <1>1, <1>2, PosFacts, Zenon
  <1>4. u # 0
    BY <1>3, Zenon DEF IntrComplete, Window
  <1>5. 0 \in 0 .. u - 1 /\ 0 \in 0 .. o - 1
    BY <1>2, <1>4
  <1>6. UsedId = HeadAt(0) /\ info[HeadAt(0)].status = 0
    BY <1>3, <1>5, Zenon DEF Window, UsedId
  <1>7. PICK p \in Proc : /\ Live(p) /\ pc[p] # "publish" /\ busy[p] /\ head[p] = HeadAt(0)
                          /\ info[HeadAt(0)].b = p
    BY <1>1, <1>5, HeadAtOwned, Zenon
  <1>8. busy' = [busy EXCEPT ![p] = FALSE]
    BY <1>6, <1>7, Zenon DEF IntrComplete
  <1>9. u > 0
    BY <1>2, <1>4
  <1>10. info[head[p]].status = 0
    BY <1>6, <1>7, Zenon
  <1> QED BY <1>7, <1>8, <1>9, <1>10, Zenon

\* Statuses and the slot of a request that is about to be published.
LEMMA StatusStep == DiskInv /\ [Next]_vars => StatusOk'
  <1> SUFFICES ASSUME DiskInv, [Next]_vars
               PROVE  StatusOk'
    BY Zenon
  <1>t. TypeOK /\ ChainsOk /\ StatusOk /\ LocksOk
    BY Zenon DEF DiskInv
  <1>w. PICK o \in 0 .. IdxMod - 1 : \E u \in 0 .. o : Window(o, u)
    BY Zenon DEF DiskInv, QueueOk
  <1>v. PICK u \in 0 .. o : Window(o, u)
    BY <1>w, Zenon
  <1>a. \A p \in Proc : p \in Actor
    BY Zenon DEF Actor
  <1>h. \A p, q \in Proc : pc[p] \in {"alloc", "publish"} /\ pc[q] = "publish" => p = q
    BY <1>t, OneHolder, Zenon DEF DiskHeldAt
  <1>1. ASSUME NEW p \in Proc, CallRw(p) \/ AcquireDisk(p) \/ SleepOnBuf(p)
        PROVE  StatusOk'
    <2>1. UNCHANGED avail
      BY <1>1, Zenon DEF CallRw, AcquireDisk, SleepOnBuf
    <2>2. \E l \in Label \ {"publish"} : Moved(p, l)
      BY <1>1, <1>t, <1>a, MovedByGoto, Zenon DEF CallRw, AcquireDisk, SleepOnBuf, Label
    <2>3. \A q \in Proc : pc'[q] = "publish" => pc[q] = "publish"
      BY <1>a, <2>2, Zenon DEF Moved
    <2> QED BY <1>1, <1>t, <2>1, <2>3, DriverMoves, StatusFrame, Zenon
  <1>2. ASSUME NEW p \in Proc, AllocFails(p) PROVE StatusOk'
    <2>1. MovedWaking(p, "free_sleep")
      BY <1>2, <1>t, <1>a, MovedByWakeFree, Zenon DEF AllocFails
    <2>2. \A q \in Proc : Live(q)' => Live(q) /\ (pc'[q] = "publish" => pc[q] = "publish")
      BY <2>1, <1>a, Zenon DEF MovedWaking, Live, LiveAt
    <2> QED BY <1>2, <1>t, <2>2, StatusFrame, Zenon DEF AllocFails, hypVars
  <1>3. ASSUME NEW p \in Proc, Format(p) PROVE StatusOk'
    <2>1. PICK i \in free : /\ head' = [head EXCEPT ![p] = i]
                            /\ info' = [info EXCEPT ![i] = [b |-> p, status |-> Unserved]]
                            /\ avail' = [avail EXCEPT !.ring[avail.idx % NUM] = i]
      BY <1>3, <1>t, FormatEffect, Zenon
    <2>2. Moved(p, "publish") /\ pc[p] = "alloc" /\ busy' = [busy EXCEPT ![p] = TRUE] /\ NUM' = NUM
      BY <1>3, <1>t, <1>a, MovedByGoto, Zenon DEF Format, hypVars
    <2>3. i \in Idx /\ avail.idx % NUM \in Idx
      BY <1>t, SlotOf, Zenon DEF TypeOK
    <2>4. /\ busy'[p] /\ head'[p] = i /\ info'[i].status = Unserved
          /\ avail'.idx = avail.idx /\ avail'.ring[avail.idx % NUM] = i
      BY <1>t, <2>1, <2>2, <2>3, Zenon DEF TypeOK, Ring
    <2>5. ASSUME NEW q \in Proc \ {p}, Live(q)'
          PROVE  /\ pc'[q] # "publish"
                 /\ ~busy'[q] => info'[head'[q]].status = 0
      <3>1. Live(q) /\ pc[q] # "publish" /\ pc'[q] # "publish"
        BY <1>a, <1>h, <2>2, <2>5, Zenon DEF Moved, Live
      <3>2. head'[q] = head[q] /\ busy'[q] = busy[q] /\ head[q] # i /\ head[q] \in Idx
        BY <1>t, <2>1, <2>2, <3>1, LiveHead, Zenon DEF TypeOK
      <3>3. info'[head[q]] = info[head[q]]
        BY <1>t, <2>1, <3>2, Zenon DEF TypeOK
      <3> QED BY <1>t, <3>1, <3>2, <3>3, Zenon DEF StatusOk
    <2> QED BY <2>2, <2>4, <2>5, Zenon DEF StatusOk
  <1>4. ASSUME NEW p \in Proc, Publish(p) PROVE StatusOk'
    <2>1. Moved(p, "notify") /\ pc[p] = "publish" /\ UNCHANGED <<busy, info, head>>
      BY <1>4, <1>t, <1>a, MovedByGoto, Zenon DEF Publish, guestVars
    <2>2. ASSUME NEW q \in Proc, Live(q)'
          PROVE  Live(q) /\ pc'[q] # "publish"
      BY <1>a, <1>h, <2>1, <2>2, Zenon DEF Moved, Live, LiveAt
    <2> QED BY <1>t, <2>1, <2>2, Zenon DEF StatusOk
  <1>5. ASSUME NEW p \in Proc, FreeChain(p) PROVE StatusOk'
    <2>1. MovedWaking(p, "idle")
      BY <1>5, <1>t, <1>a, MovedByWakeFree, Zenon DEF FreeChain
    <2>2. ASSUME NEW q \in Proc, Live(q)'
          PROVE  Live(q) /\ q # p /\ (pc'[q] = "publish" => pc[q] = "publish")
      BY <1>a, <2>1, <2>2, Zenon DEF MovedWaking, Live, LiveAt
    <2>3. UNCHANGED <<avail, busy, NUM>>
      BY <1>5, Zenon DEF FreeChain, hypVars
    <2>4. ASSUME NEW q \in Proc, Live(q)'
          PROVE  head'[q] = head[q] /\ info'[head[q]].status = info[head[q]].status
      <3>1. head'[q] = head[q]
        BY <1>5, <1>t, <2>2, <2>4, Zenon DEF FreeChain, TypeOK
      <3>2. info \in [Idx -> Info] /\ head[q] \in Idx
        BY <1>t, Zenon DEF TypeOK
      <3>3. info'[head[q]].status = info[head[q]].status
        BY <1>5, <3>2, Zenon DEF FreeChain, Info
      <3> QED BY <3>1, <3>3, Zenon
    <2> QED BY <1>t, <2>2, <2>3, <2>4, Zenon DEF StatusOk
  <1>6. ASSUME NEW a \in Kicker, Kick(a) PROVE StatusOk'
    <2>1. \A p \in Proc : Live(p)' => Live(p)
      BY <1>6, <1>t, KickMoves, Zenon DEF Live
    <2> QED BY <1>6, <1>t, <2>1, KickMoves, StatusFrame, Zenon
  <1>7. ASSUME NEW a \in Actor, Notify(a), ~Serve(a) PROVE StatusOk'
    <2>1. info' = info
      BY <1>7, Zenon DEF Notify, LockQueue, PutUsed, BumpUsed, AdvanceAvail, UnlockQueue, Signal, guestVars
    <2> QED BY <1>7, <1>t, <2>1, NotifyMoves, StatusFrame, Zenon
  <1>8. ASSUME NEW a \in Actor, Serve(a) PROVE StatusOk'
    <2>1. PICK p \in Proc : /\ Live(p) /\ pc[p] # "publish"
                            /\ info' = [info EXCEPT ![head[p]].status = 0]
      BY <1>8, <1>v, ServeEffect, Zenon
    <2>2. /\ \A q \in Proc : Live(q)' <=> Live(q)
          /\ \A q \in Proc : pc'[q] = "publish" <=> pc[q] = "publish"
          /\ UNCHANGED <<NUM, head, busy, avail>>
      BY <1>8, <1>t, NotifyMoves, Zenon DEF Notify
    <2>3. ASSUME NEW q \in Proc, Live(q)
          PROVE  /\ q # p => info'[head[q]].status = info[head[q]].status
                 /\ q = p => info'[head[q]].status = 0
      <3>1. q # p => head[q] # head[p]
        BY <1>t, <2>1, <2>3, HeadsApart, Zenon
      <3>2. info \in [Idx -> Info] /\ head[q] \in Idx /\ head[p] \in Idx
        BY <1>t, Zenon DEF TypeOK
      <3> QED BY <2>1, <3>1, <3>2, Zenon DEF Info
    <2> QED BY <1>t, <2>1, <2>2, <2>3, Zenon DEF StatusOk
  <1>9. ASSUME Interrupt, ~IntrComplete PROVE StatusOk'
    <2>1. busy' = busy
      BY <1>9, Zenon DEF Interrupt, InjectIrq, TakeIrq, IntrAcquire, IntrRelease, IntrEoi, guestVars
    <2>2. \A q \in Proc : pc'[q] = "publish" => pc[q] = "publish"
      BY <1>9, <1>t, <1>a, InterruptMoves, Zenon
    <2> QED BY <1>9, <1>t, <2>1, <2>2, InterruptMoves, StatusFrame, Zenon
  <1>10. ASSUME IntrComplete PROVE StatusOk'
    <2>1. PICK p \in Proc : /\ Live(p) /\ pc[p] # "publish" /\ info[head[p]].status = 0
                            /\ busy' = [busy EXCEPT ![p] = FALSE]
      BY <1>10, <1>v, CompleteEffect, Zenon
    <2>2. /\ \A q \in Proc : Live(q)' <=> Live(q)
          /\ UNCHANGED <<NUM, head, info, avail>>
          /\ \A q \in Proc : pc'[q] = "publish" => pc[q] = "publish"
      BY <1>10, <1>t, <1>a, InterruptMoves, Zenon DEF Interrupt
    <2>3. \A q \in Proc \ {p} : busy'[q] = busy[q]
      BY <2>1, <1>t, Zenon DEF TypeOK
    <2> QED BY <1>t, <2>1, <2>2, <2>3, Zenon DEF StatusOk
  <1>11. ASSUME UNCHANGED vars PROVE StatusOk'
    BY <1>11, <1>t, StatusFrame, Zenon DEF vars, guestVars, hypVars, Live
  <1> QED BY <1>1, <1>2, <1>3, <1>4, <1>5, <1>6, <1>7, <1>8, <1>9, <1>10, <1>11, Zenon DEF Next, Driver

\* Labels nobody enters or leaves.
LEMMA AtFrame ==
  ASSUME NEW l,
         \A a \in Actor : pc'[a] = pc[a] \/ (pc[a] # l /\ pc'[a] # l)
  PROVE  At(l)' <=> At(l)
  BY Zenon DEF At

\* Positions of the window's parts are positions of the window.
LEMMA Prefixes ==
  ASSUME NEW o \in Nat, NEW u \in Nat, u <= o
  PROVE  /\ \A n \in 0 .. u - 1 : n \in 0 .. o - 1
         /\ \A n \in u + 1 .. o - 1 : n \in 0 .. o - 1
         /\ u < o => u \in 0 .. o - 1
  OBVIOUS

\* The outstanding requests in their slots, after a step that keeps the ring
\* indices and what the slots hold.
LEMMA WindowKeeps ==
  ASSUME NEW o \in Nat, NEW u \in Nat, u <= o, Window(o, u),
         UNCHANGED <<NUM, used, used_idx, cur, avail.idx>>,
         Served' <=> Served, At("bump_used")' <=> At("bump_used"),
         \A n \in 0 .. o - 1 : /\ HeadAt(n)' = HeadAt(n)
                               /\ info'[HeadAt(n)].status = info[HeadAt(n)].status,
         \A n \in 0 .. o - 1 :
            \E q \in Proc : Live(q)' /\ pc'[q] # "publish" /\ busy'[q] /\ head'[q] = HeadAt(n)
  PROVE  Window(o, u)'
  <1>1. \A n : Pos(n)' = Pos(n)
    BY Zenon DEF Pos
  <1>2. avail'.idx = Pos(o)' /\ used'.idx = Pos(u)'
    BY <1>1, Zenon DEF Window
  <1>3. \A m, n \in 0 .. o - 1 : HeadAt(m)' = HeadAt(n)' => m = n
    <2>1. \A m, n \in 0 .. o - 1 : HeadAt(m) = HeadAt(n) => m = n
      BY Zenon DEF Window
    <2>2. ASSUME NEW m \in 0 .. o - 1, NEW n \in 0 .. o - 1, HeadAt(m)' = HeadAt(n)'
          PROVE  m = n
      <3>1. HeadAt(m)' = HeadAt(m) /\ HeadAt(n)' = HeadAt(n)
        BY Zenon
      <3>2. HeadAt(m) = HeadAt(n)
        BY <2>2, <3>1, Zenon
      <3> QED BY <2>1, <3>2, Zenon
    <2> QED BY <2>2, Zenon
  <1>4. \A n \in 0 .. u - 1 : info'[HeadAt(n)'].status = 0 /\ used'.ring[Pos(n)' % NUM'] = HeadAt(n)'
    <2>1. \A n \in 0 .. u - 1 : n \in 0 .. o - 1
      BY Prefixes, Zenon
    <2>2. \A n \in 0 .. u - 1 : info[HeadAt(n)].status = 0 /\ used.ring[Pos(n) % NUM] = HeadAt(n)
      BY Zenon DEF Window
    <2> QED BY <1>1, <2>1, <2>2, Zenon
  <1>5. \A n \in u + 1 .. o - 1 : info'[HeadAt(n)'].status = Unserved
    <2>1. \A n \in u + 1 .. o - 1 : n \in 0 .. o - 1
      BY Prefixes, Zenon
    <2>2. \A n \in u + 1 .. o - 1 : info[HeadAt(n)].status = Unserved
      BY Zenon DEF Window
    <2> QED BY <2>1, <2>2, Zenon
  <1>6. u < o => u \in 0 .. o - 1
    BY Prefixes, Zenon
  <1>7. u < o => info'[HeadAt(u)'].status = IF Served' THEN 0 ELSE Unserved
    <2>1. u < o => info[HeadAt(u)].status = IF Served THEN 0 ELSE Unserved
      BY Zenon DEF Window
    <2> QED BY <1>6, <2>1, Zenon
  <1>8. Served' => u < o /\ cur' = HeadAt(u)'
    BY <1>6, Zenon DEF Window
  <1>9. At("bump_used")' => used'.ring[Pos(u)' % NUM'] = cur'
    BY <1>1, Zenon DEF Window
  <1>10. \A n \in 0 .. o - 1 :
            \E q \in Proc : Live(q)' /\ pc'[q] # "publish" /\ busy'[q] /\ head'[q] = HeadAt(n)'
    BY Zenon
  <1> QED BY <1>2, <1>3, <1>4, <1>5, <1>7, <1>8, <1>9, <1>10, Zenon DEF Window

\* virtio_disk_rw fills the slot after those of the outstanding requests.
LEMMA FormatQueue ==
  ASSUME DiskInv, RingHasRoom, NEW p \in Proc, Format(p)
  PROVE  QueueOk'
  <1>t. TypeOK /\ ChainsOk /\ QueueOk /\ p \in Actor
    BY Zenon DEF DiskInv, Actor
  <1>w. PICK o \in 0 .. IdxMod - 1 : \E u \in 0 .. o : Window(o, u)
    BY Zenon DEF DiskInv, QueueOk
  <1>v. PICK u \in 0 .. o : Window(o, u)
    BY <1>w, Zenon
  <1>1. PICK i \in free : /\ head' = [head EXCEPT ![p] = i]
                          /\ info' = [info EXCEPT ![i] = [b |-> p, status |-> Unserved]]
                          /\ avail' = [avail EXCEPT !.ring[avail.idx % NUM] = i]
    BY <1>t, FormatEffect, Zenon
  <1>2. Moved(p, "publish") /\ pc[p] = "alloc" /\ busy' = [busy EXCEPT ![p] = TRUE]
    BY <1>t, MovedByGoto, Zenon DEF Format
  <1>3. UNCHANGED <<NUM, used, used_idx, avail_idx, cur>>
    BY Zenon DEF Format, hypVars
  <1>4. /\ IdxMod \in Nat /\ NUM \in Nat /\ o \in Nat /\ u \in Nat /\ u <= o /\ i \in Idx
        /\ avail.idx % NUM \in Idx
    <2>1. IdxMod \in Nat /\ NUM \in Nat /\ o \in Nat /\ u \in Nat /\ u <= o
      BY <1>t, RingFacts
    <2>2. i \in Idx
      BY <1>t, Zenon DEF TypeOK
    <2>3. avail.idx % NUM \in Idx
      BY <1>t, SlotOf, Zenon
    <2> QED BY <2>1, <2>2, <2>3, Zenon
  <1>5. \A n \in 0 .. o - 1 : HeadAt(n) \in Idx \ free
    BY <1>t, <1>v, HeadAtOwned, Zenon
  <1>6. o < NUM
    <2>1. \A n \in 0 .. o - 1 : HeadAt(n) \notin {i, i}
      BY <1>5, Zenon
    <2> QED BY <1>v, <1>4, <2>1, Zenon DEF RingHasRoom
  <1>7. \A n : Pos(n)' = Pos(n)
    BY <1>3, Zenon DEF Pos
  <1>8. avail.idx = Pos(o) /\ avail'.idx = Pos(o)
    BY <1>t, <1>1, <1>v, Zenon DEF Window, TypeOK, Ring
  <1>9. ASSUME NEW n \in 0 .. o - 1
        PROVE  HeadAt(n)' = HeadAt(n) /\ info'[HeadAt(n)] = info[HeadAt(n)]
    <2>1. n \in 0 .. IdxMod - 1 /\ n < o /\ o - n < NUM
      BY <1>4, <1>6
    <2>2. Pos(n) % NUM # Pos(o) % NUM /\ Pos(n) % NUM \in Idx
      BY <1>t, <2>1, SlotApart, PosFacts, Zenon
    <2>3. avail'.ring[Pos(n) % NUM] = avail.ring[Pos(n) % NUM]
      BY <1>t, <1>1, <1>4, <1>8, <2>2 DEF TypeOK, Ring
    <2>4. HeadAt(n)' = HeadAt(n)
      BY <1>3, <1>7, <2>3, Zenon DEF HeadAt
    <2>5. info'[HeadAt(n)] = info[HeadAt(n)]
      BY <1>t, <1>1, <1>5, Zenon DEF TypeOK
    <2> QED BY <2>4, <2>5, Zenon
  <1>10. At("put_used")' = At("put_used") /\ At("bump_used")' = At("bump_used") /\ At("advance")' = At("advance")
    BY <1>2, AtFrame, Zenon DEF Moved, At
  <1>11. Served' = Served
    BY <1>10, Zenon DEF Served
  <1>12. ASSUME NEW n \in 0 .. o - 1
         PROVE  \E q \in Proc : Live(q)' /\ pc'[q] # "publish" /\ busy'[q] /\ head'[q] = HeadAt(n)'
    <2>1. PICK q \in Proc : Live(q) /\ pc[q] # "publish" /\ busy[q] /\ head[q] = HeadAt(n)
      BY <1>v, Zenon DEF Window
    <2>2. q # p /\ q \in Actor
      BY <1>2, <2>1, Zenon DEF Live, LiveAt, Actor
    <2>3. pc'[q] = pc[q] /\ busy'[q] = busy[q] /\ head'[q] = head[q]
      BY <1>t, <1>1, <1>2, <2>2, Zenon DEF Moved, TypeOK
    <2> QED BY <1>9, <2>1, <2>3, Zenon DEF Live
  <1>13. Window(o, u)'
    <2>1. \A n \in 0 .. o - 1 : /\ HeadAt(n)' = HeadAt(n)
                                /\ info'[HeadAt(n)].status = info[HeadAt(n)].status
      BY <1>9, Zenon
    <2>2. \A n \in 0 .. o - 1 :
            \E q \in Proc : Live(q)' /\ pc'[q] # "publish" /\ busy'[q] /\ head'[q] = HeadAt(n)
      BY <1>9, <1>12, Zenon
    <2> QED BY <1>v, <1>3, <1>4, <1>8, <1>10, <1>11, <2>1, <2>2, WindowKeeps, Zenon
  <1>14. used'.idx = IF At("advance")' THEN Inc16(avail_idx') ELSE avail_idx'
    BY <1>t, <1>3, <1>10, Zenon DEF QueueOk
  <1> QED BY <1>13, <1>14, Zenon DEF QueueOk

\* avail->idx takes the request in, and the ring has room for it.
LEMMA PublishQueue ==
  ASSUME DiskInv, RingHasRoom, NEW p \in Proc, Publish(p)
  PROVE  QueueOk'
  <1>t. TypeOK /\ LocksOk /\ ChainsOk /\ StatusOk /\ QueueOk
    BY Zenon DEF DiskInv
  <1>w. PICK o \in 0 .. IdxMod - 1 : \E u \in 0 .. o : Window(o, u)
    BY Zenon DEF DiskInv, QueueOk
  <1>v. PICK u \in 0 .. o : Window(o, u)
    BY <1>w, Zenon
  <1>n. IdxMod \in Nat /\ NUM \in Nat /\ NUM <= IdxMod /\ o \in Nat /\ u \in Nat /\ u <= o /\ o < IdxMod
    BY <1>t, RingFacts
  <1>c. /\ avail.idx = Pos(o) /\ used.idx = Pos(u)
        /\ Served => u < o /\ cur = HeadAt(u)
        /\ At("bump_used") => used.ring[Pos(u) % NUM] = cur
        /\ u < o => info[HeadAt(u)].status = IF Served THEN 0 ELSE Unserved
    BY <1>v, Zenon DEF Window
  <1>d. \A m, n \in 0 .. o - 1 : HeadAt(m) = HeadAt(n) => m = n
    BY <1>v, Zenon DEF Window
  <1>e. /\ \A n \in 0 .. u - 1 : info[HeadAt(n)].status = 0 /\ used.ring[Pos(n) % NUM] = HeadAt(n)
        /\ \A n \in u + 1 .. o - 1 : info[HeadAt(n)].status = Unserved
    BY <1>v, Zenon DEF Window
  <1>o. \A n \in 0 .. o - 1 :
          \E q \in Proc : Live(q) /\ pc[q] # "publish" /\ busy[q] /\ head[q] = HeadAt(n)
    BY <1>v, Zenon DEF Window
  <1>1. Moved(p, "notify") /\ pc[p] = "publish" /\ p \in Actor
    BY <1>t, MovedByGoto, Zenon DEF Publish, Actor
  <1>2. UNCHANGED <<NUM, used, used_idx, avail_idx, cur, busy, head, info>>
    BY Zenon DEF Publish, guestVars, hypVars
  <1>3. avail' = [avail EXCEPT !.idx = Inc16(avail.idx)]
    BY Zenon DEF Publish
  <1>4. avail'.idx = Inc16(avail.idx) /\ avail'.ring = avail.ring
    BY <1>t, <1>3, Zenon DEF TypeOK, Ring
  <1>5. Live(p) /\ busy[p] /\ info[head[p]].status = Unserved /\ HeadAt(o) = head[p]
    <2>1. Live(p)
      BY <1>1, Zenon DEF Live, LiveAt
    <2> QED BY <1>t, <1>1, <1>c, <2>1, Zenon DEF StatusOk, HeadAt
  <1>6. PICK i, j, k \in Idx \ free : Built(p, i, j, k)
    BY <1>t, <1>5, Zenon DEF ChainsOk
  <1>7. head[p] = i /\ i # j
    <2>1. head[p] = i
      BY <1>6, Zenon DEF Built
    <2>2. i # j
      BY <1>6, ChainOf, Zenon
    <2> QED BY <2>1, <2>2, Zenon
  <1>8. ASSUME NEW n \in 0 .. o - 1
        PROVE  HeadAt(n) \notin {i, j}
    <2>1. PICK q \in Proc : Live(q) /\ pc[q] # "publish" /\ head[q] = HeadAt(n)
      BY <1>o, Zenon
    <2>2. q # p
      BY <1>1, <2>1, Zenon
    <2>3. PICK l, m, r \in Idx \ free : Built(q, l, m, r)
      BY <1>t, <2>1, Zenon DEF ChainsOk
    <2>4. {i, j, k} \cap {l, m, r} = {}
      BY <1>6, <2>2, <2>3, ChainsApart
    <2>5. head[q] = l
      BY <2>3, Zenon DEF Built
    <2> QED BY <2>1, <2>3, <2>4, <2>5, Zenon
  <1>9. o + 1 < NUM
    BY <1>v, <1>6, <1>7, <1>8, Zenon DEF RingHasRoom
  <1>10. \A n : Pos(n)' = Pos(n) /\ HeadAt(n)' = HeadAt(n)
    BY <1>2, <1>4, Zenon DEF Pos, HeadAt
  <1>11. avail'.idx = Pos(o + 1)
    <2>1. o \in 0 .. IdxMod - 2
      BY <1>n, <1>9
    <2> QED BY <1>t, <1>4, <1>c, <2>1, PosInc, Zenon
  <1>12. /\ At("put_used")' <=> At("put_used")
         /\ At("bump_used")' <=> At("bump_used")
         /\ At("advance")' <=> At("advance")
    BY <1>1, AtFrame, Zenon DEF Moved
  <1>13. Served' <=> Served
    BY <1>12, Zenon DEF Served
  <1>14. PICK w \in Nat : w = o + 1
    BY <1>n
  <1>15. Window(w, u)'
    <2>1. avail'.idx = Pos(w)' /\ used'.idx = Pos(u)'
      BY <1>2, <1>10, <1>11, <1>14, <1>c, Zenon
    <2>2. \A n \in 0 .. w - 1 : n \in 0 .. o - 1 \/ n = o
      BY <1>n, <1>14
    <2>3. \A n \in 0 .. w - 1 :
            \E q \in Proc : Live(q)' /\ pc'[q] # "publish" /\ busy'[q] /\ head'[q] = HeadAt(n)'
      <3>1. Live(p)' /\ pc'[p] # "publish" /\ busy'[p] /\ head'[p] = HeadAt(o)'
        BY <1>1, <1>2, <1>5, <1>10, Zenon DEF Moved, Live, LiveAt
      <3>2. ASSUME NEW n \in 0 .. o - 1
            PROVE  \E q \in Proc : Live(q)' /\ pc'[q] # "publish" /\ busy'[q] /\ head'[q] = HeadAt(n)'
        <4>1. PICK q \in Proc : Live(q) /\ pc[q] # "publish" /\ busy[q] /\ head[q] = HeadAt(n)
          BY <1>o, Zenon
        <4>2. pc'[q] = pc[q]
          BY <1>1, <4>1, Zenon DEF Moved, Actor
        <4> QED BY <1>2, <1>10, <4>1, <4>2, Zenon DEF Live
      <3> QED BY <2>2, <3>1, <3>2, Zenon
    <2>4. \A m, n \in 0 .. w - 1 : HeadAt(m)' = HeadAt(n)' => m = n
      <3>1. \A n \in 0 .. o - 1 : HeadAt(n) # HeadAt(o)
        BY <1>5, <1>7, <1>8, Zenon
      <3> QED BY <1>10, <1>d, <2>2, <3>1, Zenon
    <2>5. \A n \in 0 .. u - 1 : info'[HeadAt(n)'].status = 0 /\ used'.ring[Pos(n)' % NUM'] = HeadAt(n)'
      BY <1>2, <1>10, <1>e, Zenon
    <2>6. \A n \in u + 1 .. w - 1 : info'[HeadAt(n)'].status = Unserved
      <3>1. \A n \in u + 1 .. w - 1 : n \in u + 1 .. o - 1 \/ n = o
        BY <1>n, <1>14
      <3> QED BY <1>2, <1>5, <1>10, <1>e, <3>1, Zenon
    <2>7. u < w => info'[HeadAt(u)'].status = IF Served' THEN 0 ELSE Unserved
      <3>1. u < o \/ u = o
        BY <1>n
      <3>2. CASE u < o
        BY <1>2, <1>10, <1>13, <1>c, <3>2, Zenon
      <3>3. CASE u = o
        <4>1. ~(u < o)
          BY <1>n, <3>3
        <4>2. ~Served
          BY <1>c, <4>1, Zenon
        <4> QED BY <1>2, <1>5, <1>10, <1>13, <3>3, <4>2, Zenon
      <3> QED BY <3>1, <3>2, <3>3, Zenon
    <2>8. Served' => u < w /\ cur' = HeadAt(u)'
      <3>1. u < w
        BY <1>n, <1>14
      <3> QED BY <1>2, <1>10, <1>13, <1>c, <3>1, Zenon
    <2>9. At("bump_used")' => used'.ring[Pos(u)' % NUM'] = cur'
      BY <1>2, <1>10, <1>12, <1>c, Zenon
    <2> QED BY <2>1, <2>3, <2>4, <2>5, <2>6, <2>7, <2>8, <2>9, Zenon DEF Window
  <1>16. used'.idx = IF At("advance")' THEN Inc16(avail_idx') ELSE avail_idx'
    BY <1>t, <1>2, <1>12, Zenon DEF QueueOk
  <1>17. w \in 0 .. IdxMod - 1 /\ u \in 0 .. w
    BY <1>n, <1>9, <1>14
  <1> QED BY <1>15, <1>16, <1>17, Zenon DEF QueueOk

\* A request that returns is no longer outstanding.
LEMMA FreeChainQueue ==
  ASSUME DiskInv, NEW p \in Proc, FreeChain(p)
  PROVE  QueueOk'
  <1>t. TypeOK /\ LocksOk /\ ChainsOk /\ StatusOk /\ QueueOk
    BY Zenon DEF DiskInv
  <1>w. PICK o \in 0 .. IdxMod - 1 : \E u \in 0 .. o : Window(o, u)
    BY Zenon DEF DiskInv, QueueOk
  <1>v. PICK u \in 0 .. o : Window(o, u)
    BY <1>w, Zenon
  <1>n. IdxMod \in Nat /\ NUM \in Nat /\ NUM <= IdxMod /\ o \in Nat /\ u \in Nat /\ u <= o /\ o < IdxMod
    BY <1>t, RingFacts
  <1>c. /\ avail.idx = Pos(o) /\ used.idx = Pos(u)
        /\ Served => u < o /\ cur = HeadAt(u)
        /\ At("bump_used") => used.ring[Pos(u) % NUM] = cur
        /\ u < o => info[HeadAt(u)].status = IF Served THEN 0 ELSE Unserved
    BY <1>v, Zenon DEF Window
  <1>d. \A m, n \in 0 .. o - 1 : HeadAt(m) = HeadAt(n) => m = n
    BY <1>v, Zenon DEF Window
  <1>e. /\ \A n \in 0 .. u - 1 : info[HeadAt(n)].status = 0 /\ used.ring[Pos(n) % NUM] = HeadAt(n)
        /\ \A n \in u + 1 .. o - 1 : info[HeadAt(n)].status = Unserved
    BY <1>v, Zenon DEF Window
  <1>o. \A n \in 0 .. o - 1 :
          \E q \in Proc : Live(q) /\ pc[q] # "publish" /\ busy[q] /\ head[q] = HeadAt(n)
    BY <1>v, Zenon DEF Window
  <1>1. MovedWaking(p, "idle") /\ pc[p] = "await" /\ ~busy[p]
    BY <1>t, MovedByWakeFree, Zenon DEF FreeChain, Actor
  <1>2. UNCHANGED <<NUM, used, used_idx, avail_idx, cur, busy, avail>>
    BY Zenon DEF FreeChain, hypVars
  <1>3. \A n : HeadAt(n)' = HeadAt(n)
    BY <1>2, Zenon DEF Pos, HeadAt
  <1>4. /\ At("put_used")' <=> At("put_used")
        /\ At("bump_used")' <=> At("bump_used")
        /\ At("advance")' <=> At("advance")
    BY <1>1, AtFrame, Zenon DEF MovedWaking
  <1>5. Served' <=> Served
    BY <1>4, Zenon DEF Served
  <1>6. \A n \in 0 .. o - 1 : HeadAt(n)' = HeadAt(n) /\ info'[HeadAt(n)].status = info[HeadAt(n)].status
    <2>1. \A n \in 0 .. o - 1 : HeadAt(n) \in Idx
      BY <1>t, <1>v, HeadAtOwned, Zenon
    <2>2. info \in [Idx -> Info] /\ info' = [info EXCEPT ![head[p]].b = Nobody]
      BY <1>t, Zenon DEF FreeChain, TypeOK
    <2>3. \A x \in Idx : info'[x].status = info[x].status
      BY <2>2, Zenon DEF Info
    <2> QED BY <1>3, <2>1, <2>3, Zenon
  <1>7. ASSUME NEW n \in 0 .. o - 1
        PROVE  \E q \in Proc : Live(q)' /\ pc'[q] # "publish" /\ busy'[q] /\ head'[q] = HeadAt(n)
    <2>1. PICK q \in Proc : Live(q) /\ pc[q] # "publish" /\ busy[q] /\ head[q] = HeadAt(n)
      BY <1>o, Zenon
    <2>2. q # p
      BY <1>1, <2>1, Zenon
    <2>3. pc'[q] = pc[q]
      BY <1>1, <2>1, <2>2, Zenon DEF MovedWaking, Live, LiveAt, Actor
    <2>4. head'[q] = head[q]
      BY <1>t, <2>2, Zenon DEF FreeChain, TypeOK
    <2> QED BY <1>2, <2>1, <2>3, <2>4, Zenon DEF Live
  <1>8. Window(o, u)'
    BY <1>v, <1>n, <1>2, <1>4, <1>5, <1>6, <1>7, WindowKeeps, Zenon
  <1>9. used'.idx = IF At("advance")' THEN Inc16(avail_idx') ELSE avail_idx'
    BY <1>t, <1>2, <1>4, Zenon DEF QueueOk
  <1> QED BY <1>8, <1>9, Zenon DEF QueueOk

\* The handler serves the first request that is not complete.
LEMMA ServeQueue ==
  ASSUME DiskInv, NEW a \in Actor, Serve(a)
  PROVE  QueueOk'
  <1>t. TypeOK /\ LocksOk /\ ChainsOk /\ StatusOk /\ QueueOk
    BY Zenon DEF DiskInv
  <1>w. PICK o \in 0 .. IdxMod - 1 : \E u \in 0 .. o : Window(o, u)
    BY Zenon DEF DiskInv, QueueOk
  <1>v. PICK u \in 0 .. o : Window(o, u)
    BY <1>w, Zenon
  <1>n. IdxMod \in Nat /\ NUM \in Nat /\ NUM <= IdxMod /\ o \in Nat /\ u \in Nat /\ u <= o /\ o < IdxMod
    BY <1>t, RingFacts
  <1>c. /\ avail.idx = Pos(o) /\ used.idx = Pos(u)
        /\ Served => u < o /\ cur = HeadAt(u)
        /\ At("bump_used") => used.ring[Pos(u) % NUM] = cur
        /\ u < o => info[HeadAt(u)].status = IF Served THEN 0 ELSE Unserved
    BY <1>v, Zenon DEF Window
  <1>d. \A m, n \in 0 .. o - 1 : HeadAt(m) = HeadAt(n) => m = n
    BY <1>v, Zenon DEF Window
  <1>e. /\ \A n \in 0 .. u - 1 : info[HeadAt(n)].status = 0 /\ used.ring[Pos(n) % NUM] = HeadAt(n)
        /\ \A n \in u + 1 .. o - 1 : info[HeadAt(n)].status = Unserved
    BY <1>v, Zenon DEF Window
  <1>o. \A n \in 0 .. o - 1 :
          \E q \in Proc : Live(q) /\ pc[q] # "publish" /\ busy[q] /\ head[q] = HeadAt(n)
    BY <1>v, Zenon DEF Window
  <1>1. Moved(a, "put_used") /\ pc[a] = "loop"
    BY <1>t, MovedByGoto, Zenon DEF Serve
  <1>2. UNCHANGED <<NUM, avail, used, used_idx, avail_idx>>
    BY Zenon DEF Serve
  <1>3. \A n : Pos(n)' = Pos(n) /\ HeadAt(n)' = HeadAt(n)
    BY <1>2, Zenon DEF Pos, HeadAt
  <1>4. u < o /\ ~Served /\ ~At("advance")
    BY <1>v, ServeEffect, Zenon
  <1>5. cur' = HeadAt(u) /\ info' = [info EXCEPT ![HeadAt(u)].status = 0]
    BY <1>v, ServeEffect, Zenon
  <1>6. Served' /\ ~At("bump_used")' /\ ~At("advance")'
    <2>1. At("put_used")'
      BY <1>1, Zenon DEF Moved, At
    <2>2. ~At("bump_used") /\ ~At("advance")
      BY <1>4, Zenon DEF Served
    <2> QED BY <1>1, <2>1, <2>2, Zenon DEF Moved, At, Served
  <1>7. \A n \in 0 .. o - 1 : /\ n = u => info'[HeadAt(n)].status = 0
                              /\ n # u => info'[HeadAt(n)].status = info[HeadAt(n)].status
    <2>1. \A n \in 0 .. o - 1 : HeadAt(n) \in Idx
      BY <1>t, <1>v, HeadAtOwned, Zenon
    <2>2. u \in 0 .. o - 1
      BY <1>n, <1>4
    <2>3. info \in [Idx -> Info]
      BY <1>t, Zenon DEF TypeOK
    <2>4. \A x \in Idx : info'[x].status = IF x = HeadAt(u) THEN 0 ELSE info[x].status
      BY <1>5, <2>1, <2>2, <2>3, Zenon DEF Info
    <2> QED BY <1>d, <2>1, <2>2, <2>4, Zenon
  <1>8. \A n \in 0 .. o - 1 :
            \E q \in Proc : Live(q)' /\ pc'[q] # "publish" /\ busy'[q] /\ head'[q] = HeadAt(n)'
    <2>1. /\ \A q \in Proc : Live(q)' <=> Live(q)
          /\ \A q \in Proc : pc'[q] = "publish" <=> pc[q] = "publish"
          /\ UNCHANGED <<head, busy>>
      BY <1>t, NotifyMoves, Zenon DEF Notify
    <2> QED BY <1>o, <1>3, <2>1, Zenon
  <1>9. Window(o, u)'
    <2>1. avail'.idx = Pos(o)' /\ used'.idx = Pos(u)'
      BY <1>2, <1>3, <1>c, Zenon
    <2>2. \A m, n \in 0 .. o - 1 : HeadAt(m)' = HeadAt(n)' => m = n
      BY <1>3, <1>d, Zenon
    <2>3. \A n \in 0 .. u - 1 : info'[HeadAt(n)'].status = 0 /\ used'.ring[Pos(n)' % NUM'] = HeadAt(n)'
      <3>1. \A n \in 0 .. u - 1 : n \in 0 .. o - 1 /\ n # u
        BY <1>n
      <3> QED BY <1>2, <1>3, <1>7, <1>e, <3>1, Zenon
    <2>4. \A n \in u + 1 .. o - 1 : info'[HeadAt(n)'].status = Unserved
      <3>1. \A n \in u + 1 .. o - 1 : n \in 0 .. o - 1 /\ n # u
        BY <1>n
      <3> QED BY <1>3, <1>7, <1>e, <3>1, Zenon
    <2>5. u \in 0 .. o - 1
      BY <1>n, <1>4
    <2>6. info'[HeadAt(u)'].status = 0
      BY <1>3, <1>7, <2>5, Zenon
    <2>7. cur' = HeadAt(u)'
      BY <1>3, <1>5, Zenon
    <2> QED BY <1>4, <1>6, <1>8, <2>1, <2>2, <2>3, <2>4, <2>6, <2>7, Zenon DEF Window
  <1>10. used'.idx = avail_idx'
    BY <1>t, <1>2, <1>4, Zenon DEF QueueOk
  <1> QED BY <1>6, <1>9, <1>10, Zenon DEF QueueOk

\* Its head goes into the next slot of the used ring.
LEMMA PutUsedQueue ==
  ASSUME DiskInv, RingHasRoom, NEW a \in Actor, PutUsed(a)
  PROVE  QueueOk'
  <1>t. TypeOK /\ LocksOk /\ ChainsOk /\ StatusOk /\ QueueOk
    BY Zenon DEF DiskInv
  <1>w. PICK o \in 0 .. IdxMod - 1 : \E u \in 0 .. o : Window(o, u)
    BY Zenon DEF DiskInv, QueueOk
  <1>v. PICK u \in 0 .. o : Window(o, u)
    BY <1>w, Zenon
  <1>n. IdxMod \in Nat /\ NUM \in Nat /\ NUM <= IdxMod /\ o \in Nat /\ u \in Nat /\ u <= o /\ o < IdxMod
    BY <1>t, RingFacts
  <1>c. /\ avail.idx = Pos(o) /\ used.idx = Pos(u)
        /\ Served => u < o /\ cur = HeadAt(u)
        /\ At("bump_used") => used.ring[Pos(u) % NUM] = cur
        /\ u < o => info[HeadAt(u)].status = IF Served THEN 0 ELSE Unserved
    BY <1>v, Zenon DEF Window
  <1>d. \A m, n \in 0 .. o - 1 : HeadAt(m) = HeadAt(n) => m = n
    BY <1>v, Zenon DEF Window
  <1>e. /\ \A n \in 0 .. u - 1 : info[HeadAt(n)].status = 0 /\ used.ring[Pos(n) % NUM] = HeadAt(n)
        /\ \A n \in u + 1 .. o - 1 : info[HeadAt(n)].status = Unserved
    BY <1>v, Zenon DEF Window
  <1>o. \A n \in 0 .. o - 1 :
          \E q \in Proc : Live(q) /\ pc[q] # "publish" /\ busy[q] /\ head[q] = HeadAt(n)
    BY <1>v, Zenon DEF Window
  <1>1. Moved(a, "bump_used") /\ pc[a] = "put_used"
    BY <1>t, MovedByGoto, Zenon DEF PutUsed
  <1>2. UNCHANGED <<NUM, avail, used_idx, avail_idx, cur, info>>
    BY Zenon DEF PutUsed, guestVars, hypVars
  <1>3. \A n : Pos(n)' = Pos(n) /\ HeadAt(n)' = HeadAt(n)
    BY <1>2, Zenon DEF Pos, HeadAt
  <1>4. At("put_used") /\ ~At("bump_used") /\ ~At("advance")
    BY <1>t, <1>1, OneServer, Zenon DEF QueueHeldAt
  <1>5. At("bump_used")' /\ ~At("advance")'
    BY <1>1, <1>4, Zenon DEF Moved, At
  <1>6. Served /\ Served' /\ u < o /\ cur = HeadAt(u)
    BY <1>4, <1>5, <1>c, Zenon DEF Served
  <1>7. o <= NUM
    BY <1>v, Zenon DEF RingHasRoom
  <1>8. Pos(u) % NUM \in Idx
    <2>1. u \in 0 .. IdxMod - 1
      BY <1>n
    <2> QED BY <1>t, <2>1, PosFacts, Zenon
  <1>9. /\ used'.idx = used.idx /\ used'.ring[Pos(u) % NUM] = cur
        /\ \A x \in Idx \ {Pos(u) % NUM} : used'.ring[x] = used.ring[x]
    <2>1. used \in Ring /\ used' = [used EXCEPT !.ring[Pos(u) % NUM] = cur]
      BY <1>t, <1>c, Zenon DEF PutUsed, TypeOK
    <2> QED BY <1>8, <2>1, Zenon DEF Ring
  <1>10. \A n \in 0 .. u - 1 : used'.ring[Pos(n) % NUM] = used.ring[Pos(n) % NUM]
    <2> SUFFICES ASSUME NEW n \in 0 .. u - 1
                 PROVE  used'.ring[Pos(n) % NUM] = used.ring[Pos(n) % NUM]
      BY Zenon
    <2>1. n \in 0 .. IdxMod - 1 /\ u \in 0 .. IdxMod - 1 /\ n < u /\ u - n < NUM
      BY <1>n, <1>6, <1>7
    <2>2. Pos(n) % NUM \in Idx /\ Pos(n) % NUM # Pos(u) % NUM
      BY <1>t, <2>1, PosFacts, SlotApart, Zenon
    <2> QED BY <1>9, <2>2, Zenon
  <1>11. \A n \in 0 .. o - 1 :
            \E q \in Proc : Live(q)' /\ pc'[q] # "publish" /\ busy'[q] /\ head'[q] = HeadAt(n)'
    <2>1. /\ \A q \in Proc : Live(q)' <=> Live(q)
          /\ \A q \in Proc : pc'[q] = "publish" <=> pc[q] = "publish"
          /\ UNCHANGED <<head, busy>>
      BY <1>t, NotifyMoves, Zenon DEF Notify
    <2> QED BY <1>o, <1>3, <2>1, Zenon
  <1>12. Window(o, u)'
    <2>1. avail'.idx = Pos(o)' /\ used'.idx = Pos(u)'
      BY <1>2, <1>3, <1>9, <1>c, Zenon
    <2>2. \A m, n \in 0 .. o - 1 : HeadAt(m)' = HeadAt(n)' => m = n
      BY <1>3, <1>d, Zenon
    <2>3. \A n \in 0 .. u - 1 : info'[HeadAt(n)'].status = 0 /\ used'.ring[Pos(n)' % NUM'] = HeadAt(n)'
      BY <1>2, <1>3, <1>10, <1>e, Zenon
    <2>4. \A n \in u + 1 .. o - 1 : info'[HeadAt(n)'].status = Unserved
      BY <1>2, <1>3, <1>e, Zenon
    <2>5. info'[HeadAt(u)'].status = 0 /\ cur' = HeadAt(u)' /\ used'.ring[Pos(u)' % NUM'] = cur'
      BY <1>2, <1>3, <1>6, <1>9, <1>c, Zenon
    <2> QED BY <1>6, <1>11, <2>1, <2>2, <2>3, <2>4, <2>5, Zenon DEF Window
  <1>13. used'.idx = avail_idx'
    BY <1>t, <1>2, <1>4, <1>9, Zenon DEF QueueOk
  <1> QED BY <1>5, <1>12, <1>13, Zenon DEF QueueOk

\* used->idx completes it.
LEMMA BumpUsedQueue ==
  ASSUME DiskInv, NEW a \in Actor, BumpUsed(a)
  PROVE  QueueOk'
  <1>t. TypeOK /\ LocksOk /\ ChainsOk /\ StatusOk /\ QueueOk
    BY Zenon DEF DiskInv
  <1>w. PICK o \in 0 .. IdxMod - 1 : \E u \in 0 .. o : Window(o, u)
    BY Zenon DEF DiskInv, QueueOk
  <1>v. PICK u \in 0 .. o : Window(o, u)
    BY <1>w, Zenon
  <1>n. IdxMod \in Nat /\ NUM \in Nat /\ NUM <= IdxMod /\ o \in Nat /\ u \in Nat /\ u <= o /\ o < IdxMod
    BY <1>t, RingFacts
  <1>c. /\ avail.idx = Pos(o) /\ used.idx = Pos(u)
        /\ Served => u < o /\ cur = HeadAt(u)
        /\ At("bump_used") => used.ring[Pos(u) % NUM] = cur
        /\ u < o => info[HeadAt(u)].status = IF Served THEN 0 ELSE Unserved
    BY <1>v, Zenon DEF Window
  <1>d. \A m, n \in 0 .. o - 1 : HeadAt(m) = HeadAt(n) => m = n
    BY <1>v, Zenon DEF Window
  <1>e. /\ \A n \in 0 .. u - 1 : info[HeadAt(n)].status = 0 /\ used.ring[Pos(n) % NUM] = HeadAt(n)
        /\ \A n \in u + 1 .. o - 1 : info[HeadAt(n)].status = Unserved
    BY <1>v, Zenon DEF Window
  <1>o. \A n \in 0 .. o - 1 :
          \E q \in Proc : Live(q) /\ pc[q] # "publish" /\ busy[q] /\ head[q] = HeadAt(n)
    BY <1>v, Zenon DEF Window
  <1>1. Moved(a, "advance") /\ pc[a] = "bump_used"
    BY <1>t, MovedByGoto, Zenon DEF BumpUsed
  <1>2. UNCHANGED <<NUM, avail, used_idx, avail_idx, cur, info>>
    BY Zenon DEF BumpUsed, guestVars, hypVars
  <1>3. \A n : Pos(n)' = Pos(n) /\ HeadAt(n)' = HeadAt(n)
    BY <1>2, Zenon DEF Pos, HeadAt
  <1>4. At("bump_used") /\ ~At("put_used") /\ ~At("advance")
    BY <1>t, <1>1, OneServer, Zenon DEF QueueHeldAt
  <1>5. At("advance")' /\ ~At("put_used")' /\ ~At("bump_used")'
    <2>1. \A b \in Actor : pc[b] \in QueueHeldAt => b = a
      BY <1>t, <1>1, OneHolder, Zenon DEF QueueHeldAt
    <2> QED BY <1>1, <2>1, Zenon DEF Moved, At, QueueHeldAt
  <1>6. Served /\ ~Served' /\ u < o /\ cur = HeadAt(u)
    BY <1>4, <1>5, <1>c, Zenon DEF Served
  <1>7. used'.idx = Inc16(used.idx) /\ used'.ring = used.ring
    BY <1>t, Zenon DEF BumpUsed, TypeOK, Ring
  <1>8. PICK w \in Nat : w = u + 1 /\ w <= o
    BY <1>n, <1>6
  <1>9. used'.idx = Pos(w)
    <2>1. u \in 0 .. IdxMod - 2
      BY <1>n, <1>6
    <2> QED BY <1>t, <1>7, <1>8, <1>c, <2>1, PosInc, Zenon
  <1>10. \A n \in 0 .. o - 1 :
            \E q \in Proc : Live(q)' /\ pc'[q] # "publish" /\ busy'[q] /\ head'[q] = HeadAt(n)'
    <2>1. /\ \A q \in Proc : Live(q)' <=> Live(q)
          /\ \A q \in Proc : pc'[q] = "publish" <=> pc[q] = "publish"
          /\ UNCHANGED <<head, busy>>
      BY <1>t, NotifyMoves, Zenon DEF Notify
    <2> QED BY <1>o, <1>3, <2>1, Zenon
  <1>11. Window(o, w)'
    <2>1. avail'.idx = Pos(o)' /\ used'.idx = Pos(w)'
      BY <1>2, <1>3, <1>9, <1>c, Zenon
    <2>2. \A m, n \in 0 .. o - 1 : HeadAt(m)' = HeadAt(n)' => m = n
      BY <1>3, <1>d, Zenon
    <2>3. \A n \in 0 .. w - 1 : info'[HeadAt(n)'].status = 0 /\ used'.ring[Pos(n)' % NUM'] = HeadAt(n)'
      <3>1. \A n \in 0 .. w - 1 : n \in 0 .. u - 1 \/ n = u
        BY <1>n, <1>8
      <3>2. info[HeadAt(u)].status = 0 /\ used.ring[Pos(u) % NUM] = HeadAt(u)
        BY <1>4, <1>6, <1>c, Zenon
      <3> QED BY <1>2, <1>3, <1>7, <1>e, <3>1, <3>2, Zenon
    <2>4. \A n \in w + 1 .. o - 1 : info'[HeadAt(n)'].status = Unserved
      <3>1. \A n \in w + 1 .. o - 1 : n \in u + 1 .. o - 1
        BY <1>n, <1>8
      <3> QED BY <1>2, <1>3, <1>e, <3>1, Zenon
    <2>5. w < o => info'[HeadAt(w)'].status = Unserved
      <3>1. w < o => w \in u + 1 .. o - 1
        BY <1>n, <1>8
      <3> QED BY <1>2, <1>3, <1>e, <3>1, Zenon
    <2> QED BY <1>5, <1>6, <1>10, <2>1, <2>2, <2>3, <2>4, <2>5, Zenon DEF Window
  <1>12. used'.idx = Inc16(avail_idx')
    BY <1>t, <1>2, <1>4, <1>7, Zenon DEF QueueOk
  <1>13. w \in 0 .. o
    BY <1>n, <1>8
  <1> QED BY <1>5, <1>11, <1>12, <1>13, Zenon DEF QueueOk

\* avail_idx of the hypervisor catches up.
LEMMA AdvanceQueue ==
  ASSUME DiskInv, NEW a \in Actor, AdvanceAvail(a)
  PROVE  QueueOk'
  <1>t. TypeOK /\ LocksOk /\ ChainsOk /\ StatusOk /\ QueueOk
    BY Zenon DEF DiskInv
  <1>w. PICK o \in 0 .. IdxMod - 1 : \E u \in 0 .. o : Window(o, u)
    BY Zenon DEF DiskInv, QueueOk
  <1>v. PICK u \in 0 .. o : Window(o, u)
    BY <1>w, Zenon
  <1>n. IdxMod \in Nat /\ NUM \in Nat /\ NUM <= IdxMod /\ o \in Nat /\ u \in Nat /\ u <= o /\ o < IdxMod
    BY <1>t, RingFacts
  <1>c. /\ avail.idx = Pos(o) /\ used.idx = Pos(u)
        /\ Served => u < o /\ cur = HeadAt(u)
        /\ At("bump_used") => used.ring[Pos(u) % NUM] = cur
        /\ u < o => info[HeadAt(u)].status = IF Served THEN 0 ELSE Unserved
    BY <1>v, Zenon DEF Window
  <1>d. \A m, n \in 0 .. o - 1 : HeadAt(m) = HeadAt(n) => m = n
    BY <1>v, Zenon DEF Window
  <1>e. /\ \A n \in 0 .. u - 1 : info[HeadAt(n)].status = 0 /\ used.ring[Pos(n) % NUM] = HeadAt(n)
        /\ \A n \in u + 1 .. o - 1 : info[HeadAt(n)].status = Unserved
    BY <1>v, Zenon DEF Window
  <1>o. \A n \in 0 .. o - 1 :
          \E q \in Proc : Live(q) /\ pc[q] # "publish" /\ busy[q] /\ head[q] = HeadAt(n)
    BY <1>v, Zenon DEF Window
  <1>1. Moved(a, "loop") /\ pc[a] = "advance"
    BY <1>t, MovedByGoto, Zenon DEF AdvanceAvail
  <1>2. UNCHANGED <<NUM, avail, used, used_idx, cur, info>>
    BY Zenon DEF AdvanceAvail, guestVars
  <1>3. \A n : HeadAt(n)' = HeadAt(n)
    BY <1>2, Zenon DEF Pos, HeadAt
  <1>4. At("advance") /\ ~At("advance")'
    <2>1. \A b \in Actor : pc[b] \in QueueHeldAt => b = a
      BY <1>t, <1>1, OneHolder, Zenon DEF QueueHeldAt
    <2> QED BY <1>1, <2>1, Zenon DEF Moved, At, QueueHeldAt
  <1>5. /\ At("put_used")' <=> At("put_used")
        /\ At("bump_used")' <=> At("bump_used")
    BY <1>1, AtFrame, Zenon DEF Moved
  <1>6. Served' <=> Served
    BY <1>5, Zenon DEF Served
  <1>7. \A n \in 0 .. o - 1 :
            \E q \in Proc : Live(q)' /\ pc'[q] # "publish" /\ busy'[q] /\ head'[q] = HeadAt(n)
    <2>1. /\ \A q \in Proc : Live(q)' <=> Live(q)
          /\ \A q \in Proc : pc'[q] = "publish" <=> pc[q] = "publish"
          /\ UNCHANGED <<head, busy>>
      BY <1>t, NotifyMoves, Zenon DEF Notify
    <2> QED BY <1>o, <1>3, <2>1, Zenon
  <1>8. Window(o, u)'
    BY <1>v, <1>n, <1>2, <1>3, <1>5, <1>6, <1>7, WindowKeeps, Zenon
  <1>9. used'.idx = avail_idx'
    BY <1>t, <1>2, <1>4, Zenon DEF QueueOk, AdvanceAvail
  <1> QED BY <1>4, <1>8, <1>9, Zenon DEF QueueOk

\* virtio_disk_intr consumes the oldest completion: the window moves by one.
LEMMA CompleteQueue ==
  ASSUME DiskInv, IntrComplete
  PROVE  QueueOk'
  <1>t. TypeOK /\ LocksOk /\ ChainsOk /\ StatusOk /\ QueueOk
    BY Zenon DEF DiskInv
  <1>w. PICK o \in 0 .. IdxMod - 1 : \E u \in 0 .. o : Window(o, u)
    BY Zenon DEF DiskInv, QueueOk
  <1>v. PICK u \in 0 .. o : Window(o, u)
    BY <1>w, Zenon
  <1>n. IdxMod \in Nat /\ NUM \in Nat /\ NUM <= IdxMod /\ o \in Nat /\ u \in Nat /\ u <= o /\ o < IdxMod
    BY <1>t, RingFacts
  <1>c. /\ avail.idx = Pos(o) /\ used.idx = Pos(u)
        /\ Served => u < o /\ cur = HeadAt(u)
        /\ At("bump_used") => used.ring[Pos(u) % NUM] = cur
        /\ u < o => info[HeadAt(u)].status = IF Served THEN 0 ELSE Unserved
    BY <1>v, Zenon DEF Window
  <1>d. \A m, n \in 0 .. o - 1 : HeadAt(m) = HeadAt(n) => m = n
    BY <1>v, Zenon DEF Window
  <1>e. /\ \A n \in 0 .. u - 1 : info[HeadAt(n)].status = 0 /\ used.ring[Pos(n) % NUM] = HeadAt(n)
        /\ \A n \in u + 1 .. o - 1 : info[HeadAt(n)].status = Unserved
    BY <1>v, Zenon DEF Window
  <1>o. \A n \in 0 .. o - 1 :
          \E q \in Proc : Live(q) /\ pc[q] # "publish" /\ busy[q] /\ head[q] = HeadAt(n)
    BY <1>v, Zenon DEF Window
  <1>1. PICK p \in Proc : /\ Live(p) /\ head[p] = HeadAt(0)
                          /\ busy' = [busy EXCEPT ![p] = FALSE]
    BY <1>v, CompleteEffect, Zenon
  <1>2. u > 0
    BY <1>v, CompleteEffect, Zenon
  <1>3. /\ UNCHANGED <<NUM, avail, used, avail_idx, cur, info, head>>
        /\ used_idx' = Inc16(used_idx)
    BY Zenon DEF IntrComplete, hypVars
  <1>4. \A a \in Actor : \/ pc'[a] = pc[a]
                         \/ pc[a] = "buf_sleep" /\ pc'[a] = "reacquire"
    BY <1>t, MovedByWakeBuf, Zenon DEF IntrComplete
  <1>5. /\ At("put_used")' <=> At("put_used")
        /\ At("bump_used")' <=> At("bump_used")
        /\ At("advance")' <=> At("advance")
    BY <1>4, AtFrame, Zenon
  <1>6. Served' <=> Served
    BY <1>5, Zenon DEF Served
  <1>7. PICK x \in Nat, y \in Nat : /\ o = x + 1 /\ u = y + 1 /\ y <= x /\ x < IdxMod - 1
    <2>1. o - 1 \in Nat /\ u - 1 \in Nat /\ o = (o - 1) + 1 /\ u = (u - 1) + 1
          /\ u - 1 <= o - 1 /\ o - 1 < IdxMod - 1
      BY <1>n, <1>2
    <2> QED BY <2>1, Zenon
  <1>8. \A n \in 0 .. x : Pos(n)' = Pos(n + 1)
    <2>1. \A n \in 0 .. x : n \in 0 .. IdxMod - 2
      BY <1>n, <1>7
    <2> QED BY <1>t, <1>3, <2>1, PosShift, Zenon
  <1>9. \A n \in 0 .. x : HeadAt(n)' = HeadAt(n + 1)
    BY <1>3, <1>8, Zenon DEF HeadAt
  <1>10. /\ \A n \in 0 .. x - 1 : n \in 0 .. x /\ n + 1 \in 0 .. o - 1 /\ n + 1 # 0
         /\ \A n \in 0 .. y - 1 : n \in 0 .. x /\ n + 1 \in 0 .. u - 1
         /\ \A n \in y + 1 .. x - 1 : n \in 0 .. x /\ n + 1 \in u + 1 .. o - 1
         /\ x \in 0 .. x /\ y \in 0 .. x /\ 0 \in 0 .. o - 1
    BY <1>7
  <1>11. ASSUME NEW n \in 0 .. x - 1
         PROVE  \E q \in Proc : Live(q)' /\ pc'[q] # "publish" /\ busy'[q] /\ head'[q] = HeadAt(n)'
    <2>1. PICK m \in 0 .. o - 1 : m = n + 1 /\ m # 0
      BY <1>10, Zenon
    <2>2. PICK q \in Proc : Live(q) /\ pc[q] # "publish" /\ busy[q] /\ head[q] = HeadAt(m)
      BY <1>o, Zenon
    <2>3. HeadAt(m) # HeadAt(0)
      BY <1>d, <1>10, <2>1, Zenon
    <2>4. q # p
      BY <1>1, <2>2, <2>3, Zenon
    <2>5. busy'[q]
      BY <1>t, <1>1, <2>2, <2>4, Zenon DEF TypeOK
    <2>6. Live(q)' /\ pc'[q] # "publish"
      BY <1>4, <2>2, Zenon DEF Live, LiveAt, Actor
    <2>7. HeadAt(n)' = HeadAt(m)
      BY <1>9, <1>10, <2>1, Zenon
    <2> QED BY <1>3, <2>2, <2>5, <2>6, <2>7, Zenon
  <1>12. Window(x, y)'
    <2>1. avail'.idx = Pos(x)' /\ used'.idx = Pos(y)'
      BY <1>3, <1>7, <1>8, <1>10, <1>c, Zenon
    <2>2. ASSUME NEW m \in 0 .. x - 1, NEW n \in 0 .. x - 1, HeadAt(m)' = HeadAt(n)'
          PROVE  m = n
      <3>1. HeadAt(m + 1) = HeadAt(n + 1)
        BY <1>9, <1>10, <2>2, Zenon
      <3>2. PICK k \in 0 .. o - 1, l \in 0 .. o - 1 : k = m + 1 /\ l = n + 1
        BY <1>10, Zenon
      <3>3. k = l
        BY <1>d, <3>1, <3>2, Zenon
      <3> QED BY <1>7, <3>2, <3>3
    <2>3. ASSUME NEW n \in 0 .. y - 1
          PROVE  info'[HeadAt(n)'].status = 0 /\ used'.ring[Pos(n)' % NUM'] = HeadAt(n)'
      <3>1. PICK k \in 0 .. u - 1 : k = n + 1
        BY <1>10, Zenon
      <3>2. HeadAt(n)' = HeadAt(k) /\ Pos(n)' = Pos(k)
        BY <1>8, <1>9, <1>10, <3>1, Zenon
      <3> QED BY <1>3, <1>e, <3>1, <3>2, Zenon
    <2>4. ASSUME NEW n \in y + 1 .. x - 1
          PROVE  info'[HeadAt(n)'].status = Unserved
      <3>1. PICK k \in u + 1 .. o - 1 : k = n + 1
        BY <1>10, Zenon
      <3>2. HeadAt(n)' = HeadAt(k)
        BY <1>9, <1>10, <3>1, Zenon
      <3> QED BY <1>3, <1>e, <3>1, <3>2, Zenon
    <2>5. HeadAt(y)' = HeadAt(u) /\ Pos(y)' = Pos(u)
      BY <1>7, <1>8, <1>9, <1>10, Zenon
    <2>6. y < x <=> u < o
      BY <1>7
    <2>7. y < x => info'[HeadAt(y)'].status = IF Served' THEN 0 ELSE Unserved
      BY <1>3, <1>6, <1>c, <2>5, <2>6, Zenon
    <2>8. Served' => y < x /\ cur' = HeadAt(y)'
      BY <1>3, <1>6, <1>c, <2>5, <2>6, Zenon
    <2>9. At("bump_used")' => used'.ring[Pos(y)' % NUM'] = cur'
      BY <1>3, <1>5, <1>c, <2>5, Zenon
    <2> QED BY <1>11, <2>1, <2>2, <2>3, <2>4, <2>7, <2>8, <2>9, Zenon DEF Window
  <1>13. used'.idx = IF At("advance")' THEN Inc16(avail_idx') ELSE avail_idx'
    BY <1>t, <1>3, <1>5, Zenon DEF QueueOk
  <1>14. x \in 0 .. IdxMod - 1 /\ y \in 0 .. x
    BY <1>n, <1>7
  <1> QED BY <1>12, <1>13, <1>14, Zenon DEF QueueOk

\* The rings stay in order.
LEMMA QueueStep == DiskInv /\ RingHasRoom /\ [Next]_vars => QueueOk'
  <1> SUFFICES ASSUME DiskInv, RingHasRoom, [Next]_vars
               PROVE  QueueOk'
    BY Zenon
  <1>t. TypeOK /\ LocksOk /\ QueueOk
    BY Zenon DEF DiskInv
  <1>a. \A p \in Proc : p \in Actor
    BY Zenon DEF Actor
  <1> DEFINE Places == {"put_used", "bump_used", "advance"}
  <1>1. ASSUME NEW p \in Proc, CallRw(p) \/ AcquireDisk(p) \/ SleepOnBuf(p)
        PROVE  QueueOk'
    <2>1. UNCHANGED avail
      BY <1>1, Zenon DEF CallRw, AcquireDisk, SleepOnBuf
    <2>2. PICK l \in {"acquire", "alloc", "await", "buf_sleep"} :
             Moved(p, l) /\ pc[p] \in {"idle", "acquire", "reacquire", "await"}
      BY <1>1, <1>t, <1>a, MovedByGoto, Zenon DEF CallRw, AcquireDisk, SleepOnBuf
    <2>3. \A q \in Proc : pc[q] # "publish" => pc'[q] # "publish"
      BY <1>a, <2>2, Zenon DEF Moved
    <2>4. \A m \in Places : At(m)' <=> At(m)
      BY <2>2, AtFrame, Zenon DEF Moved
    <2> QED BY <1>1, <1>t, <2>1, <2>3, <2>4, DriverMoves, QueueFrame, Zenon
  <1>2. ASSUME NEW p \in Proc, AllocFails(p) PROVE QueueOk'
    <2>1. MovedWaking(p, "free_sleep") /\ pc[p] = "alloc"
      BY <1>2, <1>t, <1>a, MovedByWakeFree, Zenon DEF AllocFails
    <2>2. \A q \in Proc : Live(q) /\ pc[q] # "publish" => Live(q)' /\ pc'[q] # "publish"
      BY <1>a, <2>1, Zenon DEF MovedWaking, Live, LiveAt
    <2>3. \A m \in Places : At(m)' <=> At(m)
      BY <2>1, AtFrame, Zenon DEF MovedWaking
    <2> QED BY <1>2, <1>t, <2>2, <2>3, QueueFrame, Zenon DEF AllocFails, hypVars
  <1>3. ASSUME NEW p \in Proc, Format(p) PROVE QueueOk'
    BY <1>3, FormatQueue, Zenon
  <1>4. ASSUME NEW p \in Proc, Publish(p) PROVE QueueOk'
    BY <1>4, PublishQueue, Zenon
  <1>5. ASSUME NEW p \in Proc, FreeChain(p) PROVE QueueOk'
    BY <1>5, FreeChainQueue, Zenon
  <1>6. ASSUME NEW a \in Kicker, Kick(a) PROVE QueueOk'
    <2>1. \A q \in Proc : Live(q) /\ pc[q] # "publish" => Live(q)' /\ pc'[q] # "publish"
      BY <1>6, <1>t, KickMoves, Zenon DEF Live
    <2>2. Moved(a, "notify") /\ pc[a] = "idle"
      BY <1>6, <1>t, KickMoves, Zenon
    <2>3. \A m \in Places : At(m)' <=> At(m)
      BY <2>2, AtFrame, Zenon DEF Moved
    <2> QED BY <1>6, <1>t, <2>1, <2>3, KickMoves, QueueFrame, Zenon
  <1>7. ASSUME NEW a \in Actor, Serve(a) \/ PutUsed(a) \/ BumpUsed(a) \/ AdvanceAvail(a)
        PROVE  QueueOk'
    BY <1>7, ServeQueue, PutUsedQueue, BumpUsedQueue, AdvanceQueue, Zenon
  <1>8. ASSUME NEW a \in Actor, LockQueue(a) \/ UnlockQueue(a) \/ Signal(a)
        PROVE  QueueOk'
    <2>1. UNCHANGED <<used, info, cur, avail_idx>>
      BY <1>8, Zenon DEF LockQueue, UnlockQueue, Signal, guestVars, hypVars
    <2>2. PICK l \in {"loop", "signal", "await", "idle"} :
             Moved(a, l) /\ pc[a] \in {"notify", "loop", "signal"}
      BY <1>8, <1>t, MovedByGoto, Zenon DEF LockQueue, UnlockQueue, Signal
    <2>3. \A m \in Places : At(m)' <=> At(m)
      BY <2>2, AtFrame, Zenon DEF Moved
    <2> QED BY <1>8, <1>t, <2>1, <2>3, NotifyMoves, QueueFrame, Zenon DEF Notify
  <1>9. ASSUME IntrComplete PROVE QueueOk'
    BY <1>9, CompleteQueue, Zenon
  <1>10. ASSUME Interrupt, ~IntrComplete PROVE QueueOk'
    <2>1. UNCHANGED <<pc, busy, used_idx>>
      BY <1>10, Zenon DEF Interrupt, InjectIrq, TakeIrq, IntrAcquire, IntrRelease, IntrEoi, guestVars
    <2>2. \A m \in Places : At(m)' <=> At(m)
      BY <2>1, Zenon DEF At
    <2> QED BY <1>10, <1>t, <2>1, <2>2, InterruptMoves, QueueFrame, Zenon
  <1>11. ASSUME UNCHANGED vars PROVE QueueOk'
    <2>1. \A m \in Places : At(m)' <=> At(m)
      BY <1>11, Zenon DEF vars, At
    <2> QED BY <1>11, <1>t, <2>1, QueueFrame, Zenon DEF vars, guestVars, hypVars, Live
  <1> QED BY <1>1, <1>2, <1>3, <1>4, <1>5, <1>6, <1>7, <1>8, <1>9, <1>10, <1>11, Zenon DEF Next, Driver, Notify
-----------------------------------------------------------------------------
(* The invariant                                                           *)

\* After virtio_disk_init nothing is in flight.
LEMMA DiskInvInit == Init => DiskInv
  <1> SUFFICES ASSUME Init PROVE DiskInv
    BY Zenon
  <1>1. TypeOK
    BY TypeInit, Zenon
  <1>2. \A a \in Actor : pc[a] = "idle"
    BY Zenon DEF Init
  <1>3. \A p \in Proc : p \in Actor /\ p # Nobody
    BY RingAssumption, Zenon DEF Actor
  <1>4. LocksOk
    <2>1. \A a \in Actor : a # Nobody
      BY RingAssumption, Zenon DEF Actor
    <2>2. "intr" # Nobody
      BY RingAssumption, Zenon
    <2> QED BY <1>2, <1>3, <2>1, <2>2, Zenon DEF Init, LocksOk, DiskHeldAt, QueueHeldAt
  <1>5. ChainsOk /\ StatusOk
    BY <1>2, <1>3, Zenon DEF ChainsOk, StatusOk, Live, LiveAt
  <1>6. \A l \in QueueHeldAt : ~At(l)
    BY <1>2, Zenon DEF At, QueueHeldAt
  <1>7. ~Served /\ ~At("bump_used") /\ ~At("advance")
    BY <1>6, Zenon DEF Served, QueueHeldAt
  <1>8. 0 \in 0 .. IdxMod - 1 /\ IdxMod \in Nat
    BY <1>1, RingFacts
  <1>9. Pos(0) = Start /\ avail.idx = Start /\ used.idx = Start /\ avail_idx = Start
    BY <1>1, <1>8, PosFacts, Zenon DEF Init
  <1>10. Window(0, 0)
    <2>1. 0 .. 0 - 1 = {} /\ 0 + 1 .. 0 - 1 = {} /\ ~(0 < 0)
      OBVIOUS
    <2> QED BY <1>7, <1>9, <2>1, Zenon DEF Window
  <1>11. QueueOk
    <2>1. 0 \in 0 .. 0
      OBVIOUS
    <2> QED BY <1>7, <1>8, <1>9, <1>10, <2>1, Zenon DEF QueueOk
  <1>12. IrqOk
    BY Zenon DEF Init, IrqOk
  <1> QED BY <1>1, <1>4, <1>5, <1>11, <1>12, Zenon DEF DiskInv

\* Every step keeps DiskInv.
LEMMA DiskInvStep == DiskInv /\ RingHasRoom /\ [Next]_vars => DiskInv'
  <1> SUFFICES ASSUME DiskInv, RingHasRoom, [Next]_vars
               PROVE  DiskInv'
    BY Zenon
  <1>1. TypeOK' /\ ChainsOk' /\ StatusOk' /\ QueueOk'
    BY TypeStep, ChainsStep, StatusStep, QueueStep, Zenon
  <1>2. LocksOk' /\ IrqOk'
    BY LocksStep, IrqStep, Zenon DEF DiskInv
  <1> QED BY <1>1, <1>2, Zenon DEF DiskInv

\* The positions virtio_disk_intr has not looked at.
LEMMA NewlyUsedIs ==
  ASSUME TypeOK, NEW o \in 0 .. IdxMod - 1, NEW u \in 0 .. o, Window(o, u)
  PROVE  /\ NewlyUsed = {Pos(n) : n \in 0 .. u - 1}
         /\ NewlyUsed # {} <=> used.idx # used_idx
  <1>1. u \in 0 .. IdxMod - 1 /\ u \in Nat /\ 0 \in 0 .. IdxMod - 1
    BY RingFacts
  <1>2. used.idx = Pos(u)
    BY Zenon DEF Window
  <1>3. (used.idx - used_idx + IdxMod) % IdxMod = u
    BY <1>1, <1>2, PosFacts, Zenon
  <1>4. NewlyUsed = {Pos(n) : n \in 0 .. u - 1}
    BY <1>3, Zenon DEF NewlyUsed, Pos
  <1>5. Pos(0) = used_idx
    BY <1>1, PosFacts, Zenon
  <1>6. u = 0 <=> used.idx = used_idx
    <2>1. CASE u = 0
      BY <1>2, <1>5, <2>1, Zenon
    <2>2. CASE used.idx = used_idx
      <3>1. (used_idx - used_idx + IdxMod) % IdxMod = 0
        BY <1>1, <1>5, PosFacts, Zenon
      <3> QED BY <1>3, <2>2, <3>1, Zenon
    <2> QED BY <2>1, <2>2, Zenon
  <1>7. 0 .. u - 1 = {} <=> u = 0
    <2>1. u # 0 => 0 \in 0 .. u - 1
      BY <1>1
    <2>2. u = 0 => 0 .. u - 1 = {}
      OBVIOUS
    <2> QED BY <2>1, <2>2, Zenon
  <1>8. NewlyUsed = {} <=> 0 .. u - 1 = {}
    BY <1>4, Zenon
  <1> QED BY <1>4, <1>6, <1>7, <1>8, Zenon

\* What the used ring reports, served requests in flight and each of them once.
LEMMA CompletionsOwned ==
  ASSUME DiskInv
  PROVE  /\ \A m, n \in NewlyUsed : used.ring[m % NUM] = used.ring[n % NUM] => m = n
         /\ \A m \in NewlyUsed : LET i == used.ring[m % NUM]
                                 IN  /\ info[i].status = 0 /\ info[i].b \in Proc
                                     /\ busy[info[i].b] /\ head[info[i].b] = i
  <1>t. TypeOK /\ ChainsOk
    BY Zenon DEF DiskInv
  <1>w. PICK o \in 0 .. IdxMod - 1 : \E u \in 0 .. o : Window(o, u)
    BY Zenon DEF DiskInv, QueueOk
  <1>v. PICK u \in 0 .. o : Window(o, u)
    BY <1>w, Zenon
  <1>1. \A x \in 0 .. u - 1 : x \in 0 .. o - 1
    BY <1>t, RingFacts
  <1>2. ASSUME NEW m \in NewlyUsed
        PROVE  \E x \in 0 .. u - 1 :
                  /\ m = Pos(x) /\ used.ring[m % NUM] = HeadAt(x) /\ info[HeadAt(x)].status = 0
                  /\ info[HeadAt(x)].b \in Proc /\ busy[info[HeadAt(x)].b]
                  /\ head[info[HeadAt(x)].b] = HeadAt(x)
    <2>1. PICK x \in 0 .. u - 1 : m = Pos(x)
      BY <1>t, <1>v, <1>2, NewlyUsedIs
    <2>2. used.ring[Pos(x) % NUM] = HeadAt(x) /\ info[HeadAt(x)].status = 0
      BY <1>v, Zenon DEF Window
    <2>3. PICK p \in Proc : busy[p] /\ head[p] = HeadAt(x) /\ info[HeadAt(x)].b = p
      BY <1>t, <1>v, <1>1, HeadAtOwned, Zenon
    <2> QED BY <2>1, <2>2, <2>3, Zenon
  <1>3. ASSUME NEW m \in NewlyUsed, NEW n \in NewlyUsed, used.ring[m % NUM] = used.ring[n % NUM]
        PROVE  m = n
    <2>1. PICK x \in 0 .. u - 1 : m = Pos(x) /\ used.ring[m % NUM] = HeadAt(x)
      BY <1>2, Zenon
    <2>2. PICK y \in 0 .. u - 1 : n = Pos(y) /\ used.ring[n % NUM] = HeadAt(y)
      BY <1>2, Zenon
    <2>3. \A a, b \in 0 .. o - 1 : HeadAt(a) = HeadAt(b) => a = b
      BY <1>v, Zenon DEF Window
    <2>4. x = y
      BY <1>1, <1>3, <2>1, <2>2, <2>3, Zenon
    <2> QED BY <2>1, <2>2, <2>4, Zenon
  <1>4. ASSUME NEW m \in NewlyUsed
        PROVE  LET i == used.ring[m % NUM]
               IN  /\ info[i].status = 0 /\ info[i].b \in Proc
                   /\ busy[info[i].b] /\ head[info[i].b] = i
    BY <1>2, Zenon
  <1> QED BY <1>3, <1>4, Zenon

\* InterruptOnItsWay in the terms of virtio_disk_intr's loop.
SpiOk ==
    used.idx # used_idx /\ InHandler = {} =>
        irq.pend \/ irq.lr = "pending" \/ ipc \in {"acquire", "scan"}

\* Who is in the handler after a step of an actor that is not.
LEMMA OutsideHandler ==
  ASSUME \A a \in Actor : pc'[a] = pc[a] \/ pc'[a] \notin {"loop", "put_used", "bump_used", "advance", "signal"},
         \A a \in Actor : pc'[a] = pc[a] \/ pc[a] \notin {"loop", "put_used", "bump_used", "advance", "signal"}
  PROVE  InHandler' = InHandler
  BY Zenon DEF InHandler

\* Every step keeps SpiOk.
LEMMA SpiStep == DiskInv /\ SpiOk /\ [Next]_vars => SpiOk'
  <1> SUFFICES ASSUME DiskInv, SpiOk, [Next]_vars
               PROVE  SpiOk'
    BY Zenon
  <1>t. TypeOK /\ IrqOk
    BY Zenon DEF DiskInv
  <1>a. \A p \in Proc : p \in Actor
    BY Zenon DEF Actor
  <1>s. ASSUME InHandler' = InHandler, UNCHANGED <<used, used_idx, irq, ipc>>
        PROVE  SpiOk'
    BY <1>s, Zenon DEF SpiOk
  <1>1. ASSUME NEW p \in Proc, CallRw(p) \/ AcquireDisk(p) \/ SleepOnBuf(p) \/ Publish(p) \/ Format(p)
        PROVE  SpiOk'
    <2>1. UNCHANGED <<used, used_idx, irq, ipc>>
      BY <1>1, Zenon DEF CallRw, AcquireDisk, SleepOnBuf, Publish, Format, guestVars
    <2>2. PICK l \in {"acquire", "alloc", "await", "buf_sleep", "notify", "publish"} :
             Moved(p, l) /\ pc[p] \in {"idle", "acquire", "reacquire", "await", "publish", "alloc"}
      BY <1>1, <1>t, <1>a, MovedByGoto, Zenon DEF CallRw, AcquireDisk, SleepOnBuf, Publish, Format
    <2>3. InHandler' = InHandler
      BY <2>2, OutsideHandler, Zenon DEF Moved
    <2> QED BY <1>s, <2>1, <2>3, Zenon
  <1>2. ASSUME NEW p \in Proc, AllocFails(p) \/ FreeChain(p) PROVE SpiOk'
    <2>1. UNCHANGED <<used, used_idx, irq, ipc>>
      BY <1>2, Zenon DEF AllocFails, FreeChain
    <2>2. PICK l \in {"free_sleep", "idle"} : MovedWaking(p, l) /\ pc[p] \in {"alloc", "await"}
      BY <1>2, <1>t, <1>a, MovedByWakeFree, Zenon DEF AllocFails, FreeChain
    <2>3. InHandler' = InHandler
      BY <2>2, OutsideHandler, Zenon DEF MovedWaking
    <2> QED BY <1>s, <2>1, <2>3, Zenon
  <1>3. ASSUME NEW a \in Kicker, Kick(a) PROVE SpiOk'
    <2>1. UNCHANGED <<used, used_idx, irq, ipc>>
      BY <1>3, Zenon DEF Kick
    <2>2. Moved(a, "notify") /\ pc[a] = "idle"
      BY <1>3, <1>t, KickMoves, Zenon
    <2>3. InHandler' = InHandler
      BY <2>2, OutsideHandler, Zenon DEF Moved
    <2> QED BY <1>s, <2>1, <2>3, Zenon
  <1>4. ASSUME NEW a \in Actor, Notify(a), ~Signal(a) PROVE SpiOk'
    <2>1. PICK l \in {"loop", "put_used", "bump_used", "advance", "signal"} : Moved(a, l)
      BY <1>4, <1>t, MovedByGoto, Zenon
         DEF Notify, LockQueue, Serve, PutUsed, BumpUsed, AdvanceAvail, UnlockQueue
    <2>2. InHandler' # {}
      BY <2>1, Zenon DEF Moved, InHandler
    <2> QED BY <2>2, Zenon DEF SpiOk
  <1>5. ASSUME NEW a \in Actor, Signal(a) PROVE SpiOk'
    <2>1. irq \in Spi /\ irq' = [irq EXCEPT !.pend = TRUE]
      BY <1>5, <1>t, Zenon DEF Signal, TypeOK
    <2>2. irq'.pend = TRUE
      BY <2>1, Zenon DEF Spi
    <2> QED BY <2>2, Zenon DEF SpiOk
  <1>6. ASSUME InjectIrq PROVE SpiOk'
    BY <1>6, Zenon DEF InjectIrq, SpiOk
  <1>7. ASSUME TakeIrq \/ IntrAcquire PROVE SpiOk'
    BY <1>7, Zenon DEF TakeIrq, IntrAcquire, SpiOk
  <1>8. ASSUME IntrComplete PROVE SpiOk'
    BY <1>8, Zenon DEF IntrComplete, SpiOk
  <1>9. ASSUME IntrRelease PROVE SpiOk'
    BY <1>9, Zenon DEF IntrRelease, SpiOk
  <1>10. ASSUME IntrEoi PROVE SpiOk'
    <2>1. irq.lr = "active" /\ ipc = "eoi"
      BY <1>10, <1>t, Zenon DEF IntrEoi, IrqOk
    <2>2. irq \in Spi /\ irq' = [irq EXCEPT !.lr = "invalid", !.active = FALSE]
      BY <1>10, <1>t, Zenon DEF IntrEoi, TypeOK
    <2>3. irq'.pend = irq.pend
      BY <2>2, Zenon DEF Spi
    <2>4. UNCHANGED <<pc, used, used_idx>>
      BY <1>10, Zenon DEF IntrEoi, guestVars
    <2>5. InHandler' = InHandler
      BY <2>4, Zenon DEF InHandler
    <2> QED BY <2>1, <2>3, <2>4, <2>5, Zenon DEF SpiOk
  <1>11. ASSUME UNCHANGED vars PROVE SpiOk'
    <2>1. InHandler' = InHandler
      BY <1>11, Zenon DEF vars, InHandler
    <2> QED BY <1>11, <1>s, <2>1, Zenon DEF vars, guestVars
  <1> QED BY <1>1, <1>2, <1>3, <1>4, <1>5, <1>6, <1>7, <1>8, <1>9, <1>10, <1>11, Zenon
          DEF Next, Driver, Interrupt


-----------------------------------------------------------------------------
(* The block device                                                        *)

\* The phase of a request by where its process is.
PhaseOf(p) ==
    IF pc[p] = "idle" THEN "idle"
    ELSE IF Live(p) /\ info[head[p]].status = 0 THEN "applied" ELSE "pending"

\* The refinement mapping by where the processes are.
LEMMA PhaseIs == TypeOK => Phase = [p \in Proc |-> PhaseOf(p)]
  <1> SUFFICES ASSUME TypeOK, NEW p \in Proc
               PROVE  Phase[p] = PhaseOf(p)
    BY Zenon DEF Phase
  <1>1. pc[p] \in Label
    BY Zenon DEF TypeOK, Actor
  <1> QED BY <1>1, Zenon DEF Phase, PhaseOf, Live, LiveAt, Label

\* Processes whose phase a step leaves alone.
LEMMA PhaseFrame ==
  ASSUME NEW q \in Proc, pc'[q] = "idle" <=> pc[q] = "idle",
         \/ ~Live(q) /\ ~Live(q)'
         \/ /\ Live(q) /\ Live(q)' /\ head'[q] = head[q]
            /\ info'[head[q]].status = info[head[q]].status
  PROVE  PhaseOf(q)' = PhaseOf(q)
  BY Zenon DEF PhaseOf

\* The same after a step.
LEMMA PhaseIsNext == TypeOK' => Phase' = [p \in Proc |-> PhaseOf(p)']
  <1> SUFFICES ASSUME TypeOK', NEW p \in Proc
               PROVE  Phase'[p] = PhaseOf(p)'
    BY Zenon DEF Phase
  <1>1. pc'[p] \in Label
    BY Zenon DEF TypeOK, Actor
  <1> QED BY <1>1, Zenon DEF Phase, PhaseOf, Live, LiveAt, Label

\* A step that moves no request is a stutter of BlockDevice's phases.
LEMMA PhaseSame ==
  ASSUME TypeOK, TypeOK', \A q \in Proc : PhaseOf(q)' = PhaseOf(q)
  PROVE  Phase' = Phase
  <1>1. Phase = [q \in Proc |-> PhaseOf(q)] /\ Phase' = [q \in Proc |-> PhaseOf(q)']
    BY PhaseIs, PhaseIsNext, Zenon
  <1> QED BY <1>1, Zenon

\* The step of one request.
LEMMA PhaseMoves ==
  ASSUME TypeOK, TypeOK', NEW p \in Proc, \A q \in Proc \ {p} : PhaseOf(q)' = PhaseOf(q)
  PROVE  Phase' = [Phase EXCEPT ![p] = PhaseOf(p)'] /\ Phase[p] = PhaseOf(p)
  <1>1. Phase = [q \in Proc |-> PhaseOf(q)] /\ Phase' = [q \in Proc |-> PhaseOf(q)']
    BY PhaseIs, PhaseIsNext, Zenon
  <1> QED BY <1>1, Zenon

\* Steps that the file system does not see.
LEMMA QuietSteps ==
  ASSUME DiskInv, TypeOK', [Next]_vars,
         \A p \in Proc : ~CallRw(p) /\ ~FreeChain(p), \A a \in Actor : ~Serve(a)
  PROVE  UNCHANGED <<Phase, req, data, ramdisk>>
  <1>t. TypeOK /\ ChainsOk
    BY Zenon DEF DiskInv
  <1>a. \A p \in Proc : p \in Actor
    BY Zenon DEF Actor
  <1>p. ASSUME \A q \in Proc : pc'[q] = "idle" <=> pc[q] = "idle",
               \A q \in Proc : Live(q)' <=> Live(q), UNCHANGED <<head, info>>
        PROVE  Phase' = Phase
    <2>1. \A q \in Proc : PhaseOf(q)' = PhaseOf(q)
      BY <1>p, PhaseFrame, Zenon
    <2> QED BY <1>t, <2>1, PhaseSame, Zenon
  <1>1. ASSUME NEW p \in Proc, AcquireDisk(p) \/ Publish(p) \/ SleepOnBuf(p)
        PROVE  UNCHANGED <<Phase, req, data, ramdisk>>
    <2>1. UNCHANGED <<req, data, ramdisk, head, info>>
      BY <1>1, Zenon DEF AcquireDisk, Publish, SleepOnBuf, guestVars, hypVars
    <2>2. PICK l \in {"alloc", "await", "buf_sleep", "notify"} :
             Moved(p, l) /\ pc[p] \in {"acquire", "reacquire", "await", "publish"}
      BY <1>1, <1>t, <1>a, MovedByGoto, Zenon DEF AcquireDisk, SleepOnBuf, Publish
    <2>3. \A q \in Proc : pc'[q] = "idle" <=> pc[q] = "idle"
      BY <1>a, <2>2, Zenon DEF Moved
    <2>4. \A q \in Proc : Live(q)' <=> Live(q)
      BY <1>1, <1>t, DriverMoves, Zenon
    <2> QED BY <1>p, <2>1, <2>3, <2>4, Zenon
  <1>2. ASSUME NEW p \in Proc, AllocFails(p)
        PROVE  UNCHANGED <<Phase, req, data, ramdisk>>
    <2>1. UNCHANGED <<req, data, ramdisk, head, info>>
      BY <1>2, Zenon DEF AllocFails, hypVars
    <2>2. MovedWaking(p, "free_sleep") /\ pc[p] = "alloc"
      BY <1>2, <1>t, <1>a, MovedByWakeFree, Zenon DEF AllocFails
    <2>3. \A q \in Proc : pc'[q] = "idle" <=> pc[q] = "idle"
      BY <1>a, <2>2, Zenon DEF MovedWaking
    <2>4. \A q \in Proc : Live(q)' <=> Live(q)
      BY <1>a, <2>2, Zenon DEF MovedWaking, Live, LiveAt
    <2> QED BY <1>p, <2>1, <2>3, <2>4, Zenon
  <1>3. ASSUME NEW p \in Proc, Format(p)
        PROVE  UNCHANGED <<Phase, req, data, ramdisk>>
    <2>1. UNCHANGED <<req, data, ramdisk>>
      BY <1>3, Zenon DEF Format, hypVars
    <2>2. Moved(p, "publish") /\ pc[p] = "alloc"
      BY <1>3, <1>t, <1>a, MovedByGoto, Zenon DEF Format
    <2>3. PICK i \in free : /\ head' = [head EXCEPT ![p] = i]
                            /\ info' = [info EXCEPT ![i] = [b |-> p, status |-> Unserved]]
      BY <1>3, <1>t, FormatEffect, Zenon
    <2>4. i \in Idx
      BY <1>t, Zenon DEF TypeOK
    <2>5. head'[p] = i /\ info'[i].status = Unserved
      BY <1>t, <2>3, <2>4, Zenon DEF TypeOK
    <2>6. PhaseOf(p)' = PhaseOf(p)
      BY <2>2, <2>5 DEF PhaseOf, Moved, Live, LiveAt, Unserved
    <2>7. ASSUME NEW q \in Proc \ {p}
          PROVE  PhaseOf(q)' = PhaseOf(q)
      <3>1. pc'[q] = pc[q] /\ (Live(q)' <=> Live(q))
        BY <1>a, <2>2, Zenon DEF Moved, Live
      <3>2. CASE Live(q)
        <4>1. head[q] \in Idx \ free
          BY <1>t, <3>2, LiveHead, Zenon
        <4>2. head'[q] = head[q] /\ info'[head[q]] = info[head[q]]
          BY <1>t, <2>3, <4>1, Zenon DEF TypeOK
        <4> QED BY <3>1, <3>2, <4>2, PhaseFrame, Zenon
      <3>3. CASE ~Live(q)
        BY <3>1, <3>3, PhaseFrame, Zenon
      <3> QED BY <3>2, <3>3, Zenon
    <2>8. Phase' = Phase
      BY <1>t, <2>6, <2>7, PhaseSame, Zenon
    <2> QED BY <2>1, <2>8, Zenon
  <1>4. ASSUME NEW a \in Kicker, Kick(a)
        PROVE  UNCHANGED <<Phase, req, data, ramdisk>>
    <2>1. UNCHANGED <<req, data, ramdisk, head, info>>
      BY <1>4, Zenon DEF Kick, hypVars
    <2>2. \A q \in Proc : pc'[q] = pc[q]
      BY <1>4, <1>t, KickMoves, Zenon
    <2> QED BY <1>p, <2>1, <2>2, Zenon DEF Live
  <1>5. ASSUME NEW a \in Actor, Notify(a), ~Serve(a)
        PROVE  UNCHANGED <<Phase, req, data, ramdisk>>
    <2>1. UNCHANGED <<req, data, ramdisk, head, info>>
      BY <1>5, Zenon DEF Notify, LockQueue, PutUsed, BumpUsed, AdvanceAvail, UnlockQueue, Signal, guestVars, hypVars
    <2> QED BY <1>5, <1>t, <1>p, <2>1, NotifyMoves, Zenon
  <1>6. ASSUME Interrupt
        PROVE  UNCHANGED <<Phase, req, data, ramdisk>>
    <2>1. UNCHANGED <<req, data, ramdisk, head, info>>
      BY <1>6, <1>t, InterruptMoves, Zenon
    <2>2. \A q \in Proc : pc'[q] = "idle" <=> pc[q] = "idle"
      BY <1>6, <1>t, <1>a, InterruptMoves, Zenon
    <2> QED BY <1>6, <1>t, <1>p, <2>1, <2>2, InterruptMoves, Zenon
  <1>7. ASSUME UNCHANGED vars
        PROVE  UNCHANGED <<Phase, req, data, ramdisk>>
    <2>1. UNCHANGED <<pc, req, data, ramdisk, head, info>>
      BY <1>7, Zenon DEF vars, guestVars, hypVars
    <2> QED BY <1>p, <2>1, Zenon DEF Live
  <1> QED BY <1>1, <1>2, <1>3, <1>4, <1>5, <1>6, <1>7, Zenon DEF Next, Driver

\* virtio_disk_init leaves an idle block device.
LEMMA RefinesInit == Init => Disk!Init
  <1> SUFFICES ASSUME Init PROVE Disk!Init
    BY Zenon
  <1>1. TypeOK
    BY TypeInit, Zenon
  <1>2. Phase = [p \in Proc |-> "idle"]
    BY Zenon DEF Init, Phase, Actor
  <1>3. req \in [Proc -> Disk!Request]
    BY <1>1, Zenon DEF TypeOK, Request, Disk!Request
  <1> QED BY <1>1, <1>2, <1>3, Zenon DEF Disk!Init, TypeOK

\* Every step is one of the block device or changes nothing it has.
LEMMA RefinesStep == DiskInv /\ DiskInv' /\ [Next]_vars => [Disk!Next]_(Disk!vars)
  <1> SUFFICES ASSUME DiskInv, DiskInv', [Next]_vars
               PROVE  [Disk!Next]_(Disk!vars)
    BY Zenon
  <1>t. TypeOK /\ TypeOK' /\ ChainsOk /\ StatusOk
    BY Zenon DEF DiskInv
  <1>a. \A p \in Proc : p \in Actor
    BY Zenon DEF Actor
  <1>1. ASSUME NEW p \in Proc, CallRw(p) PROVE Disk!Submit(p)
    <2>1. Moved(p, "acquire") /\ pc[p] = "idle" /\ UNCHANGED <<head, info, ramdisk>>
      BY <1>1, <1>t, <1>a, MovedByGoto, Zenon DEF CallRw, hypVars
    <2>2. \A q \in Proc \ {p} : pc'[q] = pc[q]
      BY <1>a, <2>1, Zenon DEF Moved
    <2>3. \A q \in Proc \ {p} : PhaseOf(q)' = PhaseOf(q)
      BY <2>1, <2>2, PhaseFrame, Zenon DEF Live
    <2>4. PhaseOf(p) = "idle" /\ PhaseOf(p)' = "pending"
      BY <2>1, Zenon DEF PhaseOf, Moved, Live, LiveAt
    <2>5. Phase[p] = "idle" /\ Phase' = [Phase EXCEPT ![p] = "pending"]
      BY <1>t, <2>3, <2>4, PhaseMoves, Zenon
    <2>6. PICK w \in BOOLEAN, k \in Block :
             /\ req' = [req EXCEPT ![p] = [write |-> w, block |-> k]]
             /\ data' = IF w THEN [data EXCEPT ![p] = Payload[p]] ELSE data
      BY <1>1, Zenon DEF CallRw
    <2>7. \E r \in Disk!Request : req' = [req EXCEPT ![p] = r]
      <3>1. [write |-> w, block |-> k] \in Disk!Request
        BY Zenon DEF Disk!Request
      <3> QED BY <2>6, <3>1, Zenon
    <2>8. \E d \in Data : data' = [data EXCEPT ![p] = d]
      <3>1. data[p] \in Data /\ Payload[p] \in Data /\ data = [data EXCEPT ![p] = data[p]]
        BY <1>t, RingAssumption, Zenon DEF TypeOK
      <3> QED BY <2>6, <3>1, Zenon
    <2> QED BY <2>1, <2>5, <2>7, <2>8, Zenon DEF Disk!Submit
  <1>2. ASSUME NEW a \in Actor, Serve(a) PROVE \E p \in Proc : Disk!Apply(p)
    <2>1. PICK p \in Proc :
            /\ Live(p) /\ info[head[p]].status = Unserved
            /\ info' = [info EXCEPT ![head[p]].status = 0]
            /\ ramdisk' = IF req[p].write THEN [ramdisk EXCEPT ![req[p].block] = data[p]]
                          ELSE ramdisk
            /\ data' = IF req[p].write THEN data
                       ELSE [data EXCEPT ![p] = ramdisk[req[p].block]]
      BY <1>2, ServeEffect, Zenon DEF DiskInv, QueueOk
    <2>2. /\ \A q \in Proc : Live(q)' <=> Live(q)
          /\ \A q \in Proc : pc'[q] = "idle" <=> pc[q] = "idle"
          /\ UNCHANGED <<head, req>>
      BY <1>2, <1>t, NotifyMoves, Zenon DEF Notify
    <2>3. \A q \in Proc : head[q] \in Idx
      BY <1>t, Zenon DEF TypeOK
    <2>4. \A x \in Idx : info'[x].status = IF x = head[p] THEN 0 ELSE info[x].status
      <3>1. info \in [Idx -> Info]
        BY <1>t, Zenon DEF TypeOK
      <3> QED BY <2>1, <2>3, <3>1, Zenon DEF Info
    <2>5. ASSUME NEW q \in Proc \ {p}
          PROVE  PhaseOf(q)' = PhaseOf(q)
      <3>1. CASE Live(q)
        <4>1. head[q] # head[p]
          BY <1>t, <2>1, <3>1, HeadsApart, Zenon
        <4> QED BY <2>2, <2>3, <2>4, <3>1, <4>1, PhaseFrame, Zenon
      <3>2. CASE ~Live(q)
        BY <2>2, <3>2, PhaseFrame, Zenon
      <3> QED BY <3>1, <3>2, Zenon
    <2>6. pc[p] # "idle"
      BY <2>1, Zenon DEF Live, LiveAt
    <2>7. PhaseOf(p) = "pending" /\ PhaseOf(p)' = "applied"
      BY <2>1, <2>2, <2>3, <2>4, <2>6 DEF PhaseOf, Unserved
    <2>8. Phase[p] = "pending" /\ Phase' = [Phase EXCEPT ![p] = "applied"]
      BY <1>t, <2>5, <2>7, PhaseMoves, Zenon
    <2>9. Disk!Apply(p)
      BY <2>1, <2>2, <2>8, Zenon DEF Disk!Apply
    <2> QED BY <2>9, Zenon
  <1>3. ASSUME NEW p \in Proc, FreeChain(p) PROVE Disk!Return(p)
    <2>1. MovedWaking(p, "idle") /\ pc[p] = "await" /\ ~busy[p]
      BY <1>3, <1>t, <1>a, MovedByWakeFree, Zenon DEF FreeChain
    <2>2. Live(p)
      BY <2>1, Zenon DEF Live, LiveAt
    <2>3. info[head[p]].status = 0
      BY <1>t, <2>1, <2>2, Zenon DEF StatusOk
    <2>4. PhaseOf(p) = "applied" /\ PhaseOf(p)' = "idle"
      BY <2>1, <2>2, <2>3, Zenon DEF PhaseOf, MovedWaking
    <2>5. ASSUME NEW q \in Proc \ {p}
          PROVE  PhaseOf(q)' = PhaseOf(q)
      <3>1. /\ pc'[q] = "idle" <=> pc[q] = "idle"
            /\ Live(q)' <=> Live(q)
        BY <1>a, <2>1, Zenon DEF MovedWaking, Live, LiveAt
      <3>2. head'[q] = head[q] /\ head[q] \in Idx
        BY <1>3, <1>t, Zenon DEF FreeChain, TypeOK
      <3>3. info \in [Idx -> Info] /\ info' = [info EXCEPT ![head[p]].b = Nobody]
        BY <1>3, <1>t, Zenon DEF FreeChain, TypeOK
      <3>4. info'[head[q]].status = info[head[q]].status
        BY <3>2, <3>3, Zenon DEF Info
      <3> QED BY <3>1, <3>2, <3>4, PhaseFrame, Zenon
    <2>6. Phase[p] = "applied" /\ Phase' = [Phase EXCEPT ![p] = "idle"]
      BY <1>t, <2>4, <2>5, PhaseMoves, Zenon
    <2>7. NoRequest \in Disk!Request
      BY RingAssumption DEF NoRequest, Disk!Request, Block
    <2>8. req' = [req EXCEPT ![p] = NoRequest] /\ UNCHANGED <<data, ramdisk>>
      BY <1>3, Zenon DEF FreeChain, hypVars
    <2> QED BY <2>6, <2>7, <2>8, Zenon DEF Disk!Return
  <1>4. CASE /\ \A p \in Proc : ~CallRw(p) /\ ~FreeChain(p)
             /\ \A a \in Actor : ~Serve(a)
    <2>1. UNCHANGED <<Phase, req, data, ramdisk>>
      BY <1>t, <1>4, QuietSteps, Zenon
    <2> QED BY <2>1, Zenon DEF Disk!vars
  <1> QED BY <1>1, <1>2, <1>3, <1>4, Zenon DEF Disk!Next

-----------------------------------------------------------------------------
(* Counting                                                                *)

INSTANCE FiniteSetTheorems

\* Distinct heads: no more of them than descriptors they can be.
LEMMA FewHeads ==
  ASSUME TypeOK, NEW o \in 0 .. IdxMod - 1, NEW u \in 0 .. o, Window(o, u),
         NEW S, IsFiniteSet(S), \A n \in 0 .. o - 1 : HeadAt(n) \in S
  PROVE  o <= Cardinality(S)
  <1> DEFINE f == [n \in 0 .. o - 1 |-> HeadAt(n)]
  <1>1. o \in Nat
    BY RingFacts
  <1>2. f \in [0 .. o - 1 -> S] /\ \A m, n \in 0 .. o - 1 : f[m] = f[n] => m = n
    BY Zenon DEF Window
  <1>3. f \in Injection(0 .. o - 1, S)
    BY <1>2, Zenon DEF Injection, IsInjective
  <1> HIDE DEF f
  <1>4. Cardinality(0 .. o - 1) <= Cardinality(S)
    BY <1>3, FS_Injection, Zenon
  <1>5. 0 \in Int /\ o - 1 \in Int
    BY <1>1
  <1>6. Cardinality(0 .. o - 1) = IF 0 > o - 1 THEN 0 ELSE o - 1 - 0 + 1
    BY <1>5, FS_Interval, Zenon
  <1>7. Cardinality(S) \in Nat
    BY FS_CardinalityType, Zenon
  <1> QED BY <1>1, <1>4, <1>6, <1>7

\* The number of descriptors.
LEMMA RingCard ==
  ASSUME TypeOK
  PROVE  IsFiniteSet(Idx) /\ Cardinality(Idx) = NUM
  <1>1. NUM \in Nat /\ NUM >= 3
    BY RingFacts, Zenon
  <1>2. 0 \in Int /\ NUM - 1 \in Int
    BY <1>1
  <1>3. IsFiniteSet(0 .. NUM - 1) /\ Cardinality(0 .. NUM - 1) = IF 0 > NUM - 1 THEN 0 ELSE NUM - 1 - 0 + 1
    BY <1>2, FS_Interval, Zenon
  <1> QED BY <1>1, <1>3 DEF Idx

\* A descriptor that heads none of the outstanding requests leaves a slot of
\* the ring unused; two of them leave two.
LEMMA RoomInRing == DiskInv => RingHasRoom
  <1> SUFFICES ASSUME DiskInv, NEW o \in 0 .. IdxMod - 1, NEW u \in 0 .. o, Window(o, u)
               PROVE  /\ o <= NUM
                      /\ \A i, j \in Idx : (\A n \in 0 .. o - 1 : HeadAt(n) \notin {i, j}) =>
                             o < NUM /\ (i # j => o + 1 < NUM)
    BY Zenon DEF RingHasRoom
  <1>1. TypeOK /\ ChainsOk
    BY Zenon DEF DiskInv
  <1>2. IsFiniteSet(Idx) /\ Cardinality(Idx) = NUM /\ NUM \in Nat /\ NUM >= 3 /\ o \in Nat
    BY <1>1, RingCard, RingFacts
  <1>3. \A n \in 0 .. o - 1 : HeadAt(n) \in Idx
    BY <1>1, HeadAtOwned, Zenon
  <1>4. o <= NUM
    BY <1>1, <1>2, <1>3, FewHeads, Zenon
  <1>5. ASSUME NEW i \in Idx, NEW j \in Idx, \A n \in 0 .. o - 1 : HeadAt(n) \notin {i, j}
        PROVE  o < NUM /\ (i # j => o + 1 < NUM)
    <2>1. IsFiniteSet(Idx \ {i}) /\ Cardinality(Idx \ {i}) = NUM - 1
      BY <1>2, FS_RemoveElement, Zenon
    <2>2. IsFiniteSet((Idx \ {i}) \ {j})
          /\ Cardinality((Idx \ {i}) \ {j}) = IF j \in Idx \ {i} THEN NUM - 1 - 1 ELSE NUM - 1
      BY <2>1, FS_RemoveElement, Zenon
    <2>3. \A n \in 0 .. o - 1 : HeadAt(n) \in (Idx \ {i}) \ {j}
      BY <1>3, <1>5, Zenon
    <2>4. o <= Cardinality((Idx \ {i}) \ {j})
      BY <1>1, <2>2, <2>3, FewHeads, Zenon
    <2> QED BY <1>2, <2>2, <2>4
  <1> QED BY <1>4, <1>5, Zenon

\* DiskInv holds throughout.
LEMMA DiskInvAlways == Spec => []DiskInv
  BY DiskInvInit, DiskInvStep, RoomInRing, PTL DEF Spec

-----------------------------------------------------------------------------
(* Theorems                                                                *)

\* free_chain never meets a free descriptor and gives back exactly the three
\* descriptors virtio_disk_rw took for the request.
THEOREM ChainIntactAlways == Spec => []ChainIntact
  <1>1. DiskInv => ChainIntact
    <2> SUFFICES ASSUME DiskInv, NEW p \in Proc, Live(p)
                 PROVE  /\ Chain(head[p]) \cap free = {}
                        /\ Cardinality(Chain(head[p])) = 3
                        /\ info[head[p]].b = p
      BY Zenon DEF ChainIntact, Live, LiveAt
    <2>1. PICK i, j, k \in Idx \ free : Built(p, i, j, k)
      BY Zenon DEF DiskInv, ChainsOk
    <2>2. Chain(head[p]) = {i, j, k} /\ i # j /\ i # k /\ j # k
      BY <2>1, ChainOf, Zenon
    <2>3. IsFiniteSet({i}) /\ Cardinality({i}) = 1
      BY FS_Singleton, Zenon
    <2>4. IsFiniteSet({i} \cup {j}) /\ Cardinality({i} \cup {j}) = 2
      <3>1. j \notin {i}
        BY <2>2, Zenon
      <3>2. /\ IsFiniteSet({i} \cup {j})
            /\ Cardinality({i} \cup {j}) = IF j \in {i} THEN Cardinality({i}) ELSE Cardinality({i}) + 1
        BY <2>3, FS_AddElement, Zenon
      <3> QED BY <2>3, <3>1, <3>2
    <2>5. Cardinality(({i} \cup {j}) \cup {k}) = 3
      <3>1. k \notin {i} \cup {j}
        BY <2>2, Zenon
      <3>2. Cardinality(({i} \cup {j}) \cup {k})
               = IF k \in {i} \cup {j} THEN Cardinality({i} \cup {j}) ELSE Cardinality({i} \cup {j}) + 1
        BY <2>4, FS_AddElement, Zenon
      <3> QED BY <2>4, <3>1, <3>2
    <2>6. ({i} \cup {j}) \cup {k} = {i, j, k}
      BY Zenon
    <2>7. Cardinality(Chain(head[p])) = 3
      BY <2>2, <2>5, <2>6, Zenon
    <2> QED BY <2>1, <2>2, <2>7, Zenon DEF Built
  <1> QED BY <1>1, DiskInvAlways, PTL

\* Whatever virtio_disk_intr finds in the used ring is the completion of a
\* request in flight, served and reported once.
THEOREM CompletionsValidAlways == Spec => []CompletionsValid
  <1>1. DiskInv => CompletionsValid
    <2> SUFFICES ASSUME DiskInv PROVE CompletionsValid
      BY Zenon
    <2>1. \A m, n \in NewlyUsed : used.ring[m % NUM] = used.ring[n % NUM] => m = n
      BY CompletionsOwned, Zenon
    <2>2. \A m \in NewlyUsed : LET i == used.ring[m % NUM]
                                IN  /\ info[i].status = 0 /\ info[i].b \in Proc
                                    /\ busy[info[i].b] /\ head[info[i].b] = i
      BY CompletionsOwned, Zenon
    <2>3. Cardinality(NewlyUsed) <= Cardinality(Proc)
      <3> DEFINE f == [m \in NewlyUsed |-> info[used.ring[m % NUM]].b]
      <3>1. f \in [NewlyUsed -> Proc]
        BY <2>2, Zenon
      <3>2. ASSUME NEW m \in NewlyUsed, NEW n \in NewlyUsed, f[m] = f[n]
            PROVE  m = n
        <4>1. info[used.ring[m % NUM]].b = info[used.ring[n % NUM]].b
          BY <3>2, Zenon
        <4>2. head[info[used.ring[m % NUM]].b] = used.ring[m % NUM]
          BY <2>2, Zenon
        <4>3. head[info[used.ring[n % NUM]].b] = used.ring[n % NUM]
          BY <2>2, Zenon
        <4> QED BY <2>1, <4>1, <4>2, <4>3, Zenon
      <3>3. f \in Injection(NewlyUsed, Proc)
        BY <3>1, <3>2, Zenon DEF Injection, IsInjective
      <3> HIDE DEF f
      <3> QED BY <3>3, FS_Injection, RingAssumption, Zenon
    <2> QED BY <2>1, <2>2, <2>3, Zenon DEF CompletionsValid
  <1> QED BY <1>1, DiskInvAlways, PTL

\* A completion is never left without an interrupt: once the handlers are back
\* in the guest, SPI 48 is pending, in the list register or being handled for
\* whatever the driver has not consumed.
THEOREM InterruptOnItsWayAlways == Spec => []InterruptOnItsWay
  <1>1. Init => SpiOk
    <2> SUFFICES ASSUME Init PROVE used.idx = used_idx
      BY Zenon DEF SpiOk
    <2> QED BY Zenon DEF Init
  <1>2. DiskInv /\ SpiOk => InterruptOnItsWay
    <2> SUFFICES ASSUME DiskInv, SpiOk PROVE InterruptOnItsWay
      BY Zenon
    <2>1. NewlyUsed # {} <=> used.idx # used_idx
      BY NewlyUsedIs, Zenon DEF DiskInv, QueueOk
    <2> QED BY <2>1, Zenon DEF SpiOk, InterruptOnItsWay
  <1> QED BY <1>1, <1>2, DiskInvAlways, SpiStep, PTL DEF Spec

\* The driver, the rings, the handler and the ramdisk are a block device:
\* virtio_disk_rw submits a request, a turn of the handler's loop applies it to
\* its own block and buffer, and the driver returns only what was applied.
THEOREM BlockDeviceImplemented == Spec => ImplementsBlockDevice
  BY RefinesInit, RefinesStep, DiskInvAlways, PTL DEF Spec, ImplementsBlockDevice, Disk!Spec
==============================================================================
