-------------------------- MODULE TicketLockProofs --------------------------
(***************************************************************************)
(* Proofs about TicketLock for any number of CPUs smaller than the number  *)
(* of tickets.  QueueInv is the inductive invariant: the CPUs in the queue *)
(* hold exactly the tickets from `next' up to `ticket', each one its own.  *)
(* That their number is the distance between the two counters is what      *)
(* keeps a wrapped counter from handing out a ticket twice.                *)
(***************************************************************************)
EXTENDS TicketLock, FiniteSetTheorems, TLAPS

\* There is at least one ticket.
LEMMA ModPositive == Mod \in Nat /\ Mod > 0
  BY TicketsSuffice, FS_CardinalityType

\* The u32 increment stays a u32.
LEMMA IncRange == ASSUME NEW x \in U32 PROVE Inc(x) \in U32
  BY ModPositive DEF U32, Inc

\* The u32 increment: plus one, or zero after the largest value.
LEMMA IncValue ==
  ASSUME NEW x \in U32 PROVE Inc(x) = IF x = Mod - 1 THEN 0 ELSE x + 1
  <1>1. CASE x = Mod - 1
    BY ModPositive, <1>1 DEF U32, Inc
  <1>2. CASE x # Mod - 1
    BY ModPositive, <1>2 DEF U32, Inc
  <1> QED BY <1>1, <1>2

\* The u32 subtraction: the difference, plus 2^32 where it is negative.
LEMMA DistValue ==
  ASSUME NEW x \in U32, NEW n \in U32
  PROVE  /\ Dist(x, n) = IF x >= n THEN x - n ELSE x - n + Mod
         /\ Dist(x, n) \in U32
  <1>1. CASE x >= n
    <2>1. x + Mod - n = (x - n) + 1 * Mod /\ x - n \in 0 .. Mod - 1
      BY ModPositive, <1>1 DEF U32
    <2>2. (x + Mod - n) % Mod = x - n
      BY ModPositive, <2>1
    <2> QED BY <1>1, <2>1, <2>2, ModPositive DEF Dist, U32
  <1>2. CASE x < n
    <2>1. x + Mod - n \in 0 .. Mod - 1
      BY ModPositive, <1>2 DEF U32
    <2>2. (x + Mod - n) % Mod = x + Mod - n
      BY ModPositive, <2>1
    <2> QED BY <1>2, <2>1, <2>2, ModPositive DEF Dist, U32
  <1> QED BY <1>1, <1>2, ModPositive DEF U32

\* Two tickets at the same distance from `next' are one ticket.
LEMMA DistInjective ==
  ASSUME NEW x \in U32, NEW y \in U32, NEW n \in U32, Dist(x, n) = Dist(y, n)
  PROVE  x = y
  <1>1. Dist(x, n) = IF x >= n THEN x - n ELSE x - n + Mod
    BY DistValue
  <1>2. Dist(y, n) = IF y >= n THEN y - n ELSE y - n + Mod
    BY DistValue
  <1>3. (IF x >= n THEN x - n ELSE x - n + Mod) = (IF y >= n THEN y - n ELSE y - n + Mod)
    BY <1>1, <1>2
  <1> QED BY <1>3, ModPositive DEF U32

\* The ticket being served is at distance zero.
LEMMA DistZero == ASSUME NEW n \in U32 PROVE Dist(n, n) = 0
  BY DistValue, ModPositive DEF U32

\* The next ticket is one further away, unless the counters meet.
LEMMA DistArrive ==
  ASSUME NEW x \in U32, NEW n \in U32, Dist(x, n) # Mod - 1
  PROVE  Dist(Inc(x), n) = Dist(x, n) + 1
  <1>1. Dist(x, n) = IF x >= n THEN x - n ELSE x - n + Mod
    BY DistValue
  <1>2. Inc(x) \in U32 /\ Inc(x) = IF x = Mod - 1 THEN 0 ELSE x + 1
    BY IncRange, IncValue
  <1>3. Dist(Inc(x), n) = IF Inc(x) >= n THEN Inc(x) - n ELSE Inc(x) - n + Mod
    BY <1>2, DistValue
  <1> QED BY <1>1, <1>2, <1>3, ModPositive DEF U32

\* Serving one ticket brings every other one closer.
LEMMA DistServe ==
  ASSUME NEW x \in U32, NEW n \in U32, x # n
  PROVE  Dist(x, Inc(n)) = Dist(x, n) - 1
  <1>1. Dist(x, n) = IF x >= n THEN x - n ELSE x - n + Mod
    BY DistValue
  <1>2. Inc(n) \in U32 /\ Inc(n) = IF n = Mod - 1 THEN 0 ELSE n + 1
    BY IncRange, IncValue
  <1>3. Dist(x, Inc(n)) = IF x >= Inc(n) THEN x - Inc(n) ELSE x - Inc(n) + Mod
    BY <1>2, DistValue
  <1> QED BY <1>1, <1>2, <1>3, ModPositive DEF U32
-----------------------------------------------------------------------------
\* An armed monitor vouches for the ticket that was loaded: no store to the
\* lock came in between.
MonitorFresh ==
    \A c \in CPU : monitor[c] => pc[c] = "stxr" /\ mine[c] = ticket

\* The tickets in the queue lie between `next' and `ticket', all different.
TicketsInUse ==
    /\ \A c \in Queued : Ahead(mine[c]) < Ahead(ticket)
    /\ \A c, d \in Queued : mine[c] = mine[d] => c = d

\* There are as many CPUs in the queue as tickets between the two counters.
QueueLength == Cardinality(Queued) = Ahead(ticket)

HolderIsServed == \A c \in Holders : mine[c] = next

QueueInv ==
    /\ TypeOK
    /\ MonitorFresh
    /\ TicketsInUse
    /\ QueueLength
    /\ HolderIsServed

\* The queue of a lock that spinlock_init has set up is empty.
LEMMA QueueInit == Init => QueueInv
  <1> SUFFICES ASSUME Init PROVE QueueInv
    OBVIOUS
  <1>1. 0 \in U32
    BY ModPositive DEF U32
  <1>2. TypeOK
    BY <1>1 DEF Init, TypeOK
  <1>3. Queued = {} /\ Holders = {}
    BY DEF Init, Queued, Holders, Waiters
  <1>4. Ahead(ticket) = 0
    BY <1>1, DistZero DEF Init, Ahead
  <1>5. Cardinality(Queued) = 0
    BY <1>3, FS_EmptySet
  <1> QED
    BY <1>2, <1>3, <1>4, <1>5 DEF Init, QueueInv, MonitorFresh, TicketsInUse, QueueLength,
                                  HolderIsServed

\* The queue is a set of CPUs, so it is finite.
LEMMA QueueFinite == IsFiniteSet(Queued) /\ Cardinality(Queued) \in Nat
  <1>1. Queued \subseteq CPU
    BY DEF Queued, Holders, Waiters
  <1> QED BY <1>1, FS_Subset, FS_CardinalityType, TicketsSuffice

\* A CPU that is not queued finds a ticket left: the counters cannot meet.
LEMMA TicketLeft ==
  ASSUME QueueInv, NEW c \in CPU, c \notin Queued
  PROVE  Ahead(ticket) # Mod - 1
  <1>1. Queued \subseteq CPU \ {c}
    BY DEF Queued, Holders, Waiters
  <1>2. IsFiniteSet(CPU \ {c}) /\ Cardinality(CPU \ {c}) = Cardinality(CPU) - 1
    BY FS_RemoveElement, TicketsSuffice
  <1>3. Cardinality(Queued) <= Cardinality(CPU) - 1
    BY <1>1, <1>2, FS_Subset
  <1>4. Cardinality(CPU) \in Nat /\ Cardinality(Queued) \in Nat
    BY FS_CardinalityType, TicketsSuffice, QueueFinite
  <1> QED BY <1>3, <1>4, TicketsSuffice DEF QueueInv, QueueLength

\* A successful stxr appends the CPU to the queue.
LEMMA StoreKeeps ==
  ASSUME QueueInv, NEW c \in CPU, StoreTicket(c)
  PROVE  /\ QueueInv'
         /\ c \notin Queued /\ Queued' = Queued \cup {c} /\ Holders' = Holders
         /\ mine[c] = ticket
  <1> USE DEF QueueInv, TypeOK
  <1>1. c \notin Queued /\ mine[c] = ticket
    BY DEF StoreTicket, Queued, Holders, Waiters, MonitorFresh
  <1>2. Queued' = Queued \cup {c} /\ Holders' = Holders
    BY DEF StoreTicket, Goto, Queued, Holders, Waiters
  <1>3. TypeOK'
    BY IncRange DEF StoreTicket, Goto
  <1>4. next' = next /\ mine' = mine /\ ticket' = Inc(ticket)
    BY <1>1 DEF StoreTicket
  <1>5. Ahead(ticket)' = Ahead(ticket) + 1 /\ Ahead(ticket) \in Nat
    <2>1. Dist(ticket, next) # Mod - 1
      BY <1>1, TicketLeft DEF Ahead
    <2>2. Dist(Inc(ticket), next) = Dist(ticket, next) + 1 /\ Dist(ticket, next) \in U32
      BY <2>1, DistArrive, DistValue
    <2> QED BY <1>4, <2>2, ModPositive DEF Ahead, U32
  <1>6. \A d \in CPU : Ahead(mine[d])' = Ahead(mine[d]) /\ Ahead(mine[d]) \in Nat
    <2>1. \A d \in CPU : Dist(mine[d], next) \in U32
      BY DistValue
    <2> QED BY <1>4, <2>1, ModPositive DEF Ahead, U32
  <1>7. Queued \subseteq CPU
    BY DEF Queued, Holders, Waiters
  <1>8. \A d \in Queued' : Ahead(mine[d])' < Ahead(ticket)'
    BY <1>1, <1>2, <1>5, <1>6, <1>7 DEF TicketsInUse
  <1>9. \A d \in Queued : mine[d] # mine[c]
    BY <1>1, <1>5, <1>6, <1>7 DEF TicketsInUse
  <1>10. TicketsInUse'
    BY <1>2, <1>4, <1>8, <1>9 DEF TicketsInUse
  <1>11. QueueLength'
    <2>1. Cardinality(Queued \cup {c}) = Cardinality(Queued) + 1
      BY <1>1, FS_AddElement, QueueFinite
    <2> QED BY <1>2, <1>5, <2>1 DEF QueueLength
  <1>12. MonitorFresh' /\ HolderIsServed'
    BY <1>2, <1>4 DEF StoreTicket, MonitorFresh, HolderIsServed
  <1> QED BY <1>1, <1>2, <1>3, <1>10, <1>11, <1>12

\* spin_unlock removes the holder, who had the ticket `next', from the queue;
\* every other ticket comes one closer.
LEMMA ServeKeeps ==
  ASSUME QueueInv, NEW c \in CPU, ServeNext(c)
  PROVE  /\ QueueInv'
         /\ c \in Holders /\ Queued' = Queued \ {c} /\ Holders' = Holders \ {c}
         /\ \A d \in Queued \ {c} : Ahead(mine[d])' = Ahead(mine[d]) - 1
  <1> USE DEF QueueInv, TypeOK
  <1>1. c \in Holders /\ c \in Queued /\ mine[c] = next
    BY DEF ServeNext, Queued, Holders, HolderIsServed
  <1>2. Queued' = Queued \ {c} /\ Holders' = Holders \ {c}
    BY DEF ServeNext, Goto, Queued, Holders, Waiters
  <1>3. next' = Inc(next) /\ mine' = mine /\ ticket' = ticket
    BY DEF ServeNext
  <1>4. TypeOK'
    BY IncRange DEF ServeNext, Goto
  <1>5. Queued \subseteq CPU
    BY DEF Queued, Holders, Waiters
  <1>6. \A d \in Queued \ {c} : mine[d] # next
    BY <1>1 DEF TicketsInUse
  <1>7. \A d \in Queued \ {c} : Ahead(mine[d])' = Ahead(mine[d]) - 1
    BY <1>3, <1>5, <1>6, DistServe DEF Ahead
  <1>8. Dist(ticket, next) \in U32 /\ Dist(next, next) = 0
    BY DistValue, DistZero
  <1>9. ticket # next
    BY <1>1, <1>8, ModPositive DEF TicketsInUse, Ahead, U32
  <1>10. Ahead(ticket)' = Ahead(ticket) - 1
    BY <1>3, <1>9, DistServe DEF Ahead
  <1>11. \A d \in CPU : Ahead(mine[d]) \in Int
    <2>1. \A d \in CPU : Dist(mine[d], next) \in U32
      BY DistValue
    <2> QED BY <2>1, ModPositive DEF Ahead, U32
  <1>12. Ahead(ticket) \in Int
    BY <1>8, ModPositive DEF Ahead, U32
  <1>13. TicketsInUse'
    <2>1. ASSUME NEW d \in Queued \ {c} PROVE Ahead(mine[d])' < Ahead(ticket)'
      <3>1. Ahead(mine[d]) < Ahead(ticket)
        BY DEF TicketsInUse
      <3> QED BY <1>5, <1>7, <1>10, <1>11, <1>12, <3>1
    <2> QED BY <1>2, <1>3, <2>1 DEF TicketsInUse
  <1>14. QueueLength'
    <2>1. Cardinality(Queued \ {c}) = Cardinality(Queued) - 1
      BY <1>1, FS_RemoveElement, QueueFinite
    <2> QED BY <1>2, <1>10, <2>1 DEF QueueLength
  <1>15. HolderIsServed'
    <2>1. Holders \ {c} = {}
      BY <1>1, <1>6 DEF HolderIsServed, Queued
    <2> QED BY <1>2, <2>1 DEF HolderIsServed
  <1>16. MonitorFresh'
    <2>1. \A d \in CPU : monitor'[d] => monitor[d]
      BY DEF ServeNext
    <2>2. \A d \in CPU : monitor[d] => pc'[d] = "stxr"
      BY DEF ServeNext, Goto, MonitorFresh
    <2> QED BY <1>3, <2>1, <2>2 DEF MonitorFresh
  <1> QED BY <1>1, <1>2, <1>4, <1>7, <1>13, <1>14, <1>15, <1>16

\* The steps that neither arrive, acquire nor release.
Quiet(c) == LoadTicket(c) \/ StoreFails(c) \/ NotServed(c) \/ Wfe(c) \/ Sev(c)

\* Loading a ticket, a failed stxr, a failed compare, wfe and sev change
\* nothing of the queue.
LEMMA QuietKeeps ==
  ASSUME QueueInv, NEW c \in CPU, Quiet(c)
  PROVE  /\ QueueInv'
         /\ Queued' = Queued /\ Holders' = Holders
         /\ next' = next /\ \A d \in Queued : mine'[d] = mine[d]
  <1> USE DEF QueueInv, TypeOK
  <1>1. Queued' = Queued /\ Holders' = Holders
    BY DEF Quiet, LoadTicket, StoreFails, NotServed, Wfe, Sev, Goto, Queued, Holders, Waiters
  <1>2. /\ next' = next /\ ticket' = ticket
        /\ \A d \in Queued : mine'[d] = mine[d]
    <2>1. CASE LoadTicket(c)
      <3>1. c \notin Queued
        BY <2>1 DEF LoadTicket, Queued, Holders, Waiters
      <3> QED BY <2>1, <3>1 DEF LoadTicket, Queued, Holders, Waiters
    <2>2. CASE StoreFails(c) \/ NotServed(c) \/ Wfe(c) \/ Sev(c)
      BY <2>2 DEF StoreFails, NotServed, Wfe, Sev
    <2> QED BY <2>1, <2>2 DEF Quiet
  <1>3. TypeOK'
    <2>1. CASE LoadTicket(c)
      BY <2>1 DEF LoadTicket, Goto
    <2>2. CASE StoreFails(c)
      BY <2>2 DEF StoreFails, Goto
    <2>3. CASE NotServed(c)
      BY <2>3 DEF NotServed, Goto
    <2>4. CASE Wfe(c)
      BY <2>4 DEF Wfe, Goto
    <2>5. CASE Sev(c)
      BY <2>5 DEF Sev, Goto
    <2> QED BY <2>1, <2>2, <2>3, <2>4, <2>5 DEF Quiet
  <1>4. MonitorFresh'
    BY DEF Quiet, LoadTicket, StoreFails, NotServed, Wfe, Sev, Goto, MonitorFresh
  <1>5. TicketsInUse'
    BY <1>1, <1>2 DEF TicketsInUse, Ahead
  <1>6. QueueLength'
    BY <1>1, <1>2 DEF QueueLength, Ahead
  <1>7. HolderIsServed'
    BY <1>1, <1>2 DEF HolderIsServed, Queued
  <1> QED BY <1>1, <1>2, <1>3, <1>4, <1>5, <1>6, <1>7

\* A CPU whose ticket is `next' takes the lock.
LEMMA ServedKeeps ==
  ASSUME QueueInv, NEW c \in CPU, Served(c)
  PROVE  /\ QueueInv'
         /\ c \in Queued /\ Queued' = Queued /\ Holders' = Holders \cup {c}
         /\ Holders = {} /\ mine[c] = next
         /\ next' = next /\ mine' = mine
  <1> USE DEF QueueInv, TypeOK
  <1>1. c \in Queued /\ Queued' = Queued /\ Holders' = Holders \cup {c} /\ c \notin Holders
    BY DEF Served, Goto, Queued, Holders, Waiters
  <1>2. mine[c] = next /\ next' = next /\ mine' = mine /\ ticket' = ticket
    BY DEF Served
  <1>3. Holders = {}
    BY <1>1, <1>2 DEF HolderIsServed, TicketsInUse, Queued
  <1>4. TypeOK'
    BY DEF Served, Goto
  <1>5. MonitorFresh'
    BY DEF Served, Goto, MonitorFresh
  <1>6. TicketsInUse' /\ QueueLength'
    BY <1>1, <1>2 DEF TicketsInUse, QueueLength, Ahead
  <1>7. HolderIsServed'
    BY <1>1, <1>2, <1>3 DEF HolderIsServed
  <1> QED BY <1>1, <1>2, <1>3, <1>4, <1>5, <1>6, <1>7

\* Every step of spin_lock and spin_unlock preserves the queue.
LEMMA QueueStep == QueueInv /\ [Next]_vars => QueueInv'
  <1> SUFFICES ASSUME QueueInv, [Next]_vars PROVE QueueInv'
    OBVIOUS
  <1>1. ASSUME NEW c \in CPU, StoreTicket(c) PROVE QueueInv'
    BY <1>1, StoreKeeps
  <1>2. ASSUME NEW c \in CPU, ServeNext(c) PROVE QueueInv'
    BY <1>2, ServeKeeps
  <1>3. ASSUME NEW c \in CPU, Served(c) PROVE QueueInv'
    BY <1>3, ServedKeeps
  <1>4. ASSUME NEW c \in CPU, Quiet(c) PROVE QueueInv'
    BY <1>4, QuietKeeps
  <1>5. CASE UNCHANGED vars
    BY <1>5 DEF vars, QueueInv, TypeOK, MonitorFresh, TicketsInUse, QueueLength, HolderIsServed,
                Ahead, Queued, Holders, Waiters
  <1> QED
    BY <1>1, <1>2, <1>3, <1>4, <1>5 DEF Next, SpinLock, SpinUnlock, Quiet

\* The queue invariant holds in every reachable state.
THEOREM QueueCorrect == Spec => []QueueInv
  BY QueueInit, QueueStep, PTL DEF Spec

\* The counters stay 32 bits wide and the lock's state well formed.
THEOREM TypeCorrect == Spec => []TypeOK
  <1>1. QueueInv => TypeOK
    BY DEF QueueInv
  <1> QED BY <1>1, QueueCorrect, PTL

\* spin_lock admits one CPU at a time, for any number of CPUs and at any point
\* of the counters' wrap.
THEOREM Exclusion == Spec => []MutualExclusion
  <1>1. QueueInv => MutualExclusion
    BY DEF QueueInv, HolderIsServed, TicketsInUse, MutualExclusion, Queued
  <1> QED BY <1>1, QueueCorrect, PTL

\* spin_lock/spin_unlock refine the first-come-first-served lock: a successful
\* stxr is the arrival, the compare the acquisition, the store to `next' the
\* release.
THEOREM Refinement == Spec => ImplementsFifoLock
  <1>1. Init => Fifo!Init
    <2> SUFFICES ASSUME Init PROVE Fifo!Init
      OBVIOUS
    <2>1. Queued = {} /\ Holders = {}
      BY DEF Init, Queued, Holders, Waiters
    <2> QED BY <2>1 DEF Fifo!Init, ArrivalOrder
  <1>2. QueueInv /\ [Next]_vars => [Fifo!Next]_Fifo!vars
    <2> SUFFICES ASSUME QueueInv, [Next]_vars PROVE [Fifo!Next]_Fifo!vars
      OBVIOUS
    <2>0. Queued \subseteq CPU /\ \A d \in CPU : mine[d] \in U32 /\ next \in U32 /\ ticket \in U32
      BY DEF Queued, Holders, Waiters, QueueInv, TypeOK
    <2>a. \A d \in Queued : Ahead(mine[d]) \in Int /\ Ahead(mine[d]) >= 0
      <3>1. \A d \in Queued : Dist(mine[d], next) \in U32
        BY <2>0, DistValue
      <3> QED BY <3>1, ModPositive DEF Ahead, U32
    <2>1. ASSUME NEW c \in CPU, StoreTicket(c) PROVE Fifo!Arrive(c)
      <3>1. /\ c \notin Queued /\ Queued' = Queued \cup {c} /\ Holders' = Holders
            /\ mine[c] = ticket
        BY <2>1, StoreKeeps
      <3>2. mine' = mine /\ next' = next
        BY <2>1 DEF StoreTicket
      <3>3. \A d \in Queued : Ahead(mine[d]) < Ahead(mine[c])
        BY <3>1 DEF QueueInv, TicketsInUse
      <3>4. Ahead(mine[c]) \in Int
        <4>1. Dist(mine[c], next) \in U32
          BY <2>0, DistValue
        <4> QED BY <4>1, ModPositive DEF Ahead, U32
      <3>5. \A d \in CPU : Ahead(mine[d])' = Ahead(mine[d])
        BY <3>2 DEF Ahead
      <3>6. ArrivalOrder' = ArrivalOrder \cup (Queued \X {c})
        <4>1. \A d, e \in Queued \cup {c} :
                 Ahead(mine[d])' < Ahead(mine[e])' <=>
                    \/ d \in Queued /\ e \in Queued /\ Ahead(mine[d]) < Ahead(mine[e])
                    \/ d \in Queued /\ e = c
          BY <2>0, <2>a, <3>1, <3>3, <3>4, <3>5
        <4> QED BY <3>1, <4>1 DEF ArrivalOrder
      <3> QED BY <3>1, <3>6 DEF Fifo!Arrive
    <2>2. ASSUME NEW c \in CPU, Served(c) PROVE Fifo!Acquire(c)
      <3>1. /\ c \in Queued /\ Queued' = Queued /\ Holders' = Holders \cup {c}
            /\ Holders = {} /\ mine[c] = next /\ next' = next /\ mine' = mine
        BY <2>2, ServedKeeps
      <3>2. Ahead(mine[c]) = 0
        BY <2>0, <3>1, DistZero DEF Ahead
      <3>3. \A d \in Queued : <<d, c>> \notin ArrivalOrder
        BY <2>a, <3>2 DEF ArrivalOrder
      <3>4. ArrivalOrder' = ArrivalOrder
        BY <3>1 DEF ArrivalOrder, Ahead
      <3> QED BY <3>1, <3>3, <3>4 DEF Fifo!Acquire
    <2>3. ASSUME NEW c \in CPU, ServeNext(c) PROVE Fifo!Release(c)
      <3>1. /\ c \in Holders /\ Queued' = Queued \ {c} /\ Holders' = Holders \ {c}
            /\ \A d \in Queued \ {c} : Ahead(mine[d])' = Ahead(mine[d]) - 1
        BY <2>3, ServeKeeps
      <3>2. Holders = {c}
        BY <3>1 DEF QueueInv, HolderIsServed, TicketsInUse, Queued
      <3>3. \A d, e \in Queued \ {c} :
               Ahead(mine[d])' < Ahead(mine[e])' <=> Ahead(mine[d]) < Ahead(mine[e])
        BY <2>a, <3>1
      <3>4. ArrivalOrder' = {p \in ArrivalOrder : p[1] # c /\ p[2] # c}
        BY <3>1, <3>3 DEF ArrivalOrder
      <3> QED BY <3>1, <3>2, <3>4 DEF Fifo!Release
    <2>4. ASSUME NEW c \in CPU, Quiet(c) PROVE UNCHANGED Fifo!vars
      <3>1. /\ Queued' = Queued /\ Holders' = Holders
            /\ next' = next /\ \A d \in Queued : mine'[d] = mine[d]
        BY <2>4, QuietKeeps
      <3>2. ArrivalOrder' = ArrivalOrder
        BY <3>1 DEF ArrivalOrder, Ahead
      <3> QED BY <3>1, <3>2 DEF Fifo!vars
    <2>5. CASE UNCHANGED vars
      BY <2>5 DEF vars, Fifo!vars, ArrivalOrder, Ahead, Queued, Holders, Waiters
    <2> QED
      BY <2>1, <2>2, <2>3, <2>4, <2>5 DEF Next, SpinLock, SpinUnlock, Quiet, Fifo!Next
  <1> QED BY <1>1, <1>2, QueueCorrect, PTL DEF Spec, ImplementsFifoLock, Fifo!Spec
=============================================================================
