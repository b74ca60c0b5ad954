----------------------------- MODULE VgicProofs -------------------------------
(***************************************************************************)
(* Proofs about the two halves of the virtual interrupt controller:        *)
(* VgicLr, for any set of interrupts and any number of list registers, and *)
(* VgicMmio, for any number of CPUs and interrupts.                        *)
(***************************************************************************)
EXTENDS VgicLr, VgicMmio, FiniteSetTheorems, TLAPS

(***************************************************************************)
(* List registers.  LrInv is inductive: that a register in use has its bit *)
(* in used_lr is not enough by itself, because the guest's end of          *)
(* interrupt may only deactivate what no other register carries.           *)
(***************************************************************************)
\* Every interrupt that a list register carries is active at the GIC.
CarriedIsActive ==
    \A n \in Live : lr[n].irq \in Irq => lr[n].irq \in active

\* The guest is in devintr for a list register it has acknowledged.
ServingIsActive ==
    serving # NLr => lr[serving].state = "active"

LrInv ==
    /\ TypeOK
    /\ UsedCoversLive
    /\ OneLrPerIrq
    /\ CarriedIsActive
    /\ ServingIsActive

\* The list registers are powered up empty, with an empty used_lr.
LEMMA LrInvInit == Init => LrInv
  <1> SUFFICES ASSUME Init PROVE LrInv
    OBVIOUS
  <1>1. NLr \in Nat /\ NLr >= 1 /\ MaxRaise \in Nat
    BY LrAssumption
  <1>2. TypeOK
    <2>1. lr \in [Lr -> [state : LrState, irq : Irq \cup {Spurious}]]
      BY Zenon DEF Init, LrState
    <2>2. raised \in [Irq -> 0 .. MaxRaise] /\ serving \in 0 .. NLr
      BY <1>1 DEF Init
    <2> QED BY <2>1, <2>2, Zenon DEF Init, TypeOK
  <1>3. Live = {}
    BY Zenon DEF Init, Live
  <1> QED
    BY <1>2, <1>3 DEF Init, LrInv, UsedCoversLive, OneLrPerIrq, CarriedIsActive,
                      ServingIsActive

\* vgic_inject_virq of an interrupt that no list register carries keeps the
\* bookkeeping right, whether or not a list register was free.
LEMMA InjectKeeps ==
  ASSUME LrInv, NEW i \in Irq \cup {Spurious}, InjectVirq(i),
         serving' = serving,
         active' \subseteq Irq, active \subseteq active',
         i \in Irq => i \in active' /\ i \notin active
  PROVE  /\ lr' \in [Lr -> [state : LrState, irq : Irq \cup {Spurious}]]
         /\ used_lr' \subseteq Lr
         /\ UsedCoversLive' /\ OneLrPerIrq' /\ CarriedIsActive' /\ ServingIsActive'
  <1> USE DEF LrInv, TypeOK
  <1>1. CASE FreeLr = {} /\ UNCHANGED <<lr, used_lr>>
    BY <1>1, Zenon DEF Live, UsedCoversLive, OneLrPerIrq, CarriedIsActive, ServingIsActive
  <1>2. ASSUME NEW n \in FreeLr, lr' = LrWrite(n, i), used_lr' = used_lr \cup {n}
        PROVE  /\ lr' \in [Lr -> [state : LrState, irq : Irq \cup {Spurious}]]
               /\ used_lr' \subseteq Lr
               /\ UsedCoversLive' /\ OneLrPerIrq' /\ CarriedIsActive' /\ ServingIsActive'
    <2>1. n \in Lr /\ n \notin Live
      BY Zenon DEF FreeLr, UsedCoversLive
    <2>2. /\ lr' \in [Lr -> [state : LrState, irq : Irq \cup {Spurious}]]
          /\ lr'[n].state = "pending" /\ lr'[n].irq = i
          /\ \A m \in Lr \ {n} : lr'[m] = lr[m]
      BY <1>2, <2>1, Zenon DEF LrWrite, LrState
    <2>3. Live' = Live \cup {n}
      BY <2>1, <2>2, Zenon DEF Live
    <2>4. UsedCoversLive' /\ used_lr' \subseteq Lr
      BY <1>2, <2>1, <2>3, Zenon DEF UsedCoversLive
    <2>5. CarriedIsActive'
      BY <2>1, <2>2, <2>3, Zenon DEF CarriedIsActive, Live
    <2>6. \A m \in Live : lr[m].irq \in Irq => lr[m].irq # i
      BY Zenon DEF CarriedIsActive
    <2>7. OneLrPerIrq'
      BY <2>1, <2>2, <2>3, <2>6 DEF OneLrPerIrq, Live
    <2>8. ServingIsActive'
      <3>1. SUFFICES ASSUME serving # NLr PROVE lr'[serving].state = "active"
        BY Zenon DEF ServingIsActive
      <3>2. serving \in Lr
        BY <3>1, LrAssumption DEF Lr
      <3>3. serving # n
        BY <3>1, <3>2, <2>1, Zenon DEF ServingIsActive, Live
      <3> QED BY <3>1, <3>2, <3>3, <2>2, Zenon DEF ServingIsActive
    <2> QED BY <2>2, <2>4, <2>5, <2>7, <2>8, Zenon
  <1> QED BY <1>1, <1>2, Zenon DEF InjectVirq

\* Every step of the sources, of lower_el_irq_handler and of the guest
\* preserves the bookkeeping.
LEMMA LrInvStep == LrInv /\ [Next]_vars => LrInv'
  <1> SUFFICES ASSUME LrInv, [Next]_vars PROVE LrInv'
    OBVIOUS
  <1> USE DEF LrInv
  <1>0. NLr \in Nat /\ NLr >= 1 /\ MaxRaise \in Nat
    BY LrAssumption
  <1>1. ASSUME NEW i \in Irq, Raise(i) PROVE LrInv'
    <2>1. TypeOK'
      BY <1>0, <1>1 DEF Raise, TypeOK
    <2> QED
      BY <1>1, <2>1 DEF Raise, Live, UsedCoversLive, OneLrPerIrq, CarriedIsActive,
                        ServingIsActive
  <1>2. ASSUME NEW i \in Irq, Withdraw(i) PROVE LrInv'
    <2>1. TypeOK'
      BY <1>2, Zenon DEF Withdraw, TypeOK
    <2> QED
      BY <1>2, <2>1 DEF Withdraw, Live, UsedCoversLive, OneLrPerIrq, CarriedIsActive,
                        ServingIsActive
  <1>3. CASE EnterEl2
    <2>1. TypeOK'
      BY <1>3, Zenon DEF EnterEl2, StillUsed, TypeOK
    <2>2. UsedCoversLive'
      BY <1>3, Zenon DEF EnterEl2, StillUsed, UsedCoversLive, Live
    <2> QED
      BY <1>3, <2>1, <2>2, Zenon DEF EnterEl2, Live, OneLrPerIrq, CarriedIsActive, ServingIsActive
  <1>4. ASSUME NEW i \in Irq, Forward(i) PROVE LrInv'
    <2>1. /\ i \notin active /\ active' = active \cup {i} /\ serving' = serving
          /\ InjectVirq(i) /\ pend' \subseteq Irq /\ active' \subseteq Irq
          /\ el2' = FALSE /\ raised' = raised
      BY <1>4, Zenon DEF Forward, Signalled, TypeOK
    <2>2. /\ lr' \in [Lr -> [state : LrState, irq : Irq \cup {Spurious}]]
          /\ used_lr' \subseteq Lr
          /\ UsedCoversLive' /\ OneLrPerIrq' /\ CarriedIsActive' /\ ServingIsActive'
      BY <2>1, InjectKeeps, Zenon
    <2> QED BY <2>1, <2>2, Zenon DEF TypeOK
  <1>5. CASE ForwardSpurious
    <2>1. /\ active' = active /\ active' \subseteq Irq /\ serving' = serving
          /\ InjectVirq(Spurious) /\ pend' = pend /\ el2' = FALSE /\ raised' = raised
      BY <1>5, Zenon DEF ForwardSpurious, TypeOK
    <2>2. /\ lr' \in [Lr -> [state : LrState, irq : Irq \cup {Spurious}]]
          /\ used_lr' \subseteq Lr
          /\ UsedCoversLive' /\ OneLrPerIrq' /\ CarriedIsActive' /\ ServingIsActive'
      BY <2>1, InjectKeeps, LrAssumption, Zenon
    <2> QED BY <2>1, <2>2, Zenon DEF TypeOK
  <1>6. ASSUME NEW n \in Lr, GuestAck(n) PROVE LrInv'
    <2>1. /\ lr' \in [Lr -> [state : LrState, irq : Irq \cup {Spurious}]]
          /\ lr'[n].state = "active" /\ lr[n].state = "pending"
          /\ \A m \in Lr : lr'[m].irq = lr[m].irq
          /\ \A m \in Lr \ {n} : lr'[m] = lr[m]
      BY <1>6, Zenon DEF GuestAck, TypeOK, LrState
    <2>2. Live' = Live
      BY <2>1, Zenon DEF Live
    <2>3. TypeOK'
      BY <1>0, <1>6, <2>1 DEF GuestAck, TypeOK, Lr
    <2> QED
      BY <1>6, <2>1, <2>2, <2>3 DEF GuestAck, Live, UsedCoversLive, OneLrPerIrq,
                                    CarriedIsActive, ServingIsActive
  <1>7. CASE GuestEoi
    <2>1. serving \in Lr /\ lr[serving].state = "active" /\ serving' = NLr
      BY <1>0, <1>7 DEF GuestEoi, TypeOK, Lr, ServingIsActive
    <2>2. /\ lr' \in [Lr -> [state : LrState, irq : Irq \cup {Spurious}]]
          /\ lr'[serving].state = "inactive"
          /\ \A m \in Lr \ {serving} : lr'[m] = lr[m]
      BY <1>7, <2>1, Zenon DEF GuestEoi, TypeOK, LrState
    <2>3. Live' = Live \ {serving} /\ serving \in Live
      BY <2>1, <2>2, Zenon DEF Live
    <2>4. TypeOK'
      BY <1>0, <1>7, <2>2 DEF GuestEoi, TypeOK
    <2>5. UsedCoversLive' /\ ServingIsActive'
      BY <1>7, <2>1, <2>3, Zenon DEF GuestEoi, UsedCoversLive, ServingIsActive
    <2>6. OneLrPerIrq'
      BY <2>2, <2>3 DEF OneLrPerIrq, Live
    <2>7. CarriedIsActive'
      <3>1. SUFFICES ASSUME NEW m \in Live \ {serving}, lr[m].irq \in Irq
                     PROVE  lr[m].irq \in active'
        BY <2>2, <2>3, Zenon DEF CarriedIsActive, Live
      <3>2. lr[m].irq # lr[serving].irq
        BY <2>3, <3>1, Zenon DEF OneLrPerIrq
      <3> QED BY <1>7, <3>1, <3>2, Zenon DEF GuestEoi, CarriedIsActive
    <2> QED BY <2>4, <2>5, <2>6, <2>7, Zenon
  <1>8. CASE GuestIgnores
    <2>1. TypeOK'
      BY <1>0, <1>8 DEF GuestIgnores, TypeOK
    <2> QED
      BY <1>8, <2>1 DEF GuestIgnores, Live, UsedCoversLive, OneLrPerIrq, CarriedIsActive,
                        ServingIsActive
  <1>9. CASE UNCHANGED vars
    BY <1>9 DEF vars, TypeOK, Live, UsedCoversLive, OneLrPerIrq, CarriedIsActive,
                ServingIsActive
  <1> QED
    BY <1>1, <1>2, <1>3, <1>4, <1>5, <1>6, <1>7, <1>8, <1>9, Zenon
       DEF Next, Source, Handler, Guest

\* The strengthened bookkeeping invariant holds in every reachable state.
THEOREM Bookkeeping == Spec => []LrInv
  BY LrInvInit, LrInvStep, PTL DEF Spec

\* Every behaviour keeps the types of the list registers and of used_lr.
THEOREM TypeCorrect == Spec => []TypeOK
  <1>1. LrInv => TypeOK
    BY Zenon DEF LrInv
  <1> QED BY <1>1, Bookkeeping, PTL

\* However late vgic_used_lr_update runs, a list register in use has its bit.
THEOREM LiveIsCovered == Spec => []UsedCoversLive
  <1>1. LrInv => UsedCoversLive
    BY Zenon DEF LrInv
  <1> QED BY <1>1, Bookkeeping, PTL

\* No interrupt is ever in two list registers.
THEOREM CarriedOnce == Spec => []OneLrPerIrq
  <1>1. LrInv => OneLrPerIrq
    BY Zenon DEF LrInv
  <1> QED BY <1>1, Bookkeeping, PTL
-----------------------------------------------------------------------------
(* With a list register for every interrupt, and sources that stay raised   *)
(* until they are acknowledged, no interrupt is lost.                      *)

EnoughLrs == Withdrawn = {} /\ Cardinality(Irq) <= NLr

\* What makes that inductive: the handler works on an exact used_lr, and
\* finds the interrupt it was entered for still signalled.
ExactInv ==
    /\ LrInv
    /\ ActiveIsCarried
    /\ el2 => used_lr \subseteq Live /\ Signalled # {}

\* vgic_lr_alloc finds a list register for an interrupt that is not active.
LEMMA LrIsFree ==
  ASSUME EnoughLrs, ExactInv, el2, NEW i \in Irq, i \notin active
  PROVE  FreeLr # {}
  <1> SUFFICES ASSUME FreeLr = {} PROVE FALSE
    OBVIOUS
  <1>1. Live = Lr
    BY Zenon DEF ExactInv, FreeLr, Live, LrInv, TypeOK
  <1> DEFINE f == [n \in Lr |-> lr[n].irq]
  <1>2. \A n \in Lr : lr[n].irq \in active
    BY <1>1, Zenon DEF ExactInv, ActiveIsCarried
  <1>3. active \subseteq Irq \ {i}
    BY Zenon DEF ExactInv, LrInv, TypeOK
  <1>4. IsFiniteSet(Irq \ {i}) /\ Cardinality(Irq \ {i}) = Cardinality(Irq) - 1
    BY FS_RemoveElement, LrAssumption, Zenon
  <1>5. IsFiniteSet(Lr) /\ Cardinality(Lr) = NLr
    BY FS_Interval, LrAssumption DEF Lr
  <1>6. Cardinality(Irq) \in Nat
    BY FS_CardinalityType, LrAssumption, Zenon
  <1>7. f \in [Lr -> Irq \ {i}]
    BY <1>2, <1>3, Zenon
  <1>8. Cardinality(Irq \ {i}) < Cardinality(Lr)
    BY <1>4, <1>5, <1>6, LrAssumption DEF EnoughLrs
  <1> HIDE DEF f
  <1>9. PICK m, n \in Lr : m # n /\ f[m] = f[n]
    BY <1>4, <1>5, <1>7, <1>8, FS_PigeonHole, Zenon
  <1>10. lr[m].irq = lr[n].irq /\ lr[m].irq \in Irq
    BY <1>2, <1>3, <1>9, Zenon DEF f
  <1> QED BY <1>1, <1>9, <1>10, Zenon DEF ExactInv, LrInv, OneLrPerIrq

\* Nothing is carried, signalled or active when the guest is entered.
LEMMA ExactInit == Init => ExactInv
  <1> SUFFICES ASSUME Init PROVE ExactInv
    OBVIOUS
  <1>1. Live = {}
    BY Zenon DEF Init, Live
  <1> QED BY <1>1, LrInvInit, Zenon DEF Init, ExactInv, ActiveIsCarried

\* Every step keeps the active interrupts those that list registers carry.
LEMMA ExactStep == ASSUME EnoughLrs PROVE ExactInv /\ [Next]_vars => ExactInv'
  <1> SUFFICES ASSUME ExactInv, [Next]_vars PROVE ExactInv'
    OBVIOUS
  <1>0. LrInv /\ LrInv'
    BY LrInvStep, Zenon DEF ExactInv
  <1> USE DEF ExactInv
  <1>1. ASSUME NEW i \in Irq, Raise(i) PROVE ExactInv'
    BY <1>0, <1>1, Zenon DEF Raise, Live, ActiveIsCarried, Signalled
  <1>2. ASSUME NEW i \in Irq, Withdraw(i) PROVE ExactInv'
    BY <1>2, Zenon DEF Withdraw, EnoughLrs
  <1>3. CASE EnterEl2
    BY <1>0, <1>3, Zenon DEF EnterEl2, StillUsed, Live, ActiveIsCarried, Signalled, LrInv, TypeOK
  <1>4. ASSUME NEW i \in Irq, Forward(i) PROVE ExactInv'
    <2>1. el2 /\ i \notin active /\ active' = active \cup {i} /\ InjectVirq(i) /\ ~el2'
      BY <1>4, Zenon DEF Forward, Signalled
    <2>2. FreeLr # {}
      BY <2>1, LrIsFree, Zenon
    <2>3. PICK n \in FreeLr : lr' = LrWrite(n, i)
      BY <2>1, <2>2, Zenon DEF InjectVirq
    <2>4. n \in Lr /\ n \notin Live
      BY <1>0, Zenon DEF FreeLr, LrInv, UsedCoversLive
    <2>5. /\ lr'[n].state = "pending" /\ lr'[n].irq = i
          /\ \A m \in Lr \ {n} : lr'[m] = lr[m]
      BY <1>0, <2>3, <2>4, Zenon DEF LrWrite, LrInv, TypeOK
    <2>6. Live' = Live \cup {n}
      BY <2>4, <2>5, Zenon DEF Live
    <2>7. {lr'[m].irq : m \in Live'} = {lr[m].irq : m \in Live} \cup {i}
      BY <2>4, <2>5, <2>6 DEF Live
    <2> QED BY <1>0, <2>1, <2>7, Zenon DEF ActiveIsCarried
  <1>5. CASE ForwardSpurious
    BY <1>5, Zenon DEF ForwardSpurious
  <1>6. ASSUME NEW n \in Lr, GuestAck(n) PROVE ExactInv'
    <2>1. /\ lr'[n].state = "active" /\ lr[n].state = "pending"
          /\ \A m \in Lr : lr'[m].irq = lr[m].irq
          /\ \A m \in Lr \ {n} : lr'[m] = lr[m]
      BY <1>0, <1>6, Zenon DEF GuestAck, LrInv, TypeOK
    <2>2. Live' = Live
      BY <2>1, Zenon DEF Live
    <2>3. {lr'[m].irq : m \in Live'} = {lr[m].irq : m \in Live}
      BY <2>1, <2>2 DEF Live
    <2> QED BY <1>0, <1>6, <2>3, Zenon DEF GuestAck, ActiveIsCarried
  <1>7. CASE GuestEoi
    <2>1. serving \in Lr /\ lr[serving].state = "active"
      BY <1>0, <1>7, LrAssumption DEF GuestEoi, LrInv, TypeOK, Lr, ServingIsActive
    <2>2. /\ lr'[serving].state = "inactive"
          /\ \A m \in Lr \ {serving} : lr'[m] = lr[m]
      BY <1>0, <1>7, <2>1, Zenon DEF GuestEoi, LrInv, TypeOK
    <2>3. Live' = Live \ {serving} /\ serving \in Live
      BY <2>1, <2>2, Zenon DEF Live
    <2>4. \A m \in Live' : lr'[m].irq = lr[m].irq
      BY <2>2, <2>3, Zenon DEF Live
    <2>5. \A m \in Live \ {serving} : lr[m].irq # lr[serving].irq
      BY <1>0, <2>3, Zenon DEF LrInv, TypeOK, ActiveIsCarried, OneLrPerIrq
    <2>6. {lr'[m].irq : m \in Live'} = {lr[m].irq : m \in Live} \ {lr[serving].irq}
      BY <2>3, <2>4, <2>5
    <2> QED BY <1>0, <1>7, <2>6, Zenon DEF GuestEoi, ActiveIsCarried
  <1>8. CASE GuestIgnores
    BY <1>0, <1>8, Zenon DEF GuestIgnores, Live, ActiveIsCarried, Signalled
  <1>9. CASE UNCHANGED vars
    BY <1>0, <1>9, Zenon DEF vars, Live, ActiveIsCarried, Signalled
  <1> QED
    BY <1>1, <1>2, <1>3, <1>4, <1>5, <1>6, <1>7, <1>8, <1>9, Zenon
       DEF Next, Source, Handler, Guest

\* An interrupt acknowledged by lower_el_irq_handler is always in a list
\* register until the guest ends it: vgic_inject_virq never runs out.
THEOREM NothingLost == ASSUME EnoughLrs PROVE Spec => []ActiveIsCarried
  <1>1. ExactInv => ActiveIsCarried
    BY Zenon DEF ExactInv
  <1>2. ExactInv /\ [Next]_vars => ExactInv'
    BY ExactStep, Zenon
  <1> QED BY <1>1, <1>2, ExactInit, PTL DEF Spec

\* gic_write_lr only ever writes a list register that carries nothing.
THEOREM LrNotOverwritten == Spec => NoLrOverwritten
  <1>1. LrInv /\ [Next]_vars => [\A n \in Live : lr[n].irq = lr'[n].irq]_vars
    <2> SUFFICES ASSUME LrInv, Next, NEW n \in Live PROVE lr[n].irq = lr'[n].irq
      OBVIOUS
    <2>1. lr \in [Lr -> [state : LrState, irq : Irq \cup {Spurious}]] /\ n \in Lr
      BY Zenon DEF LrInv, TypeOK, Live
    <2>2. ASSUME NEW i, InjectVirq(i) PROVE lr[n].irq = lr'[n].irq
      BY <2>1, <2>2, Zenon DEF InjectVirq, FreeLr, LrWrite, LrInv, UsedCoversLive
    <2>3. CASE Source
      BY <2>3, Zenon DEF Source, Raise, Withdraw
    <2>4. CASE Handler
      BY <2>2, <2>4, Zenon DEF Handler, EnterEl2, Forward, ForwardSpurious
    <2>5. CASE Guest
      BY <2>1, <2>5 DEF Guest, GuestAck, GuestEoi, GuestIgnores
    <2> QED BY <2>3, <2>4, <2>5, Zenon DEF Next
  <1> QED BY <1>1, Bookkeeping, PTL DEF Spec, NoLrOverwritten
-----------------------------------------------------------------------------
(* With fewer list registers an interrupt may be lost, but only when every *)
(* one of them is in use: the handler works on a used_lr that it has just  *)
(* brought up to date, which is what has to be carried along.              *)

FreshInv == LrInv /\ (el2 => used_lr \subseteq Live)

\* vgic_used_lr_update leaves the bits of the list registers in use, and the
\* guest does not run before they are read.
LEMMA FreshStep == FreshInv /\ [Next]_vars => FreshInv'
  <1> SUFFICES ASSUME FreshInv, [Next]_vars PROVE FreshInv'
    OBVIOUS
  <1>0. LrInv /\ LrInv'
    BY LrInvStep, Zenon DEF FreshInv
  <1>1. CASE Source
    BY <1>0, <1>1 DEF Source, Raise, Withdraw, FreshInv, Live
  <1>2. CASE EnterEl2
    BY <1>0, <1>2, Zenon DEF EnterEl2, StillUsed, FreshInv, Live, LrInv, TypeOK
  <1>3. CASE (\E i \in Irq : Forward(i)) \/ ForwardSpurious
    BY <1>0, <1>3, Zenon DEF Forward, ForwardSpurious, FreshInv
  <1>4. CASE Guest
    BY <1>0, <1>4 DEF Guest, GuestAck, GuestEoi, GuestIgnores, FreshInv
  <1>5. CASE UNCHANGED vars
    BY <1>0, <1>5, Zenon DEF vars, FreshInv, Live
  <1> QED BY <1>1, <1>2, <1>3, <1>4, <1>5, Zenon DEF Next, Handler

\* A step loses an interrupt only in vgic_inject_virq, and there only when no
\* list register is free.
LEMMA LossStep ==
  ASSUME FreshInv, Next
  PROVE  Lost' \subseteq Lost \/ Live = Lr
  <1>0. LrInv /\ lr \in [Lr -> [state : LrState, irq : Irq \cup {Spurious}]]
    BY Zenon DEF FreshInv, LrInv, TypeOK
  <1>1. CASE Source
    BY <1>1, Zenon DEF Source, Raise, Withdraw, Lost, Live
  <1>2. CASE EnterEl2
    BY <1>2, Zenon DEF EnterEl2, Lost, Live
  <1>3. ASSUME NEW i, InjectVirq(i), el2, active' \subseteq active \cup {i}
        PROVE  Lost' \subseteq Lost \/ Live = Lr
    <2>1. CASE FreeLr = {}
      BY <1>3, <2>1, Zenon DEF FreeLr, FreshInv, Live
    <2>2. ASSUME NEW n \in FreeLr, lr' = LrWrite(n, i)
          PROVE  Lost' \subseteq Lost
      <3>1. n \in Lr /\ n \notin Live
        BY <1>0, Zenon DEF FreeLr, LrInv, UsedCoversLive
      <3>2. /\ lr'[n].state = "pending" /\ lr'[n].irq = i
            /\ \A m \in Lr \ {n} : lr'[m] = lr[m]
        BY <1>0, <2>2, <3>1, Zenon DEF LrWrite
      <3>3. n \in Live' /\ \A m \in Live : m \in Live' /\ lr'[m].irq = lr[m].irq
        BY <3>1, <3>2, Zenon DEF Live
      <3> QED BY <1>3, <3>2, <3>3 DEF Lost
    <2> QED BY <1>3, <2>1, <2>2, Zenon DEF InjectVirq
  <1>4. ASSUME NEW i \in Irq, Forward(i) PROVE Lost' \subseteq Lost \/ Live = Lr
    BY <1>3, <1>4, Zenon DEF Forward
  <1>5. CASE ForwardSpurious
    BY <1>3, <1>5, Zenon DEF ForwardSpurious
  <1>6. ASSUME NEW n \in Lr, GuestAck(n) PROVE Lost' \subseteq Lost
    <2>1. /\ lr'[n].state = "active" /\ lr[n].state = "pending"
          /\ \A m \in Lr : lr'[m].irq = lr[m].irq
          /\ \A m \in Lr \ {n} : lr'[m] = lr[m]
      BY <1>0, <1>6, Zenon DEF GuestAck
    <2>2. \A m \in Live : m \in Live' /\ lr'[m].irq = lr[m].irq
      BY <2>1, Zenon DEF Live
    <2> QED BY <1>6, <2>2, Zenon DEF GuestAck, Lost
  <1>7. CASE GuestEoi
    <2>0. serving \in 0 .. NLr /\ serving # NLr
      BY <1>0, <1>7, Zenon DEF GuestEoi, LrInv, TypeOK
    <2>1. serving \in Lr
      BY <2>0, LrAssumption DEF Lr
    <2>2. \A m \in Lr \ {serving} : lr'[m] = lr[m]
      BY <1>0, <1>7, <2>1, Zenon DEF GuestEoi
    <2>3. \A m \in Live \ {serving} : m \in Live' /\ lr'[m].irq = lr[m].irq
      BY <2>2, Zenon DEF Live
    <2> QED BY <1>7, <2>3, Zenon DEF GuestEoi, Lost
  <1>8. CASE GuestIgnores
    BY <1>8, Zenon DEF GuestIgnores, Lost, Live
  <1> QED
    BY <1>1, <1>2, <1>4, <1>5, <1>6, <1>7, <1>8, Zenon DEF Next, Handler, Guest

\* Whatever the number of list registers, vgic_inject_virq loses an interrupt
\* only when every one of them carries one the guest has not ended.
THEOREM LossMeansFull == Spec => LostOnlyWhenFull
  <1>1. Init => FreshInv
    BY LrInvInit, Zenon DEF Init, FreshInv
  <1>2. FreshInv /\ [Next]_vars => [Lost' \subseteq Lost \/ Live = Lr]_vars
    BY LossStep, Zenon
  <1> QED BY <1>1, <1>2, FreshStep, PTL DEF Spec, LostOnlyWhenFull

-------------------------------------------------------------------------------
(***************************************************************************)
(* The emulated distributor and redistributors: what the guest reads as    *)
(* enabled is forwarded, provided each CPU writes its own redistributor    *)
(* only.                                                                   *)
(*                                                                         *)
(* ForwardedWhenEnabled speaks of CPUs that are up.  PercpuInit disables   *)
(* PPIs behind the guest's back, so it needs BankedUntilUp: a CPU that is  *)
(* not up has no PPI enabled that could be lost.                           *)
(***************************************************************************)
OwnInv == MmioTypeOK /\ ForwardedWhenEnabled /\ BankedUntilUp

\* The state create_vm leaves behind satisfies the invariant.
LEMMA OwnInit == MmioInit => OwnInv
  <1> SUFFICES ASSUME MmioInit PROVE OwnInv
    OBVIOUS
  <1>1. 0 \in Cpu
    BY IrqAssumption DEF Cpu
  <1>2. MmioTypeOK
    BY <1>1, IrqAssumption, Zenon DEF MmioInit, MmioTypeOK, Priv
  <1>3. ForwardedWhenEnabled
    BY <1>1, IrqAssumption, Zenon DEF MmioInit, ForwardedWhenEnabled
  <1>4. BankedUntilUp
    BY Zenon DEF MmioInit, BankedUntilUp
  <1> QED BY <1>2, <1>3, <1>4, Zenon DEF OwnInv

\* Writes to enable bits keep the invariant: the guest's bit is set together
\* with that of the interrupt controller, on the CPU whose interrupt it is.
LEMMA EnableStep ==
    ASSUME OwnInv, ~CrossCpu, NEW c \in Cpu, NEW idx \in Cpu,
           NEW s \in (SUBSET Spi) \cup (SUBSET Priv),
           \/ GicdEnable(c, s) \/ GicdDisable(c, s)
           \/ s \in SUBSET Priv /\ (GicrEnable(c, idx, s) \/ GicrDisable(c, idx, s))
    PROVE  OwnInv'
  <1>1. CASE GicdEnable(c, s)
    <2> USE <1>1 DEF OwnInv, GicdEnable, IrqEnable, Runs, cpus
    <2>1. MmioTypeOK'
      BY Zenon DEF MmioTypeOK
    <2>2. ForwardedWhenEnabled'
      BY Zenon DEF ForwardedWhenEnabled, MmioTypeOK, Priv
    <2>3. BankedUntilUp'
      BY DEF BankedUntilUp, MmioTypeOK
    <2> QED BY <2>1, <2>2, <2>3, Zenon
  <1>2. CASE GicdDisable(c, s)
    <2> USE <1>2 DEF OwnInv, GicdDisable, IrqDisable, Runs, cpus, hardware
    <2>1. MmioTypeOK'
      BY Zenon DEF MmioTypeOK
    <2>2. ForwardedWhenEnabled'
      BY Zenon DEF ForwardedWhenEnabled, MmioTypeOK
    <2>3. BankedUntilUp'
      BY DEF BankedUntilUp, MmioTypeOK
    <2> QED BY <2>1, <2>2, <2>3, Zenon
  <1>3. CASE s \in SUBSET Priv /\ GicrEnable(c, idx, s)
    <2> USE <1>3 DEF OwnInv, GicrEnable, IrqEnable, Runs, Reach, cpus
    <2>1. MmioTypeOK'
      BY Zenon DEF MmioTypeOK
    <2>2. ForwardedWhenEnabled'
      BY Zenon DEF ForwardedWhenEnabled, MmioTypeOK, Priv
    <2>3. BankedUntilUp'
      BY DEF BankedUntilUp, MmioTypeOK
    <2> QED BY <2>1, <2>2, <2>3, Zenon
  <1>4. CASE s \in SUBSET Priv /\ GicrDisable(c, idx, s)
    <2> USE <1>4 DEF OwnInv, GicrDisable, IrqDisable, Runs, Reach, cpus, hardware
    <2>1. MmioTypeOK'
      BY Zenon DEF MmioTypeOK
    <2>2. ForwardedWhenEnabled'
      BY Zenon DEF ForwardedWhenEnabled, MmioTypeOK
    <2>3. BankedUntilUp'
      BY DEF BankedUntilUp, MmioTypeOK
    <2> QED BY <2>1, <2>2, <2>3, Zenon
  <1> QED BY <1>1, <1>2, <1>3, <1>4, Zenon

\* So do writes of priorities, also where they miss their interrupt.
LEMMA PriorityStep ==
    ASSUME OwnInv, ~CrossCpu, NEW c \in Cpu, NEW idx \in Cpu, NEW i \in Spi \cup Priv,
           NEW v \in Prio,
           GicdPriority(c, i, v) \/ (i \in Priv /\ GicrPriority(c, idx, i, v))
    PROVE  OwnInv'
  <1>t. prio \in [Cpu -> [Priv -> Prio]] /\ spiprio \in [Spi \cup FarIds -> Prio]
    BY Zenon DEF OwnInv, MmioTypeOK
  <1>1. CASE GicdPriority(c, i, v)
    <2>1. prio' \in [Cpu -> [Priv -> Prio]] /\ spiprio' \in [Spi \cup FarIds -> Prio]
      <3>1. CASE i \in Priv
        <4>1. prio' = [prio EXCEPT ![c][i] = v] /\ spiprio' = spiprio
          BY <1>1, <3>1, Zenon DEF GicdPriority
        <4> QED BY <1>t, <3>1, <4>1, Zenon
      <3>2. CASE i \notin Priv
        <4>1. prio' = prio /\ spiprio' = [spiprio EXCEPT ![i] = v]
          BY <1>1, <3>2, Zenon DEF GicdPriority
        <4> QED BY <1>t, <4>1, Zenon
      <3> QED BY <3>1, <3>2, Zenon
    <2> USE <1>1 DEF OwnInv, GicdPriority, Runs, cpus, hardware
    <2>2. MmioTypeOK'
      BY <2>1, Zenon DEF MmioTypeOK
    <2>3. ForwardedWhenEnabled'
      BY Zenon DEF ForwardedWhenEnabled
    <2>4. BankedUntilUp'
      BY DEF BankedUntilUp, MmioTypeOK
    <2> QED BY <2>2, <2>3, <2>4, Zenon
  <1>2. CASE i \in Priv /\ GicrPriority(c, idx, i, v)
    <2> USE <1>2 DEF OwnInv, GicrPriority, Runs, Reach, cpus, hardware
    <2>1. idx # 0 => Far(idx, i) \in FarIds
      BY DEF FarIds
    <2>2. prio' \in [Cpu -> [Priv -> Prio]] /\ spiprio' \in [Spi \cup FarIds -> Prio]
      <3>1. CASE idx = 0
        BY <3>1 DEF MmioTypeOK
      <3>2. CASE idx # 0
        BY <2>1, <3>2, Zenon DEF MmioTypeOK
      <3> QED BY <3>1, <3>2, Zenon
    <2>3. MmioTypeOK'
      BY <2>2, Zenon DEF MmioTypeOK
    <2>4. ForwardedWhenEnabled'
      BY Zenon DEF ForwardedWhenEnabled
    <2>5. BankedUntilUp'
      BY DEF BankedUntilUp, MmioTypeOK
    <2> QED BY <2>3, <2>4, <2>5, Zenon
  <1> QED BY <1>1, <1>2, Zenon

\* A CPU that comes up loses its PPIs in the redistributor, none of which the
\* guest has enabled.
LEMMA PercpuStep ==
    ASSUME OwnInv, NEW c \in Cpu, PercpuInit(c)
    PROVE  OwnInv'
  <1> USE DEF OwnInv, PercpuInit, shadow
  <1>1. MmioTypeOK'
    BY Zenon DEF MmioTypeOK
  <1>2. ForwardedWhenEnabled'
    <2>1. Sgi \cap Ppi = {}
      BY IrqAssumption, Zenon
    <2>2. en[c] \cap Ppi = {}
      BY <2>1, Zenon DEF BankedUntilUp
    <2>3. \A d \in up : gicr'[d] = gicr[d]
      BY Zenon DEF MmioTypeOK
    <2> QED BY <2>2, <2>3, Zenon DEF ForwardedWhenEnabled
  <1>3. BankedUntilUp'
    BY DEF BankedUntilUp
  <1> QED BY <1>1, <1>2, <1>3, Zenon

\* Targets, routing and control leave enable bits alone.
LEMMA OtherStep ==
    ASSUME OwnInv, NEW c \in Cpu,
           \/ \E i \in Spi, t \in Cpu : SpiTarget(c, i, t) \/ Route(c, i, t)
           \/ \E i \in Priv, t \in Cpu : PrivTarget(c, i, t)
           \/ \E b \in BOOLEAN : GicdCtlr(c, b)
    PROVE  OwnInv'
  <1> USE DEF OwnInv, Runs, cpus, hardware, shadow
  <1>1. ASSUME NEW i \in Spi, NEW t \in Cpu, SpiTarget(c, i, t) PROVE OwnInv'
    <2> USE <1>1 DEF SpiTarget
    <2>1. MmioTypeOK'
      BY Zenon DEF MmioTypeOK
    <2>2. ForwardedWhenEnabled'
      BY Zenon DEF ForwardedWhenEnabled
    <2>3. BankedUntilUp'
      BY Zenon DEF BankedUntilUp
    <2> QED BY <2>1, <2>2, <2>3, Zenon
  <1>2. ASSUME NEW i \in Spi, NEW t \in Cpu, Route(c, i, t) PROVE OwnInv'
    <2> USE <1>2 DEF Route
    <2>1. MmioTypeOK'
      BY Zenon DEF MmioTypeOK
    <2>2. ForwardedWhenEnabled'
      BY Zenon DEF ForwardedWhenEnabled
    <2>3. BankedUntilUp'
      BY Zenon DEF BankedUntilUp
    <2> QED BY <2>1, <2>2, <2>3, Zenon
  <1>3. ASSUME NEW i \in Priv, NEW t \in Cpu, PrivTarget(c, i, t) PROVE OwnInv'
    <2> USE <1>3 DEF PrivTarget
    <2>1. MmioTypeOK'
      BY Zenon DEF MmioTypeOK
    <2>2. ForwardedWhenEnabled'
      BY Zenon DEF ForwardedWhenEnabled
    <2>3. BankedUntilUp'
      <3>1. ASSUME NEW d \in Cpu \ up
            PROVE  target'[d] = target[d]
        <4>1. d # c /\ target \in [Cpu -> [Priv -> Cpu]]
          BY Zenon DEF MmioTypeOK
        <4> QED BY <4>1, Zenon
      <3>2. up' = up /\ en' = en /\ prio' = prio
        BY Zenon
      <3> QED BY <3>1, <3>2, SMT DEF BankedUntilUp
    <2> QED BY <2>1, <2>2, <2>3, Zenon
  <1>4. ASSUME NEW b \in BOOLEAN, GicdCtlr(c, b) PROVE OwnInv'
    <2> USE <1>4 DEF GicdCtlr
    <2>1. MmioTypeOK'
      BY Zenon DEF MmioTypeOK
    <2>2. ForwardedWhenEnabled'
      BY Zenon DEF ForwardedWhenEnabled
    <2>3. BankedUntilUp'
      BY Zenon DEF BankedUntilUp
    <2> QED BY <2>1, <2>2, <2>3, Zenon
  <1> QED BY <1>1, <1>2, <1>3, <1>4, Zenon

\* Every step keeps the invariant.
LEMMA OwnStep == ASSUME ~CrossCpu PROVE OwnInv /\ [MmioNext]_mmioVars => OwnInv'
  <1> SUFFICES ASSUME OwnInv, [MmioNext]_mmioVars PROVE OwnInv'
    OBVIOUS
  <1>1. CASE UNCHANGED mmioVars
    BY <1>1 DEF mmioVars, shadow, hardware, cpus, OwnInv, MmioTypeOK, ForwardedWhenEnabled, BankedUntilUp
  <1>2. ASSUME NEW c \in Cpu, PercpuInit(c) PROVE OwnInv'
    BY <1>2, PercpuStep, Zenon
  <1>3. ASSUME NEW c \in Cpu, GicdWrite(c) \/ GicrWrite(c) PROVE OwnInv'
    <2>1. ASSUME NEW s \in (SUBSET Spi) \cup (SUBSET Priv), GicdEnable(c, s) \/ GicdDisable(c, s)
          PROVE OwnInv'
      BY <2>1, EnableStep, Zenon
    <2>2. ASSUME NEW idx \in Cpu, NEW s \in SUBSET Priv,
                 GicrEnable(c, idx, s) \/ GicrDisable(c, idx, s)
          PROVE OwnInv'
      <3>1. s \in (SUBSET Spi) \cup (SUBSET Priv)
        OBVIOUS
      <3> QED BY <2>2, <3>1, EnableStep, Zenon
    <2>3. ASSUME NEW i \in Spi \cup Priv, NEW v \in Prio, GicdPriority(c, i, v) PROVE OwnInv'
      BY <2>3, PriorityStep, Zenon
    <2>4. ASSUME NEW idx \in Cpu, NEW i \in Priv, NEW v \in Prio, GicrPriority(c, idx, i, v)
          PROVE OwnInv'
      BY <2>4, PriorityStep, Zenon
    <2> QED BY <1>3, <2>1, <2>2, <2>3, <2>4, OtherStep, Zenon DEF GicdWrite, GicrWrite
  <1> QED BY <1>1, <1>2, <1>3, Zenon DEF MmioNext

\* An interrupt that the guest reads as enabled in the emulated distributor or
\* in its redistributor is enabled in the interrupt controller, as long as
\* vgicr_mmio_write is only called for the caller's own redistributor.
THEOREM EnabledIsForwarded == ASSUME ~CrossCpu PROVE MmioSpec => []ForwardedWhenEnabled
  <1>1. OwnInv /\ [MmioNext]_mmioVars => OwnInv'
    BY OwnStep, Zenon
  <1>2. OwnInv => ForwardedWhenEnabled
    BY Zenon DEF OwnInv
  <1>3. MmioInit => OwnInv
    BY OwnInit, Zenon
  <1> QED BY <1>1, <1>2, <1>3, PTL DEF MmioSpec

\* The SGIs and PPIs of a CPU that is not up are as new_vgic_cpu left them,
\* under the same condition.
THEOREM BankedStaysBanked == ASSUME ~CrossCpu PROVE MmioSpec => []BankedUntilUp
  <1>1. OwnInv /\ [MmioNext]_mmioVars => OwnInv'
    BY OwnStep, Zenon
  <1>2. OwnInv => BankedUntilUp
    BY Zenon DEF OwnInv
  <1>3. MmioInit => OwnInv
    BY OwnInit, Zenon
  <1> QED BY <1>1, <1>2, <1>3, PTL DEF MmioSpec
==============================================================================
