------------------------------- MODULE VgicLr --------------------------------
(***************************************************************************)
(* Injection of physical interrupts into the guest on one CPU: the trap    *)
(* lower_el_irq_handler, the list registers of the virtual CPU interface,  *)
(* the bitmap used_lr in which vgic.c records which of them it handed out, *)
(* and the guest that acknowledges and ends the virtual interrupts.        *)
(*                                                                         *)
(* The hypervisor only drops the priority of the interrupt it forwards     *)
(* (EOImode is 1); the list register names the physical interrupt (HW is   *)
(* 1), and the guest's end of interrupt deactivates it.  used_lr is        *)
(* brought up to date only at the next trap, so its bits outlive the       *)
(* interrupts they stand for.                                              *)
(***************************************************************************)
EXTENDS Integers, FiniteSets

CONSTANTS
    Irq,        \* physical interrupts routed to this CPU
    Withdrawn,  \* those whose source may drop its line before it is acknowledged
    NLr,        \* g_gic_lr_max
    Spurious,   \* INTID 1023
    MaxRaise    \* bound: times a source raises its interrupt

ASSUME LrAssumption ==
    /\ IsFiniteSet(Irq) /\ Withdrawn \subseteq Irq
    /\ Spurious \notin Irq
    /\ NLr \in 1 .. 16
    /\ MaxRaise \in Nat

VARIABLES
    pend,       \* interrupts pending at the GIC
    active,     \* interrupts active at the GIC
    lr,         \* ICH_LR<n>_EL2: state and INTID
    used_lr,    \* vgic_cpu->used_lr: the bits that are set
    el2,        \* the CPU is inside lower_el_irq_handler, before it reads IAR
    serving,    \* list register of the interrupt in the guest's devintr, or NLr
    raised      \* times each source raised its interrupt (only bounds the model)

vars == <<pend, active, lr, used_lr, el2, serving, raised>>

Lr == 0 .. NLr - 1
LrState == {"inactive", "pending", "active"}

TypeOK ==
    /\ pend \subseteq Irq
    /\ active \subseteq Irq
    /\ lr \in [Lr -> [state : LrState, irq : Irq \cup {Spurious}]]
    /\ used_lr \subseteq Lr
    /\ el2 \in BOOLEAN
    /\ serving \in 0 .. NLr
    /\ raised \in [Irq -> 0 .. MaxRaise]

\* gic_restore_state at the entry to the guest: every list register is 0.
Init ==
    /\ pend = {}
    /\ active = {}
    /\ lr = [n \in Lr |-> [state |-> "inactive", irq |-> Spurious]]
    /\ used_lr = {}
    /\ el2 = FALSE
    /\ serving = NLr
    /\ raised = [i \in Irq |-> 0]

\* What the GIC signals to this CPU: an active interrupt is not signalled again.
Signalled == pend \ active

Live == {n \in Lr : lr[n].state # "inactive"}
-----------------------------------------------------------------------------
(* The sources                                                             *)

Raise(i) ==
    /\ raised[i] < MaxRaise
    /\ raised' = [raised EXCEPT ![i] = @ + 1]
    /\ pend' = pend \cup {i}
    /\ UNCHANGED <<active, lr, used_lr, el2, serving>>

\* A level-sensitive source is quiesced from elsewhere, as by uart_init of a
\* CPU that boots.
Withdraw(i) ==
    /\ i \in pend \cap Withdrawn
    /\ pend' = pend \ {i}
    /\ UNCHANGED <<active, lr, used_lr, el2, serving, raised>>
-----------------------------------------------------------------------------
(* lower_el_irq_handler                                                    *)

\* used_lr is not brought up to date.
KeepUsed == used_lr

\* vgic_used_lr_update
StillUsed == {n \in used_lr : lr[n].state # "inactive"}

\* The trap: an interrupt is signalled while the guest runs.
EnterEl2 ==
    /\ ~el2
    /\ Signalled # {}
    /\ el2' = TRUE
    /\ used_lr' = StillUsed
    /\ UNCHANGED <<pend, active, lr, serving, raised>>

\* Always the first list register.
FirstLr == {0}

\* vgic_lr_alloc: the list registers without a bit in used_lr.
FreeLr == Lr \ used_lr

\* gic_make_lr and gic_write_lr
LrWrite(n, i) == [lr EXCEPT ![n] = [state |-> "pending", irq |-> i]]

\* vgic_inject_virq: the lowest free list register; with none left the
\* interrupt stays active and reaches nobody.
InjectVirq(i) ==
    \/ /\ FreeLr = {}
       /\ UNCHANGED <<lr, used_lr>>
    \/ \E n \in FreeLr :
          /\ \A m \in FreeLr : n <= m
          /\ lr' = LrWrite(n, i)
          /\ used_lr' = used_lr \cup {n}

\* gic_host_eoi in place of gic_guest_eoi: deactivated when it is forwarded.
ForwardDeactivated(i) ==
    /\ el2
    /\ i \in Signalled
    /\ pend' = pend \ {i}
    /\ InjectVirq(i)
    /\ el2' = FALSE
    /\ UNCHANGED <<active, serving, raised>>

\* gic_read_iar returns a signalled interrupt, which becomes active.
Forward(i) ==
    /\ el2
    /\ i \in Signalled
    /\ pend' = pend \ {i}
    /\ active' = active \cup {i}
    /\ InjectVirq(i)
    /\ el2' = FALSE
    /\ UNCHANGED <<serving, raised>>

\* gic_read_iar returns 1023 when nothing is signalled any more; the handler
\* forwards that too.
ForwardSpurious ==
    /\ el2
    /\ Signalled = {}
    /\ InjectVirq(Spurious)
    /\ el2' = FALSE
    /\ UNCHANGED <<pend, active, serving, raised>>
-----------------------------------------------------------------------------
(* The guest                                                               *)

\* devintr reads the virtual IAR: one of the pending list registers.
GuestAck(n) ==
    /\ ~el2
    /\ serving = NLr
    /\ lr[n].state = "pending"
    /\ lr' = [lr EXCEPT ![n].state = "active"]
    /\ serving' = n
    /\ UNCHANGED <<pend, active, used_lr, el2, raised>>

\* devintr returns without ending the interrupt.
NoEoi ==
    /\ ~el2
    /\ serving # NLr
    /\ serving' = NLr
    /\ UNCHANGED <<pend, active, lr, used_lr, el2, raised>>

\* devintr ends the interrupt it served: the list register becomes inactive
\* and the physical interrupt is deactivated.
GuestEoi ==
    /\ ~el2
    /\ serving # NLr
    /\ lr[serving].irq # Spurious
    /\ lr' = [lr EXCEPT ![serving].state = "inactive"]
    /\ active' = active \ {lr[serving].irq}
    /\ serving' = NLr
    /\ UNCHANGED <<pend, used_lr, el2, raised>>

\* devintr does nothing with 1023, and does not end it.
GuestIgnores ==
    /\ ~el2
    /\ serving # NLr
    /\ lr[serving].irq = Spurious
    /\ serving' = NLr
    /\ UNCHANGED <<pend, active, lr, used_lr, el2, raised>>
-----------------------------------------------------------------------------
Source == \E i \in Irq : Raise(i) \/ Withdraw(i)

Handler == EnterEl2 \/ (\E i \in Irq : Forward(i)) \/ ForwardSpurious

Guest == (\E n \in Lr : GuestAck(n)) \/ GuestEoi \/ GuestIgnores

Next == Source \/ Handler \/ Guest

Spec == Init /\ [][Next]_vars

\* The CPU takes a signalled interrupt and returns from the handler, and the
\* guest does not keep its interrupts masked.
FairSpec == Spec /\ WF_vars(Handler) /\ WF_vars(Guest)
-----------------------------------------------------------------------------
\* A list register in use has its bit in used_lr, so vgic_lr_alloc hands out
\* only list registers that hold nothing.
UsedCoversLive == Live \subseteq used_lr

\* A forwarded interrupt sits in one list register: it stays active, and so is
\* not signalled again, until the guest has ended it.
OneLrPerIrq ==
    \A m, n \in Live : m # n /\ lr[m].irq \in Irq => lr[m].irq # lr[n].irq

\* An interrupt is active exactly as long as some list register still carries
\* it: none is acknowledged at the GIC and then forgotten by vgic_inject_virq.
ActiveIsCarried == active = {lr[n].irq : n \in Live}

\* gic_write_lr never replaces a virtual interrupt the guest has still to take
\* or to end.
NoLrOverwritten ==
    [][\A n \in Live : lr[n].irq = lr'[n].irq]_vars

\* Interrupts that are acknowledged at the GIC but that no list register
\* carries.
Lost == active \ {lr[n].irq : n \in Live}

\* vgic_inject_virq loses an interrupt only when the guest has still to take or
\* to end one in every list register.  A bit of used_lr that has outlived its
\* interrupt costs nothing.
LostOnlyWhenFull == [][Lost' \subseteq Lost \/ Live = Lr]_vars

\* What a device signals and does not withdraw, the guest's devintr serves,
\* unless vgic_inject_virq has lost it.
RaisedIsServed ==
    \A i \in Irq \ Withdrawn :
        i \in pend ~> (serving # NLr /\ lr[serving].irq = i) \/ i \in Lost
==============================================================================
