------------------------------- MODULE VgicMmio -------------------------------
(***************************************************************************)
(* The emulated distributor and redistributors (vgic.c): what the guest's  *)
(* writes do to the state kept for the guest, and to the interrupt         *)
(* controller itself (gic_v3.c).                                           *)
(*                                                                         *)
(* A handler is one step.  Those of the distributor that touch an enable   *)
(* bit hold g_vgic_lock; the redistributor's hold no lock, and a guest     *)
(* like xv6 has every CPU write its own one only (CrossCpu is FALSE).      *)
(***************************************************************************)
EXTENDS Integers, FiniteSets

CONSTANTS
    NCPU,
    Sgi, Ppi, Spi,  \* some of the interrupts of each kind, as numbers
    Stride,         \* GICRSTRIDE, above all interrupt numbers
    Prio,           \* priorities the guest uses, and 0
    CrossCpu        \* the guest writes redistributors of other CPUs

Cpu == 0 .. NCPU - 1
Priv == Sgi \cup Ppi

\* What vgicr_mmio_write takes for the number of interrupt i of redistributor
\* idx when it computes it from the offset in the whole region.
Far(idx, i) == idx * Stride + i
FarIds == {Far(idx, i) : idx \in Cpu \ {0}, i \in Priv}

ASSUME IrqAssumption ==
    /\ NCPU \in Nat \ {0}
    /\ Sgi \subseteq Nat /\ Ppi \subseteq Nat /\ Spi \subseteq Nat
    /\ Sgi \cap Ppi = {} /\ Priv \cap Spi = {}
    /\ Stride \in Nat /\ \A i \in Priv \cup Spi : i < Stride
    /\ 0 \in Prio
    /\ CrossCpu \in BOOLEAN

VARIABLES
    en,         \* enabled bits of sgis and ppis of each vgic_cpu
    prio,       \* their priorities
    target,     \* their targets
    spien,      \* the same of vgic->spis
    spiprio,    \* with the memory behind the array
    spitarget,
    grp1ns,     \* vgic->enable_grp1ns
    gicd,       \* SPIs enabled in the distributor
    gicr,       \* SGIs and PPIs enabled in each redistributor
    router,     \* GICD_IROUTER
    up,         \* CPUs that have run init_gicv3_percpu
    panicked    \* CPUs that have panicked

shadow == <<en, prio, target, spien, spiprio, spitarget, grp1ns>>
hardware == <<gicd, gicr, router>>
cpus == <<up, panicked>>
mmioVars == <<shadow, hardware, cpus>>

MmioTypeOK ==
    /\ en \in [Cpu -> SUBSET Priv] /\ spien \subseteq Spi
    /\ prio \in [Cpu -> [Priv -> Prio]] /\ spiprio \in [Spi \cup FarIds -> Prio]
    /\ target \in [Cpu -> [Priv -> Cpu]] /\ spitarget \in [Spi -> Cpu]
    /\ grp1ns \in BOOLEAN
    /\ gicd \subseteq Spi
    /\ gicr \in [Cpu -> SUBSET Priv]
    /\ router \in [Spi -> Cpu]
    /\ up \subseteq Cpu
    /\ panicked \subseteq Cpu

\* After create_vm: new_vgic_cpu and new_vgic have run, init_gicd_v3 has
\* disabled all SPIs and routed them to CPU 0, and CPU 0 has disabled its PPIs.
\* Whether SGIs are enabled after reset is up to the implementation, and so is
\* what a redistributor holds before its CPU initialises it.
MmioInit ==
    /\ en = [c \in Cpu |-> Sgi] /\ spien = {}
    /\ prio = [c \in Cpu |-> [i \in Priv |-> 0]] /\ spiprio = [i \in Spi \cup FarIds |-> 0]
    /\ target = [c \in Cpu |-> [i \in Priv |-> c]] /\ spitarget = [i \in Spi |-> 0]
    /\ grp1ns = FALSE
    /\ gicd = {}
    /\ gicr \in [Cpu -> SUBSET Priv] /\ gicr[0] \cap Ppi = {}
    /\ router = [i \in Spi |-> 0]
    /\ up = {0}
    /\ panicked = {}

Runs(c) == c \in up \ panicked
-----------------------------------------------------------------------------
(* init_gicv3_percpu and gic_v3.c                                          *)

\* All PPIs are disabled.
PercpuInit(c) ==
    /\ c \notin up
    /\ up' = up \cup {c}
    /\ gicr' = [gicr EXCEPT ![c] = @ \ Ppi]
    /\ UNCHANGED <<shadow, gicd, router, panicked>>

\* The distributor only.
EnableDistributorOnly(c, s) ==
    /\ gicd' = gicd \cup (s \cap Spi)
    /\ UNCHANGED <<gicr, router>>

\* gic_irq_enable on CPU c, for every interrupt of s: an SPI in the
\* distributor, an SGI or PPI in the redistributor of the calling CPU.
IrqEnable(c, s) ==
    /\ gicd' = gicd \cup (s \cap Spi)
    /\ gicr' = [gicr EXCEPT ![c] = @ \cup (s \cap Priv)]
    /\ UNCHANGED router

\* gic_irq_disable writes the other bits to ISENABLER, where 0 has no effect.
IrqDisable(c, s) == UNCHANGED hardware
-----------------------------------------------------------------------------
(* Enable bits                                                             *)

\* GICD_ISENABLER<0> for SGIs and PPIs, which are those of the virtual CPU
\* (vgic_irq_get), <1> and up for SPIs.
GicdEnable(c, s) ==
    /\ Runs(c)
    /\ en' = [en EXCEPT ![c] = @ \cup (s \cap Priv)]
    /\ spien' = spien \cup (s \cap Spi)
    /\ IrqEnable(c, s)
    /\ UNCHANGED <<prio, target, spiprio, spitarget, grp1ns, cpus>>

GicdDisable(c, s) ==
    /\ Runs(c)
    /\ en' = [en EXCEPT ![c] = @ \ s]
    /\ spien' = spien \ s
    /\ IrqDisable(c, s)
    /\ UNCHANGED <<prio, target, spiprio, spitarget, grp1ns, cpus>>

Reach(c, idx) == CrossCpu \/ idx = c

\* GICR_ISENABLER0 of redistributor idx, written by CPU c.
GicrEnable(c, idx, s) ==
    /\ Runs(c) /\ Reach(c, idx)
    /\ en' = [en EXCEPT ![idx] = @ \cup s]
    /\ IrqEnable(c, s)
    /\ UNCHANGED <<prio, target, spien, spiprio, spitarget, grp1ns, cpus>>

GicrDisable(c, idx, s) ==
    /\ Runs(c) /\ Reach(c, idx)
    /\ en' = [en EXCEPT ![idx] = @ \ s]
    /\ IrqDisable(c, s)
    /\ UNCHANGED <<prio, target, spien, spiprio, spitarget, grp1ns, cpus>>
-----------------------------------------------------------------------------
(* Priorities, targets and control                                         *)

\* The banked interrupts of all CPUs.
GicdPriorityOfAll(c, i, v) ==
    /\ Runs(c)
    /\ IF i \in Priv
       THEN prio' = [d \in Cpu |-> [prio[d] EXCEPT ![i] = v]] /\ UNCHANGED spiprio
       ELSE spiprio' = [spiprio EXCEPT ![i] = v] /\ UNCHANGED prio
    /\ UNCHANGED <<en, target, spien, spitarget, grp1ns, hardware, cpus>>

GicdPriority(c, i, v) ==
    /\ Runs(c)
    /\ IF i \in Priv
       THEN prio' = [prio EXCEPT ![c][i] = v] /\ UNCHANGED spiprio
       ELSE spiprio' = [spiprio EXCEPT ![i] = v] /\ UNCHANGED prio
    /\ UNCHANGED <<en, target, spien, spitarget, grp1ns, hardware, cpus>>

\* GICR_IPRIORITYR: the number comes from offset, not from gicr_off, and is
\* that of an SPI unless the redistributor is the first one.
GicrPriority(c, idx, i, v) ==
    /\ Runs(c) /\ Reach(c, idx)
    /\ IF idx = 0
       THEN prio' = [prio EXCEPT ![idx][i] = v] /\ UNCHANGED spiprio
       ELSE spiprio' = [spiprio EXCEPT ![Far(idx, i)] = v] /\ UNCHANGED prio
    /\ UNCHANGED <<en, target, spien, spitarget, grp1ns, hardware, cpus>>

\* GICD_ITARGETSR: the distributor ignores it, affinity routing being on; the
\* SPI is disabled and enabled around it, which changes nothing.
SpiTarget(c, i, t) ==
    /\ Runs(c)
    /\ spitarget' = [spitarget EXCEPT ![i] = t]
    /\ UNCHANGED <<en, prio, target, spien, spiprio, grp1ns, hardware, cpus>>

\* For an SGI or PPI the target is stored, then the hypervisor panics.
PrivTarget(c, i, t) ==
    /\ Runs(c)
    /\ target' = [target EXCEPT ![c][i] = t]
    /\ panicked' = panicked \cup {c}
    /\ UNCHANGED <<en, prio, spien, spiprio, spitarget, grp1ns, hardware, up>>

\* GICD_IROUTER, straight to the distributor.
Route(c, i, t) ==
    /\ Runs(c)
    /\ router' = [router EXCEPT ![i] = t]
    /\ UNCHANGED <<shadow, gicd, gicr, cpus>>

GicdCtlr(c, b) ==
    /\ Runs(c)
    /\ grp1ns' = b
    /\ UNCHANGED <<en, prio, target, spien, spiprio, spitarget, hardware, cpus>>

GicdWrite(c) ==
    \/ \E s \in (SUBSET Spi) \cup (SUBSET Priv) : GicdEnable(c, s) \/ GicdDisable(c, s)
    \/ \E i \in Spi \cup Priv, v \in Prio : GicdPriority(c, i, v)
    \/ \E i \in Spi, t \in Cpu : SpiTarget(c, i, t) \/ Route(c, i, t)
    \/ \E i \in Priv, t \in Cpu : PrivTarget(c, i, t)
    \/ \E b \in BOOLEAN : GicdCtlr(c, b)

GicrWrite(c) ==
    \E idx \in Cpu :
        \/ \E s \in SUBSET Priv : GicrEnable(c, idx, s) \/ GicrDisable(c, idx, s)
        \/ \E i \in Priv, v \in Prio : GicrPriority(c, idx, i, v)

MmioNext == \E c \in Cpu : PercpuInit(c) \/ GicdWrite(c) \/ GicrWrite(c)

MmioSpec == MmioInit /\ [][MmioNext]_mmioVars
-----------------------------------------------------------------------------
\* An interrupt the guest reads as enabled is forwarded by the interrupt
\* controller, a PPI on the CPU whose it is ("0b1: If read, indicates that
\* forwarding of the corresponding interrupt is enabled").
ForwardedWhenEnabled ==
    /\ spien \subseteq gicd
    /\ \A c \in up : en[c] \cap Ppi \subseteq gicr[c]

\* A CPU that is not up yet finds its SGIs and PPIs as new_vgic_cpu left them,
\* whatever the other CPUs do to theirs.
BankedUntilUp ==
    \A c \in Cpu \ up : en[c] = Sgi /\ \A i \in Priv : prio[c][i] = 0 /\ target[c][i] = c
==============================================================================
