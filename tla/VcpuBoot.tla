------------------------------- MODULE VcpuBoot -------------------------------
(***************************************************************************)
(* How the virtual CPUs come to run and how they trap: create_vm, the      *)
(* emulation of PSCI CPU_ON with the firmware behind it, the boot of the   *)
(* secondary CPUs, enter_vcpu, and lower_el_sync_handler with the saved    *)
(* registers of struct vcpu, which psci_cpu_on of another CPU writes too.  *)
(*                                                                         *)
(* The guest's program is a sequence of instructions; only those that trap *)
(* matter here, and an address counts instructions.  A CPU runs its        *)
(* handler to the end before its guest goes on, but CPUs interleave.       *)
(***************************************************************************)
EXTENDS Integers, FiniteSets

CONSTANTS
    NCPU,           \* vmcfg->nvcpu and the number of CPUs
    VCPU_MAX,
    EntryPoint,     \* vmcfg->entrypoint
    SecondaryEntry, \* the address the guest passes to CPU_ON
    MaxPc,          \* bound: instructions a virtual CPU executes
    Calls           \* PSCI functions the guest calls

Cpu == 0 .. NCPU - 1
Functions == {"CPU_ON", "VERSION", "FEATURES"}

\* Traps of an instruction: those that a handler emulates, and an access that
\* data_abort_handler cannot emulate or an exception class without a handler.
Emulated == {"WFx", "DALEL"}
NotEmulated == {"BadAccess", "NoHandler"}

ASSUME CpuAssumption ==
    /\ NCPU \in Nat \ {0} /\ VCPU_MAX \in Nat /\ VCPU_MAX >= NCPU
    /\ EntryPoint \in Nat /\ SecondaryEntry \in Nat /\ MaxPc \in Nat
    /\ Calls \subseteq Functions

VARIABLES
    pool,       \* vcpus[]: state, cpuid and the saved elr_el2
    vm,         \* vm->vcpus: index in the pool, VCPU_MAX for none
    cpu,        \* what each CPU does: off, one of its boot steps, guest, ...
    tpidr,      \* TPIDR_EL2: the virtual CPU a CPU runs
    pc,         \* the guest's program counter on each CPU
    esr,        \* the exception being handled on each CPU
    started,    \* CPUs the guest has asked for
    target      \* x1 of the CPU_ON being handled

vars == <<pool, vm, cpu, tpidr, pc, esr, started, target>>

Slot == 0 .. VCPU_MAX - 1
Unused == [state |-> "UNUSED", cpuid |-> 0, elr |-> 0]

\* struct vcpu
Vcpu == [state : {"UNUSED", "CREATED", "READY", "RUNNING"}, cpuid : Cpu, elr : Nat]

TypeOK ==
    /\ pool \in [Slot -> Vcpu]
    /\ vm \in [Cpu -> Slot \cup {VCPU_MAX}]
    /\ cpu \in [Cpu -> {"off", "create", "ready", "boot", "enter", "switch", "guest", "trap",
                        "on_ready", "on_smc", "advance", "eret", "panic"}]
    /\ tpidr \in [Cpu -> Slot \cup {VCPU_MAX}]
    /\ pc \in [Cpu -> Nat]
    /\ esr \in [Cpu -> Functions \cup Emulated \cup NotEmulated \cup {"none"}]
    /\ started \subseteq Cpu
    /\ target \in [Cpu -> Cpu]

\* Power-on: CPU 0 has initialised the hypervisor and is about to create the VM.
Init ==
    /\ pool = [s \in Slot |-> Unused]
    /\ vm = [c \in Cpu |-> VCPU_MAX]
    /\ cpu = [c \in Cpu |-> IF c = 0 THEN "create" ELSE "off"]
    /\ tpidr = [c \in Cpu |-> VCPU_MAX]
    /\ pc = [c \in Cpu |-> 0]
    /\ esr = [c \in Cpu |-> "none"]
    /\ started = {0}
    /\ target = [c \in Cpu |-> 0]

Goto(c, l) == cpu' = [cpu EXCEPT ![c] = l]
-----------------------------------------------------------------------------
(* create_vm                                                               *)

NotCreated == {i \in Cpu : vm[i] = VCPU_MAX}
FreeSlots == {s \in Slot : pool[s].state = "UNUSED"}

\* new_vcpu for the next id: the first unused element of the pool, and only
\* virtual CPU 0 has an entry point.
NewVcpu(i, s) ==
    /\ cpu[0] = "create"
    /\ i \in NotCreated /\ \A j \in NotCreated : i <= j
    /\ s \in FreeSlots /\ \A t \in FreeSlots : s <= t
    /\ pool' = [pool EXCEPT ![s] = [state |-> "CREATED", cpuid |-> i,
                                    elr |-> IF i = 0 THEN EntryPoint ELSE 0]]
    /\ vm' = [vm EXCEPT ![i] = s]
    /\ UNCHANGED <<cpu, tpidr, pc, esr, started, target>>

\* The rest of create_vm ends with vcpu_ready(vm->vcpus[0]).
VmCreated ==
    /\ cpu[0] = "create"
    /\ NotCreated = {}
    /\ pool' = [pool EXCEPT ![vm[0]].state = "READY"]
    /\ Goto(0, "enter")
    /\ UNCHANGED <<vm, tpidr, pc, esr, started, target>>
-----------------------------------------------------------------------------
(* vmm_init_secondary, enter_vcpu and switch_to_vcpu                       *)

SecondaryInit(c) ==
    /\ cpu[c] = "boot"
    /\ Goto(c, "enter")
    /\ UNCHANGED <<pool, vm, tpidr, pc, esr, started, target>>

\* "vcpu not ready" is a panic.
EnterVcpu(c) ==
    /\ cpu[c] = "enter"
    /\ Goto(c, IF pool[c].state = "READY" THEN "switch" ELSE "panic")
    /\ UNCHANGED <<pool, vm, tpidr, pc, esr, started, target>>

\* The state stays READY.
SwitchStaysReady(c) ==
    /\ cpu[c] = "switch"
    /\ tpidr' = [tpidr EXCEPT ![c] = c]
    /\ Goto(c, IF pool[c].cpuid = c THEN "eret" ELSE "panic")
    /\ UNCHANGED <<pool, vm, pc, esr, started, target>>

\* eret goes to the saved elr, which is read after the state is set.
SwitchToVcpu(c) ==
    /\ cpu[c] = "switch"
    /\ tpidr' = [tpidr EXCEPT ![c] = c]
    /\ IF pool[c].cpuid = c
       THEN pool' = [pool EXCEPT ![c].state = "RUNNING"] /\ Goto(c, "eret")
       ELSE Goto(c, "panic") /\ UNCHANGED pool
    /\ UNCHANGED <<vm, pc, esr, started, target>>

\* vm_context_restore and eret
EretVm(c) ==
    /\ cpu[c] = "eret"
    /\ pc' = [pc EXCEPT ![c] = pool[tpidr[c]].elr]
    /\ esr' = [esr EXCEPT ![c] = "none"]
    /\ Goto(c, "guest")
    /\ UNCHANGED <<pool, vm, tpidr, started, target>>
-----------------------------------------------------------------------------
(* The guest, until it traps, and vm_context_save                          *)

\* The address the hardware saves is that of the trapped instruction, except
\* for hvc, where it is the next one.
TrapWith(c, e, saved) ==
    /\ cpu[c] = "guest"
    /\ pc[c] < MaxPc
    /\ pool' = [pool EXCEPT ![tpidr[c]].elr = saved]
    /\ esr' = [esr EXCEPT ![c] = e]
    /\ Goto(c, "trap")

\* wfi, wfe, an access to a page that is not mapped, or another instruction that
\* traps (smc, msr, a fetch from such a page, ...)
TrappedInstr(c) ==
    /\ \E e \in Emulated \cup NotEmulated : TrapWith(c, e, pc[c])
    /\ UNCHANGED <<vm, tpidr, pc, started, target>>

\* main() of the guest on CPU 0 turns on each of the others once.
GuestCpuOn(c, t) ==
    /\ "CPU_ON" \in Calls
    /\ c = 0 /\ t \notin started
    /\ TrapWith(c, "CPU_ON", pc[c] + 1)
    /\ started' = started \cup {t}
    /\ target' = [target EXCEPT ![c] = t]
    /\ UNCHANGED <<vm, tpidr, pc>>

GuestPsci(c, f) ==
    /\ f \in Calls \ {"CPU_ON"}
    /\ TrapWith(c, f, pc[c] + 1)
    /\ UNCHANGED <<vm, tpidr, pc, started, target>>
-----------------------------------------------------------------------------
(* lower_el_sync_handler                                                   *)

\* wfx_emulate_handler and data_abort_handler skip the instruction.
Emulate(c) ==
    /\ cpu[c] = "trap"
    /\ esr[c] \in Emulated
    /\ Goto(c, "advance")
    /\ UNCHANGED <<pool, vm, tpidr, pc, esr, started, target>>

\* data_abort_handler fails if the fault has no address (FnV), and mmio_emulate
\* if no region of the VM has the address or the region has no function for
\* this direction; other classes have no handler.  Both are fatal.
TrapFails(c) ==
    /\ cpu[c] = "trap"
    /\ esr[c] \in NotEmulated
    /\ Goto(c, "panic")
    /\ UNCHANGED <<pool, vm, tpidr, pc, esr, started, target>>

\* Every trap skips its instruction.
AdvanceHvcToo(c) ==
    /\ cpu[c] = "trap"
    /\ esr[c] = "CPU_ON"
    /\ pool' = [pool EXCEPT ![vm[target[c]]].elr = SecondaryEntry, ![tpidr[c]].elr = @ + 1]
    /\ Goto(c, "on_ready")
    /\ UNCHANGED <<vm, tpidr, pc, esr, started, target>>

AdvancePc(c) ==
    /\ cpu[c] = "advance"
    /\ pool' = [pool EXCEPT ![tpidr[c]].elr = @ + 1]
    /\ Goto(c, "eret")
    /\ UNCHANGED <<vm, tpidr, pc, esr, started, target>>

\* psci_cpu_on: the entry point, the state, then the firmware.
CpuOnEntry(c) ==
    /\ cpu[c] = "trap"
    /\ esr[c] = "CPU_ON"
    /\ pool' = [pool EXCEPT ![vm[target[c]]].elr = SecondaryEntry]
    /\ Goto(c, "on_ready")
    /\ UNCHANGED <<vm, tpidr, pc, esr, started, target>>

\* vcpu_ready after the firmware has been asked.
CpuOnReadyLate(c) ==
    /\ cpu[c] = "on_ready"
    /\ Goto(c, "on_smc")
    /\ UNCHANGED <<pool, vm, tpidr, pc, esr, started, target>>

CpuOnReady(c) ==
    /\ cpu[c] = "on_ready"
    /\ pool' = [pool EXCEPT ![vm[target[c]]].state = "READY"]
    /\ Goto(c, "on_smc")
    /\ UNCHANGED <<vm, tpidr, pc, esr, started, target>>

\* The virtual CPU is ready, but nobody starts its CPU.
CpuOnWithoutSmc(c) ==
    /\ cpu[c] = "on_smc"
    /\ Goto(c, "eret")
    /\ UNCHANGED <<pool, vm, tpidr, pc, esr, started, target>>

\* The firmware starts the CPU at _start of the hypervisor, unless it is on
\* already.  lower_el_sync_handler takes any result but 0 for a failure.
CpuOnSmc(c) ==
    /\ cpu[c] = "on_smc"
    /\ cpu' = IF cpu[target[c]] = "off"
              THEN [cpu EXCEPT ![target[c]] = "boot", ![c] = "eret"]
              ELSE [cpu EXCEPT ![c] = "panic"]
    /\ UNCHANGED <<pool, vm, tpidr, pc, esr, started, target>>

\* syscall_handler knows the 64-bit functions only: VERSION and FEATURES, which
\* psci_handler implements, are 32-bit ones.
UnknownFid(c) ==
    /\ cpu[c] = "trap"
    /\ esr[c] \in {"VERSION", "FEATURES"}
    /\ Goto(c, "panic")
    /\ UNCHANGED <<pool, vm, tpidr, pc, esr, started, target>>
-----------------------------------------------------------------------------
Boot(c) == SecondaryInit(c) \/ EnterVcpu(c) \/ SwitchToVcpu(c) \/ EretVm(c)

Handler(c) ==
    \/ Emulate(c) \/ AdvancePc(c) \/ TrapFails(c)
    \/ CpuOnEntry(c) \/ CpuOnReady(c) \/ CpuOnSmc(c)
    \/ UnknownFid(c)

Guest(c) ==
    \/ TrappedInstr(c)
    \/ \E t \in Cpu : GuestCpuOn(c, t)
    \/ \E f \in Functions : GuestPsci(c, f)

CreateVm == VmCreated \/ \E i \in Cpu, s \in Slot : NewVcpu(i, s)

Next == CreateVm \/ \E c \in Cpu : Boot(c) \/ Handler(c) \/ Guest(c)

Spec == Init /\ [][Next]_vars

\* A CPU in EL2 runs with interrupts masked and is never descheduled.
FairSpec ==
    /\ Spec
    /\ WF_vars(CreateVm)
    /\ \A c \in Cpu : WF_vars(Boot(c)) /\ WF_vars(Handler(c))
-----------------------------------------------------------------------------
\* A CPU panics only for what its own guest does and the hypervisor does not
\* serve: an access that no region emulates, a class without handler, a call
\* that syscall_handler does not know.  It never does for the order in which the
\* CPUs come up: enter_vcpu never finds its virtual CPU not ready, switch_to_vcpu
\* never one with another cpuid, and CPU_ON never finds its target on.
NoPanic ==
    \A c \in Cpu : cpu[c] = "panic" => esr[c] \in NotEmulated \cup (Functions \ {"CPU_ON"})

\* A CPU that runs the guest runs the virtual CPU of its own number, which
\* create_vm put in vm->vcpus at that number and which is marked RUNNING; and
\* no virtual CPU that has not been started by CPU_ON is.
OwnVcpu ==
    /\ \A c \in Cpu : cpu[c] \in {"guest", "trap", "on_ready", "on_smc", "advance"} =>
          /\ tpidr[c] = vm[c]
          /\ pool[tpidr[c]].cpuid = c
          /\ pool[tpidr[c]].state = "RUNNING"
    /\ \A s \in Slot : pool[s].state = "RUNNING" => pool[s].cpuid \in started

\* A trap resumes the guest at the instruction after the one that trapped: it
\* is neither executed twice nor is the next one skipped, whatever other CPUs
\* write to saved registers meanwhile.  A secondary starts at its entry point.
ResumesNext ==
    [][\A c \in Cpu : cpu[c] = "eret" /\ cpu'[c] = "guest" =>
          pc'[c] = IF esr[c] # "none" THEN pc[c] + 1
                   ELSE IF c = 0 THEN EntryPoint ELSE SecondaryEntry]_vars

\* Every CPU the guest asks for comes to run the guest, whatever becomes of
\* the other CPUs.
CpusComeUp == \A t \in Cpu : t \in started ~> cpu[t] \notin {"off", "create", "boot", "enter", "switch"}
==============================================================================
