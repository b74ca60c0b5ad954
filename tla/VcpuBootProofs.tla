---------------------------- MODULE VcpuBootProofs ----------------------------
(***************************************************************************)
(* Proofs about VcpuBoot for any number of CPUs, any size of the pool that *)
(* holds them and any entry points.  BootInv is inductive: that CPU_ON     *)
(* never writes the saved registers of a virtual CPU that runs, which is   *)
(* what the three properties rest on, follows from where every CPU is on   *)
(* its way from off to the guest.                                          *)
(***************************************************************************)
EXTENDS VcpuBoot, TLAPS

\* Where the guest has to find itself on CPU c.
Entry(c) == IF c = 0 THEN EntryPoint ELSE SecondaryEntry

\* Traps that save the address of the instruction, and those that nothing serves.
Instr == Emulated \cup NotEmulated
Unserved == NotEmulated \cup (Functions \ {"CPU_ON"})

\* Steps of a CPU that has switched to its virtual CPU.
OnVcpu == {"guest", "trap", "on_ready", "on_smc", "advance", "eret"}

\* CPU 0 is in psci_cpu_on, or about to be.
TurningOn ==
    \/ cpu[0] \in {"on_ready", "on_smc"}
    \/ cpu[0] = "trap" /\ esr[0] = "CPU_ON"

\* new_vcpu gives virtual CPU i the element i of the pool, and create_vm has
\* made all of them when CPU 0 leaves it.
PoolInOrder ==
    /\ \A i \in Cpu : vm[i] \in {i, VCPU_MAX}
    /\ \A i \in Cpu : vm[i] = i => pool[i].cpuid = i
    /\ \A s \in Slot : pool[s].state = "UNUSED" <=> s \notin Cpu \/ vm[s] = VCPU_MAX
    /\ cpu[0] # "create" => \A i \in Cpu : vm[i] = i

\* A CPU is off until CPU 0 has asked the firmware for it.
OffUntilAsked(c) ==
    /\ cpu[c] # "off" => c \in started
    /\ c = 0 => cpu[c] # "off"
    /\ c # 0 => /\ cpu[c] \notin {"create", "on_ready", "on_smc"}
                /\ esr[c] # "CPU_ON"
                /\ cpu[0] = "create" => cpu[c] = "off"

\* The state of a virtual CPU goes with the step its CPU has reached.
StateFollows(c) ==
    /\ cpu[c] \in {"off", "create"} => pool[c].state # "RUNNING"
    /\ cpu[c] \in {"boot", "enter", "switch"} => pool[c].state = "READY"
    /\ cpu[c] \in OnVcpu => pool[c].state = "RUNNING" /\ tpidr[c] = c

\* The saved elr is the entry point until the first eret, then the address the
\* handler has to return to.
ElrRight(c) ==
    /\ cpu[c] \in {"off", "create", "boot", "enter", "switch"} => esr[c] = "none"
    /\ cpu[c] \in {"boot", "enter", "switch"} => pool[c].elr = Entry(c)
    /\ cpu[c] = "create" /\ vm[c] = c => pool[c].elr = Entry(c)
    /\ cpu[c] \in {"trap", "advance", "on_ready", "on_smc"} =>
          pool[c].elr = IF esr[c] \in Instr THEN pc[c] ELSE pc[c] + 1
    /\ cpu[c] = "trap" => esr[c] # "none"
    /\ cpu[c] = "advance" => esr[c] \in Emulated
    /\ cpu[c] \in {"on_ready", "on_smc"} => esr[c] = "CPU_ON"
    /\ cpu[c] = "eret" => pool[c].elr = IF esr[c] = "none" THEN Entry(c) ELSE pc[c] + 1
    /\ cpu[c] = "panic" => esr[c] \in Unserved

\* What holds of one CPU.
CpuOk(c) == OffUntilAsked(c) /\ StateFollows(c) /\ ElrRight(c)

\* The virtual CPU that psci_cpu_on writes to is that of a CPU that is off.
TargetOff ==
    /\ TurningOn => target[0] \in started \ {0} /\ cpu[target[0]] = "off"
    /\ cpu[0] \in {"on_ready", "on_smc"} => pool[target[0]].elr = SecondaryEntry
    /\ cpu[0] = "on_smc" => pool[target[0]].state = "READY"

\* The inductive invariant.
BootInv == TypeOK /\ PoolInOrder /\ TargetOff /\ \A c \in Cpu : CpuOk(c)

\* Element numbers and CPU numbers.
LEMMA CpuFacts ==
  /\ 0 \in Cpu /\ Cpu \subseteq Slot /\ VCPU_MAX \notin Slot /\ Cpu \subseteq Nat
  /\ EntryPoint \in Nat /\ SecondaryEntry \in Nat
  BY CpuAssumption DEF Cpu, Slot

\* The kinds of traps are apart.
LEMMA TrapFacts ==
  /\ "CPU_ON" \in Functions /\ "CPU_ON" \notin Instr /\ "CPU_ON" \notin Unserved
  /\ "none" \notin Instr \cup Functions /\ Emulated \subseteq Instr
  /\ \A f \in Functions : f \notin Instr
  BY DEF Functions, Instr, Emulated, NotEmulated, Unserved

\* vcpu->state = v for element s of the pool.
LEMMA StateWritten ==
  ASSUME TypeOK, NEW s \in Slot, NEW v \in {"CREATED", "READY", "RUNNING"},
         pool' = [pool EXCEPT ![s].state = v]
  PROVE  /\ pool' \in [Slot -> Vcpu]
         /\ pool'[s].state = v /\ pool'[s].cpuid = pool[s].cpuid /\ pool'[s].elr = pool[s].elr
         /\ \A t \in Slot \ {s} : pool'[t] = pool[t]
  <1>1. pool' = [pool EXCEPT ![s] = [pool[s] EXCEPT !.state = v]]
    OBVIOUS
  <1>2. pool[s] \in Vcpu
    BY DEF TypeOK
  <1> DEFINE r == [pool[s] EXCEPT !.state = v]
  <1>3. /\ r \in Vcpu
        /\ r.state = v /\ r.cpuid = pool[s].cpuid /\ r.elr = pool[s].elr
    BY <1>2 DEF Vcpu
  <1> HIDE DEF r
  <1>4. pool' = [pool EXCEPT ![s] = r]
    BY <1>1 DEF r
  <1> QED BY <1>3, <1>4 DEF TypeOK

\* vcpu->reg.elr = n for element s of the pool.
LEMMA ElrWritten ==
  ASSUME TypeOK, NEW s \in Slot, NEW n \in Nat,
         pool' = [pool EXCEPT ![s].elr = n]
  PROVE  /\ pool' \in [Slot -> Vcpu]
         /\ pool'[s].elr = n /\ pool'[s].cpuid = pool[s].cpuid
         /\ pool'[s].state = pool[s].state
         /\ \A t \in Slot \ {s} : pool'[t] = pool[t]
  <1>1. pool' = [pool EXCEPT ![s] = [pool[s] EXCEPT !.elr = n]]
    OBVIOUS
  <1>2. pool[s] \in Vcpu
    BY DEF TypeOK
  <1> DEFINE r == [pool[s] EXCEPT !.elr = n]
  <1>3. /\ r \in Vcpu
        /\ r.elr = n /\ r.cpuid = pool[s].cpuid /\ r.state = pool[s].state
    BY <1>2 DEF Vcpu
  <1> HIDE DEF r
  <1>4. pool' = [pool EXCEPT ![s] = r]
    BY <1>1 DEF r
  <1> QED BY <1>3, <1>4 DEF TypeOK

\* A CPU that a step of another CPU leaves alone.
LEMMA OthersKeep ==
  ASSUME NEW d \in Cpu, CpuOk(d), cpu'[d] = cpu[d], pool'[d] = pool[d],
         tpidr'[d] = tpidr[d], pc'[d] = pc[d], esr'[d] = esr[d], vm'[d] = vm[d],
         started \subseteq started', cpu'[0] = "create" => cpu[0] = "create"
  PROVE  CpuOk(d)'
  <1>1. OffUntilAsked(d)'
    BY DEF CpuOk, OffUntilAsked
  <1>2. StateFollows(d)'
    BY DEF CpuOk, StateFollows
  <1>3. ElrRight(d)'
    BY DEF CpuOk, ElrRight, Entry
  <1> QED BY <1>1, <1>2, <1>3 DEF CpuOk

\* A step after create_vm that makes no virtual CPU.
LEMMA PoolKeeps ==
  ASSUME PoolInOrder, vm' = vm, \A i \in Cpu : vm[i] = i,
         \A s \in Slot : /\ pool'[s].cpuid = pool[s].cpuid
                         /\ pool'[s].state = "UNUSED" <=> pool[s].state = "UNUSED"
  PROVE  PoolInOrder'
  BY CpuFacts, Zenon DEF PoolInOrder

\* A step that touches neither CPU 0 nor the target of its CPU_ON.
LEMMA TargetKeeps ==
  ASSUME TargetOff, cpu'[0] = cpu[0], esr'[0] = esr[0], target'[0] = target[0],
         started \subseteq started',
         TurningOn => cpu'[target[0]] = cpu[target[0]] /\ pool'[target[0]] = pool[target[0]]
  PROVE  TargetOff'
  BY DEF TargetOff, TurningOn

\* Power-on: no virtual CPU exists and CPU 0 is in create_vm.
LEMMA BootInvInit == Init => BootInv
  <1> SUFFICES ASSUME Init PROVE BootInv
    OBVIOUS
  <1>1. TypeOK
    BY CpuFacts DEF Init, TypeOK, Unused, Vcpu
  <1>2. PoolInOrder /\ TargetOff
    BY CpuFacts DEF Init, PoolInOrder, TargetOff, TurningOn, Unused
  <1>3. ASSUME NEW c \in Cpu PROVE CpuOk(c)
    <2>1. /\ pool[c].state = "UNUSED" /\ esr[c] = "none" /\ vm[c] # c
          /\ cpu[c] = IF c = 0 THEN "create" ELSE "off"
      BY CpuFacts DEF Init, Unused
    <2> QED
      BY <2>1 DEF Init, CpuOk, OffUntilAsked, StateFollows, ElrRight, OnVcpu
  <1> QED BY <1>1, <1>2, <1>3 DEF BootInv

\* new_vcpu finds the element of the pool with the number of the virtual CPU.
LEMMA NewVcpuKeeps ==
  ASSUME BootInv, NEW i \in Cpu, NEW s \in Slot, NewVcpu(i, s)
  PROVE  BootInv'
  <1> USE DEF BootInv
  <1>1. s = i
    <2>1. i \in FreeSlots
      BY CpuFacts DEF NewVcpu, NotCreated, FreeSlots, PoolInOrder
    <2>2. s <= i
      BY <2>1 DEF NewVcpu
    <2>3. s \in Cpu
      BY <2>2, CpuAssumption DEF Cpu, Slot
    <2>4. s \in NotCreated
      BY <2>3 DEF NewVcpu, NotCreated, FreeSlots, PoolInOrder
    <2>5. i <= s
      BY <2>4 DEF NewVcpu
    <2> QED BY <2>2, <2>3, <2>5, CpuFacts
  <1>2. /\ cpu[0] = "create" /\ vm[i] = VCPU_MAX
        /\ pool' = [pool EXCEPT ![i] = [state |-> "CREATED", cpuid |-> i,
                                        elr |-> IF i = 0 THEN EntryPoint ELSE 0]]
        /\ vm' = [vm EXCEPT ![i] = i]
        /\ UNCHANGED <<cpu, tpidr, pc, esr, started, target>>
    BY <1>1 DEF NewVcpu, NotCreated
  <1>3. TypeOK'
    BY <1>2, CpuFacts DEF TypeOK, Vcpu
  <1>4. /\ pool'[i].state = "CREATED" /\ pool'[i].cpuid = i
        /\ i = 0 => pool'[i].elr = EntryPoint
        /\ \A t \in Slot \ {i} : pool'[t] = pool[t]
        /\ vm'[i] = i /\ \A j \in Cpu \ {i} : vm'[j] = vm[j]
    BY <1>2, CpuFacts DEF TypeOK
  <1>5. PoolInOrder'
    BY <1>2, <1>4, CpuFacts DEF PoolInOrder
  <1>6. TargetOff'
    BY <1>2, CpuFacts DEF TargetOff, TurningOn
  <1>7. ASSUME NEW d \in Cpu PROVE CpuOk(d)'
    <2>1. CASE d # i
      BY <1>2, <1>4, <2>1, OthersKeep, CpuFacts
    <2>2. CASE d = i
      <3>1. cpu[i] \in {"off", "create"} /\ (cpu[i] = "create" => i = 0)
        BY <1>2 DEF CpuOk, OffUntilAsked
      <3> QED
        BY <1>2, <1>4, <2>2, <3>1
        DEF CpuOk, OffUntilAsked, StateFollows, ElrRight, OnVcpu, Entry
    <2> QED BY <2>1, <2>2
  <1> QED BY <1>3, <1>5, <1>6, <1>7

\* create_vm ends: virtual CPU 0 is ready and CPU 0 enters it.
LEMMA VmCreatedKeeps ==
  ASSUME BootInv, VmCreated
  PROVE  BootInv'
  <1> USE DEF BootInv
  <1>1. \A i \in Cpu : vm[i] = i
    BY DEF VmCreated, NotCreated, PoolInOrder
  <1>2. /\ cpu[0] = "create" /\ cpu' = [cpu EXCEPT ![0] = "enter"]
        /\ pool' = [pool EXCEPT ![0].state = "READY"]
        /\ UNCHANGED <<vm, tpidr, pc, esr, started, target>>
    BY <1>1, CpuFacts, Zenon DEF VmCreated, Goto
  <1>3. /\ pool' \in [Slot -> Vcpu]
        /\ pool'[0].state = "READY" /\ pool'[0].cpuid = pool[0].cpuid
        /\ pool'[0].elr = pool[0].elr
        /\ \A t \in Slot \ {0} : pool'[t] = pool[t]
    BY <1>2, StateWritten, CpuFacts, Zenon
  <1>4. cpu'[0] = "enter" /\ \A c \in Cpu \ {0} : cpu'[c] = cpu[c]
    BY <1>2, CpuFacts DEF TypeOK
  <1>5. TypeOK'
    BY <1>2, <1>3, CpuFacts DEF TypeOK
  <1>6. PoolInOrder'
    <2>1. pool[0].state # "UNUSED"
      BY <1>1, CpuFacts DEF PoolInOrder
    <2> QED BY <1>1, <1>2, <1>3, <2>1, PoolKeeps
  <1>7. TargetOff'
    BY <1>4 DEF TargetOff, TurningOn
  <1>8. ASSUME NEW d \in Cpu PROVE CpuOk(d)'
    <2>1. CASE d # 0
      BY <1>2, <1>3, <1>4, <2>1, OthersKeep, CpuFacts
    <2>2. CASE d = 0
      BY <1>1, <1>2, <1>3, <1>4, <2>2
      DEF CpuOk, OffUntilAsked, StateFollows, ElrRight, OnVcpu, Entry
    <2> QED BY <2>1, <2>2
  <1> QED BY <1>5, <1>6, <1>7, <1>8

\* What a step of a CPU that has left create_vm finds: the pool is filled, and
\* the CPU is not the target of a CPU_ON.
LEMMA AfterCreate ==
  ASSUME BootInv, NEW c \in Cpu, cpu[c] \notin {"off", "create"}
  PROVE  /\ cpu[0] # "create"
         /\ \A i \in Cpu : vm[i] = i /\ pool[i].cpuid = i /\ pool[i].state # "UNUSED"
         /\ TurningOn => target[0] \in Cpu \ {c, 0}
         /\ cpu[c] \in OnVcpu => tpidr[c] = c
         /\ c # 0 => cpu[c] \notin {"on_ready", "on_smc"} /\ esr[c] # "CPU_ON"
  <1> USE DEF BootInv
  <1>1. cpu[0] # "create"
    BY DEF CpuOk, OffUntilAsked
  <1>2. \A i \in Cpu : vm[i] = i /\ pool[i].cpuid = i /\ pool[i].state # "UNUSED"
    BY <1>1, CpuFacts DEF PoolInOrder
  <1>3. TurningOn => target[0] \in Cpu \ {c, 0}
    BY CpuFacts DEF TargetOff, TypeOK
  <1>4. cpu[c] \in OnVcpu => tpidr[c] = c
    BY DEF CpuOk, StateFollows
  <1>5. c # 0 => cpu[c] \notin {"on_ready", "on_smc"} /\ esr[c] # "CPU_ON"
    BY DEF CpuOk, OffUntilAsked
  <1> QED BY <1>1, <1>2, <1>3, <1>4, <1>5

\* A step of CPU c that writes to its own virtual CPU at most: what is left to
\* show is that c itself is right after it.
LEMMA OwnStep ==
  ASSUME BootInv, NEW c \in Cpu, cpu[c] \notin {"off", "create"}, TypeOK',
         \A d \in Cpu \ {c} : /\ cpu'[d] = cpu[d] /\ tpidr'[d] = tpidr[d]
                              /\ pc'[d] = pc[d] /\ esr'[d] = esr[d],
         cpu'[c] \notin {"off", "create"},
         pool'[c].cpuid = pool[c].cpuid, pool'[c].state # "UNUSED",
         \A t \in Slot \ {c} : pool'[t] = pool[t],
         vm' = vm, started' = started, target' = target,
         CpuOk(c)', c = 0 => ~TurningOn'
  PROVE  BootInv'
  <1> USE DEF BootInv
  <1>0. /\ cpu[0] # "create"
        /\ \A i \in Cpu : vm[i] = i /\ pool[i].cpuid = i /\ pool[i].state # "UNUSED"
        /\ TurningOn => target[0] \in Cpu \ {c, 0}
    BY AfterCreate
  <1>1. PoolInOrder'
    BY <1>0, PoolKeeps, CpuFacts
  <1>2. TargetOff'
    <2>1. CASE c = 0
      BY <2>1 DEF TargetOff, TurningOn
    <2>2. CASE c # 0
      BY <1>0, <2>2, TargetKeeps, CpuFacts, Zenon
    <2> QED BY <2>1, <2>2
  <1>3. ASSUME NEW d \in Cpu, d # c PROVE CpuOk(d)'
    <2>1. cpu'[0] # "create"
      BY <1>0, CpuFacts
    <2> QED BY <1>0, <1>3, <2>1, OthersKeep, CpuFacts
  <1> QED BY <1>1, <1>2, <1>3

\* vmm_init_secondary, enter_vcpu, switch_to_vcpu and the eret: a CPU that
\* comes up finds its own virtual CPU, ready.
LEMMA BootKeeps ==
  ASSUME BootInv, NEW c \in Cpu, Boot(c)
  PROVE  BootInv'
  <1> USE DEF BootInv
  <1>0. /\ cpu[c] \notin {"off", "create"} /\ cpu[0] # "create"
        /\ \A i \in Cpu : vm[i] = i /\ pool[i].cpuid = i /\ pool[i].state # "UNUSED"
        /\ cpu[c] \in OnVcpu => tpidr[c] = c
    BY AfterCreate DEF Boot, SecondaryInit, EnterVcpu, SwitchToVcpu, EretVm
  <1>1. CASE SecondaryInit(c) \/ EnterVcpu(c)
    <2>1. PICK l \in {"enter", "switch"} :
             /\ cpu[c] \in {"boot", "enter"} /\ cpu' = [cpu EXCEPT ![c] = l]
             /\ UNCHANGED <<pool, vm, tpidr, pc, esr, started, target>>
      BY <1>1 DEF SecondaryInit, EnterVcpu, Goto, CpuOk, StateFollows
    <2>2. TypeOK' /\ cpu'[c] = l /\ \A d \in Cpu \ {c} : cpu'[d] = cpu[d]
      BY <2>1 DEF TypeOK
    <2>3. OffUntilAsked(c)' /\ (c = 0 => ~TurningOn')
      BY <1>0, <2>1, <2>2, CpuFacts DEF CpuOk, OffUntilAsked, TurningOn
    <2>4. StateFollows(c)'
      BY <2>1, <2>2 DEF CpuOk, StateFollows, OnVcpu
    <2>5. ElrRight(c)'
      BY <2>1, <2>2 DEF CpuOk, ElrRight, Entry
    <2>7. CpuOk(c)'
      BY <2>3, <2>4, <2>5 DEF CpuOk
    <2>8. BootInv
      OBVIOUS
    <2> HIDE DEF BootInv
    <2> QED BY <2>8, <1>0, <2>1, <2>2, <2>3, <2>4, <2>5, <2>7, OwnStep, CpuFacts
  <1>2. CASE SwitchToVcpu(c)
    <2>1. /\ cpu[c] = "switch" /\ cpu' = [cpu EXCEPT ![c] = "eret"]
          /\ tpidr' = [tpidr EXCEPT ![c] = c]
          /\ pool' = [pool EXCEPT ![c].state = "RUNNING"]
          /\ UNCHANGED <<vm, pc, esr, started, target>>
      BY <1>0, <1>2 DEF SwitchToVcpu, Goto
    <2>2. /\ pool' \in [Slot -> Vcpu]
          /\ pool'[c].state = "RUNNING" /\ pool'[c].cpuid = pool[c].cpuid
          /\ pool'[c].elr = pool[c].elr
          /\ \A t \in Slot \ {c} : pool'[t] = pool[t]
      BY <2>1, StateWritten, CpuFacts, Zenon
    <2>3. /\ TypeOK' /\ cpu'[c] = "eret" /\ tpidr'[c] = c
          /\ \A d \in Cpu \ {c} : cpu'[d] = cpu[d] /\ tpidr'[d] = tpidr[d]
      BY <2>1, <2>2, CpuFacts DEF TypeOK
    <2>4. OffUntilAsked(c)' /\ (c = 0 => ~TurningOn')
      BY <1>0, <2>1, <2>3, CpuFacts DEF CpuOk, OffUntilAsked, TurningOn
    <2>5. StateFollows(c)'
      BY <2>2, <2>3 DEF CpuOk, StateFollows, OnVcpu
    <2>6. ElrRight(c)'
      BY <2>1, <2>2, <2>3 DEF CpuOk, ElrRight, Entry
    <2>7. CpuOk(c)'
      BY <2>4, <2>5, <2>6 DEF CpuOk
    <2>8. BootInv
      OBVIOUS
    <2> HIDE DEF BootInv
    <2> QED BY <2>8, <1>0, <2>1, <2>2, <2>3, <2>4, <2>5, <2>6, <2>7, OwnStep, CpuFacts
  <1>3. CASE EretVm(c)
    <2>1. /\ cpu[c] = "eret" /\ cpu' = [cpu EXCEPT ![c] = "guest"]
          /\ pc' = [pc EXCEPT ![c] = pool[c].elr]
          /\ esr' = [esr EXCEPT ![c] = "none"]
          /\ UNCHANGED <<pool, vm, tpidr, started, target>>
      BY <1>0, <1>3, Zenon DEF EretVm, Goto, OnVcpu
    <2>2. pool[c].elr \in Nat
      BY CpuFacts DEF TypeOK, Vcpu
    <2>3. /\ TypeOK' /\ cpu'[c] = "guest" /\ esr'[c] = "none"
          /\ \A d \in Cpu \ {c} : cpu'[d] = cpu[d] /\ pc'[d] = pc[d] /\ esr'[d] = esr[d]
      BY <2>1, <2>2, CpuFacts DEF TypeOK
    <2>4. OffUntilAsked(c)' /\ (c = 0 => ~TurningOn')
      BY <1>0, <2>1, <2>3, CpuFacts DEF CpuOk, OffUntilAsked, TurningOn
    <2>5. StateFollows(c)'
      BY <2>1, <2>3 DEF CpuOk, StateFollows, OnVcpu
    <2>6. ElrRight(c)'
      BY <2>1, <2>3 DEF CpuOk, ElrRight
    <2>7. CpuOk(c)'
      BY <2>4, <2>5, <2>6 DEF CpuOk
    <2>8. BootInv
      OBVIOUS
    <2> HIDE DEF BootInv
    <2> QED BY <2>8, <1>0, <2>1, <2>3, <2>4, <2>5, <2>6, <2>7, OwnStep, CpuFacts
  <1> QED BY <1>1, <1>2, <1>3 DEF Boot

\* psci_cpu_on writes to the virtual CPU of a CPU that is off, so neither the
\* caller nor any other CPU loses its saved registers.
LEMMA CpuOnKeeps ==
  ASSUME BootInv, NEW c \in Cpu, CpuOnEntry(c) \/ CpuOnReady(c) \/ CpuOnSmc(c)
  PROVE  BootInv'
  <1> USE DEF BootInv
  <1>0. PICK t \in Cpu \ {0} :
        /\ t = target[0] /\ cpu[t] = "off"
        /\ c = 0 /\ TurningOn /\ cpu[0] \in OnVcpu /\ esr[0] = "CPU_ON"
        /\ cpu[0] # "create"
        /\ \A i \in Cpu : vm[i] = i /\ pool[i].cpuid = i /\ pool[i].state # "UNUSED"
    <2>1. cpu[c] \notin {"off", "create"} /\ cpu[c] \in OnVcpu
      BY DEF CpuOnEntry, CpuOnReady, CpuOnSmc, OnVcpu
    <2>2. c = 0
      BY <2>1, AfterCreate DEF CpuOnEntry, CpuOnReady, CpuOnSmc
    <2>3. TurningOn /\ esr[0] = "CPU_ON"
      BY <2>2 DEF CpuOnEntry, CpuOnReady, CpuOnSmc, TurningOn, CpuOk, ElrRight
    <2> QED BY <2>1, <2>2, <2>3, AfterCreate, Zenon DEF TargetOff
  <1>1. ASSUME NEW l \in {"on_ready", "on_smc"}, pool' \in [Slot -> Vcpu],
               cpu' = [cpu EXCEPT ![0] = l], cpu[0] \in {"trap", "on_ready"},
               pool'[t].cpuid = pool[t].cpuid,
               pool'[t].state # "UNUSED", pool'[t].state # "RUNNING",
               pool'[t].elr = SecondaryEntry,
               l = "on_smc" => pool'[t].state = "READY",
               \A s \in Slot \ {t} : pool'[s] = pool[s],
               UNCHANGED <<vm, tpidr, pc, esr, started, target>>
        PROVE  BootInv'
    <2>1. TypeOK' /\ cpu'[0] = l /\ \A d \in Cpu \ {0} : cpu'[d] = cpu[d]
      BY <1>1, CpuFacts DEF TypeOK
    <2>2. PoolInOrder'
      <3>1. \A s \in Slot : /\ pool'[s].cpuid = pool[s].cpuid
                            /\ pool'[s].state = "UNUSED" <=> pool[s].state = "UNUSED"
        BY <1>0, <1>1
      <3>2. PoolInOrder /\ vm' = vm /\ \A i \in Cpu : vm[i] = i
        BY <1>0, <1>1
      <3> QED BY <3>1, <3>2, PoolKeeps
    <2>3. TargetOff'
      BY <1>0, <1>1, <2>1 DEF TargetOff
    <2>4. ASSUME NEW d \in Cpu \ {0, t} PROVE CpuOk(d)'
      BY <1>0, <1>1, <2>1, OthersKeep, CpuFacts
    <2>5. CpuOk(0)'
      <3>1. OffUntilAsked(0)'
        BY <1>1, <2>1, CpuFacts DEF CpuOk, OffUntilAsked
      <3>2. StateFollows(0)'
        BY <1>0, <1>1, <2>1, CpuFacts DEF CpuOk, StateFollows, OnVcpu
      <3>3. ElrRight(0)'
        <4>1. /\ cpu[0] \in {"trap", "on_ready"} /\ pool'[0] = pool[0] /\ pc'[0] = pc[0]
              /\ esr'[0] = "CPU_ON" /\ pool[0].elr = pc[0] + 1
          BY <1>0, <1>1, CpuFacts, TrapFacts DEF CpuOk, ElrRight
        <4> QED BY <1>1, <2>1, <4>1, TrapFacts DEF ElrRight
      <3> QED BY <3>1, <3>2, <3>3 DEF CpuOk
    <2>6. CpuOk(t)'
      <3>1. cpu'[t] = "off" /\ cpu'[0] # "create" /\ OffUntilAsked(t)'
        BY <1>0, <1>1, <2>1, CpuFacts, Zenon DEF CpuOk, OffUntilAsked
      <3>2. StateFollows(t)'
        BY <1>1, <3>1 DEF StateFollows, OnVcpu
      <3>3. ElrRight(t)'
        <4>1. esr'[t] = "none"
          BY <1>0, <1>1 DEF CpuOk, ElrRight
        <4> QED BY <3>1, <4>1 DEF ElrRight
      <3> QED BY <3>1, <3>2, <3>3 DEF CpuOk
    <2> QED BY <2>1, <2>2, <2>3, <2>4, <2>5, <2>6
  <1>2. t \in Slot /\ pool[t].state # "RUNNING"
    BY <1>0, CpuFacts DEF CpuOk, StateFollows
  <1>3. CASE CpuOnEntry(c)
    <2>1. /\ cpu[0] = "trap" /\ cpu' = [cpu EXCEPT ![0] = "on_ready"]
          /\ pool' = [pool EXCEPT ![t].elr = SecondaryEntry]
          /\ UNCHANGED <<vm, tpidr, pc, esr, started, target>>
      BY <1>0, <1>3, Zenon DEF CpuOnEntry, Goto
    <2>2. /\ pool' \in [Slot -> Vcpu] /\ pool'[t].elr = SecondaryEntry
          /\ pool'[t].cpuid = pool[t].cpuid /\ pool'[t].state = pool[t].state
          /\ \A s \in Slot \ {t} : pool'[s] = pool[s]
      BY <1>2, <2>1, ElrWritten, CpuFacts, Zenon
    <2> QED BY <1>0, <1>1, <1>2, <2>1, <2>2
  <1>4. CASE CpuOnReady(c)
    <2>1. /\ cpu[0] = "on_ready" /\ cpu' = [cpu EXCEPT ![0] = "on_smc"]
          /\ pool' = [pool EXCEPT ![t].state = "READY"]
          /\ UNCHANGED <<vm, tpidr, pc, esr, started, target>>
      BY <1>0, <1>4, Zenon DEF CpuOnReady, Goto
    <2>2. /\ pool' \in [Slot -> Vcpu] /\ pool'[t].state = "READY"
          /\ pool'[t].cpuid = pool[t].cpuid /\ pool'[t].elr = pool[t].elr
          /\ \A s \in Slot \ {t} : pool'[s] = pool[s]
      BY <1>2, <2>1, StateWritten, Zenon
    <2>3. pool[t].elr = SecondaryEntry
      BY <1>0, <2>1 DEF TargetOff
    <2> QED BY <1>0, <1>1, <1>2, <2>1, <2>2, <2>3
  <1>5. CASE CpuOnSmc(c)
    <2>1. /\ cpu[0] = "on_smc" /\ cpu' = [cpu EXCEPT ![t] = "boot", ![0] = "eret"]
          /\ UNCHANGED <<pool, vm, tpidr, pc, esr, started, target>>
      BY <1>0, <1>5 DEF CpuOnSmc
    <2>2. /\ TypeOK' /\ cpu'[0] = "eret" /\ cpu'[t] = "boot"
          /\ \A d \in Cpu \ {0, t} : cpu'[d] = cpu[d]
      BY <1>0, <2>1, CpuFacts DEF TypeOK
    <2>3. PoolInOrder'
      BY <1>0, <2>1, PoolKeeps, CpuFacts
    <2>4. TargetOff'
      BY <2>2 DEF TargetOff, TurningOn
    <2>5. ASSUME NEW d \in Cpu \ {0, t} PROVE CpuOk(d)'
      BY <1>0, <2>1, <2>2, OthersKeep, CpuFacts, Zenon
    <2>6. CpuOk(0)'
      <3>1. OffUntilAsked(0)'
        BY <2>1, <2>2, CpuFacts DEF CpuOk, OffUntilAsked
      <3>2. StateFollows(0)'
        BY <1>0, <2>1, <2>2, CpuFacts DEF CpuOk, StateFollows, OnVcpu
      <3>3. ElrRight(0)'
        BY <1>0, <2>1, <2>2, CpuFacts, TrapFacts DEF CpuOk, ElrRight
      <3> QED BY <3>1, <3>2, <3>3 DEF CpuOk
    <2>7. CpuOk(t)'
      <3>1. t \in started /\ esr[t] = "none"
        BY <1>0 DEF CpuOk, ElrRight, TargetOff
      <3>2. pool[t].state = "READY" /\ pool[t].elr = Entry(t)
        BY <1>0, <2>1 DEF TargetOff, Entry
      <3>3. OffUntilAsked(t)'
        BY <1>0, <2>1, <2>2, <3>1 DEF OffUntilAsked
      <3>4. StateFollows(t)'
        BY <2>1, <2>2, <3>2 DEF StateFollows, OnVcpu
      <3>5. ElrRight(t)'
        BY <2>1, <2>2, <3>1, <3>2 DEF ElrRight, Entry
      <3> QED BY <3>3, <3>4, <3>5 DEF CpuOk
    <2> QED BY <2>2, <2>3, <2>4, <2>5, <2>6, <2>7
  <1> QED BY <1>3, <1>4, <1>5

\* The rest of lower_el_sync_handler: an emulated instruction is skipped, and
\* a call that syscall_handler does not know is a panic.
LEMMA HandlerKeeps ==
  ASSUME BootInv, NEW c \in Cpu, Emulate(c) \/ AdvancePc(c) \/ TrapFails(c) \/ UnknownFid(c)
  PROVE  BootInv'
  <1>0. /\ cpu[c] \notin {"off", "create"} /\ cpu[0] # "create"
        /\ cpu[c] \in OnVcpu /\ tpidr[c] = c
        /\ \A i \in Cpu : vm[i] = i /\ pool[i].cpuid = i /\ pool[i].state # "UNUSED"
        /\ CpuOk(c) /\ TypeOK
    BY AfterCreate DEF Emulate, AdvancePc, TrapFails, UnknownFid, OnVcpu, BootInv
  <1>1. ASSUME NEW l \in {"advance", "panic"}, cpu[c] = "trap",
               l = "advance" => esr[c] \in Emulated,
               l = "panic" => esr[c] \in Unserved,
               cpu' = [cpu EXCEPT ![c] = l],
               UNCHANGED <<pool, vm, tpidr, pc, esr, started, target>>
        PROVE  BootInv'
    <2>1. TypeOK' /\ cpu'[c] = l /\ \A d \in Cpu \ {c} : cpu'[d] = cpu[d]
      BY <1>0, <1>1 DEF TypeOK
    <2>2. OffUntilAsked(c)' /\ (c = 0 => ~TurningOn')
      BY <1>0, <1>1, <2>1, CpuFacts DEF CpuOk, OffUntilAsked, TurningOn
    <2>3. StateFollows(c)'
      BY <1>0, <1>1, <2>1 DEF CpuOk, StateFollows, OnVcpu
    <2>4. ElrRight(c)'
      BY <1>0, <1>1, <2>1 DEF CpuOk, ElrRight
    <2>5. CpuOk(c)'
      BY <2>2, <2>3, <2>4 DEF CpuOk
    <2> QED BY <1>0, <1>1, <2>1, <2>2, <2>5, OwnStep, CpuFacts
  <1>2. CASE Emulate(c)
    BY <1>1, <1>2 DEF Emulate, Goto
  <1>3. CASE UnknownFid(c)
    BY <1>1, <1>3 DEF UnknownFid, Goto, Unserved, Functions
  <1>5. CASE TrapFails(c)
    BY <1>1, <1>5 DEF TrapFails, Goto, Unserved
  <1>4. CASE AdvancePc(c)
    <2>1. /\ cpu[c] = "advance" /\ cpu' = [cpu EXCEPT ![c] = "eret"]
          /\ pool' = [pool EXCEPT ![c].elr = pool[c].elr + 1]
          /\ UNCHANGED <<vm, tpidr, pc, esr, started, target>>
      BY <1>0, <1>4 DEF AdvancePc, Goto
    <2>2. pool[c].elr = pc[c] /\ pc[c] \in Nat /\ esr[c] # "none"
      BY <1>0, <2>1, TrapFacts DEF CpuOk, ElrRight, TypeOK
    <2>3. /\ pool' \in [Slot -> Vcpu] /\ pool'[c].elr = pc[c] + 1
          /\ pool'[c].cpuid = pool[c].cpuid /\ pool'[c].state = pool[c].state
          /\ \A t \in Slot \ {c} : pool'[t] = pool[t]
      <3>1. pool' = [pool EXCEPT ![c].elr = pc[c] + 1] /\ pc[c] + 1 \in Nat /\ c \in Slot
        BY <2>1, <2>2, CpuFacts
      <3> QED BY <1>0, <3>1, ElrWritten, Zenon
    <2>4. TypeOK' /\ cpu'[c] = "eret" /\ \A d \in Cpu \ {c} : cpu'[d] = cpu[d]
      BY <1>0, <2>1, <2>3 DEF TypeOK
    <2>5. OffUntilAsked(c)' /\ (c = 0 => ~TurningOn')
      BY <1>0, <2>1, <2>4, CpuFacts DEF CpuOk, OffUntilAsked, TurningOn
    <2>6. StateFollows(c)'
      BY <1>0, <2>1, <2>3, <2>4 DEF CpuOk, StateFollows, OnVcpu
    <2>7. ElrRight(c)'
      BY <2>1, <2>2, <2>3, <2>4 DEF ElrRight
    <2>8. CpuOk(c)'
      BY <2>5, <2>6, <2>7 DEF CpuOk
    <2> QED BY <1>0, <2>1, <2>3, <2>4, <2>5, <2>8, OwnStep, CpuFacts
  <1> QED BY <1>2, <1>3, <1>4, <1>5

\* The guest traps: vm_context_save writes the registers of the virtual CPU
\* whose number the CPU has, and CPU_ON names a CPU that is still off.
LEMMA GuestKeeps ==
  ASSUME BootInv, NEW c \in Cpu, Guest(c)
  PROVE  BootInv'
  <1>0. /\ cpu[c] = "guest" /\ cpu[c] \notin {"off", "create"} /\ cpu[0] # "create"
        /\ cpu[c] \in OnVcpu /\ tpidr[c] = c
        /\ \A i \in Cpu : vm[i] = i /\ pool[i].cpuid = i /\ pool[i].state # "UNUSED"
        /\ CpuOk(c) /\ TypeOK /\ pc[c] \in Nat
    <2>1. cpu[c] = "guest"
      BY DEF Guest, TrappedInstr, GuestCpuOn, GuestPsci, TrapWith
    <2> QED BY <2>1, AfterCreate DEF OnVcpu, BootInv, TypeOK
  <1>1. ASSUME NEW e, NEW n \in Nat, TrapWith(c, e, n),
               e \in Instr \cup Functions,
               n = IF e \in Instr THEN pc[c] ELSE pc[c] + 1,
               e = "CPU_ON" => c = 0,
               UNCHANGED <<vm, tpidr, pc>>, started \subseteq started',
               started' \subseteq Cpu, target' \in [Cpu -> Cpu]
        PROVE  /\ TypeOK' /\ PoolInOrder' /\ \A d \in Cpu : CpuOk(d)'
               /\ cpu'[c] = "trap" /\ esr'[c] = e
               /\ \A d \in Cpu \ {c} : cpu'[d] = cpu[d] /\ esr'[d] = esr[d]
               /\ \A t \in Slot \ {c} : pool'[t] = pool[t]
    <2>1. /\ cpu' = [cpu EXCEPT ![c] = "trap"]
          /\ pool' = [pool EXCEPT ![c].elr = n]
          /\ esr' = [esr EXCEPT ![c] = e]
      BY <1>0, <1>1 DEF TrapWith, Goto
    <2>2. /\ pool' \in [Slot -> Vcpu] /\ pool'[c].elr = n
          /\ pool'[c].cpuid = pool[c].cpuid /\ pool'[c].state = pool[c].state
          /\ \A t \in Slot \ {c} : pool'[t] = pool[t]
      BY <1>0, <2>1, ElrWritten, CpuFacts, Zenon
    <2>3. /\ TypeOK' /\ cpu'[c] = "trap" /\ esr'[c] = e
          /\ \A d \in Cpu \ {c} : cpu'[d] = cpu[d] /\ esr'[d] = esr[d]
      BY <1>0, <1>1, <2>1, <2>2 DEF TypeOK, Instr
    <2>4. PoolInOrder'
      BY <1>0, <1>1, <2>2, PoolKeeps, CpuFacts, SMTT(20) DEF BootInv
    <2>5. ASSUME NEW d \in Cpu, d # c PROVE CpuOk(d)'
      <3>1. cpu'[0] # "create"
        BY <1>0, <2>3, CpuFacts
      <3> QED BY <1>0, <1>1, <2>2, <2>3, <2>5, <3>1, OthersKeep, CpuFacts, SMTT(20) DEF BootInv
    <2>6. OffUntilAsked(c)'
      BY <1>0, <1>1, <2>3, CpuFacts, SMTT(20) DEF CpuOk, OffUntilAsked
    <2>7. StateFollows(c)'
      BY <1>0, <1>1, <2>2, <2>3, SMTT(20) DEF CpuOk, StateFollows, OnVcpu
    <2>8. ElrRight(c)'
      BY <1>1, <2>2, <2>3, TrapFacts, SMTT(20) DEF ElrRight
    <2> QED BY <2>2, <2>3, <2>4, <2>5, <2>6, <2>7, <2>8, Zenon DEF CpuOk
  <1>2. ASSUME NEW e, NEW n \in Nat, TrapWith(c, e, n),
               e \in Instr \cup (Functions \ {"CPU_ON"}),
               n = IF e \in Instr THEN pc[c] ELSE pc[c] + 1,
               UNCHANGED <<vm, tpidr, pc, started, target>>
        PROVE  BootInv'
    <2>1. /\ TypeOK' /\ PoolInOrder' /\ \A d \in Cpu : CpuOk(d)'
          /\ cpu'[c] = "trap" /\ esr'[c] = e
          /\ \A d \in Cpu \ {c} : cpu'[d] = cpu[d] /\ esr'[d] = esr[d]
          /\ \A t \in Slot \ {c} : pool'[t] = pool[t]
      BY <1>0, <1>1, <1>2, TrapFacts DEF TypeOK
    <2>2. TargetOff'
      <3>1. CASE c = 0
        BY <1>2, <2>1, <3>1, TrapFacts DEF TargetOff, TurningOn
      <3>2. CASE c # 0
        <4>1. TurningOn => target[0] \in Cpu \ {c}
          BY <1>0, AfterCreate
        <4> QED BY <1>2, <2>1, <3>2, <4>1, TargetKeeps, CpuFacts, Zenon DEF BootInv
      <3> QED BY <3>1, <3>2
    <2> QED BY <2>1, <2>2 DEF BootInv
  <1>3. CASE TrappedInstr(c)
    BY <1>0, <1>2, <1>3 DEF TrappedInstr, Instr
  <1>4. ASSUME NEW f \in Functions, GuestPsci(c, f) PROVE BootInv'
    <2>1. f \in Functions \ {"CPU_ON"} /\ f \notin Instr /\ pc[c] + 1 \in Nat
      BY <1>0, <1>4 DEF GuestPsci, Functions, Instr, Emulated, NotEmulated
    <2> QED BY <1>2, <1>4, <2>1 DEF GuestPsci
  <1>5. ASSUME NEW t \in Cpu, GuestCpuOn(c, t) PROVE BootInv'
    <2>1. /\ c = 0 /\ t \notin started /\ TrapWith(c, "CPU_ON", pc[c] + 1)
          /\ started' = started \cup {t} /\ target' = [target EXCEPT ![0] = t]
          /\ UNCHANGED <<vm, tpidr, pc>>
      BY <1>5 DEF GuestCpuOn
    <2>2. /\ "CPU_ON" \in Functions /\ "CPU_ON" \notin Instr
          /\ pc[c] + 1 \in Nat
      BY <1>0 DEF Functions, Instr, Emulated, NotEmulated
    <2>3. /\ started \subseteq started' /\ started' \subseteq Cpu
          /\ target' \in [Cpu -> Cpu] /\ target'[0] = t
      BY <1>0, <2>1, CpuFacts DEF TypeOK
    <2>4. /\ TypeOK' /\ PoolInOrder' /\ \A d \in Cpu : CpuOk(d)'
          /\ cpu'[c] = "trap" /\ esr'[c] = "CPU_ON"
          /\ \A d \in Cpu \ {c} : cpu'[d] = cpu[d] /\ esr'[d] = esr[d]
      BY <1>1, <2>1, <2>2, <2>3
    <2>5. t # 0 /\ cpu[t] = "off"
      BY <1>0, <2>1 DEF BootInv, CpuOk, OffUntilAsked
    <2>6. TargetOff'
      BY <2>1, <2>3, <2>4, <2>5 DEF TargetOff, TurningOn
    <2> QED BY <2>4, <2>6 DEF BootInv
  <1> QED BY <1>3, <1>4, <1>5 DEF Guest

\* Every step keeps BootInv.
LEMMA BootInvStep == BootInv /\ [Next]_vars => BootInv'
  <1> SUFFICES ASSUME BootInv, [Next]_vars PROVE BootInv'
    OBVIOUS
  <1>1. CASE CreateVm
    BY <1>1, VmCreatedKeeps, NewVcpuKeeps DEF CreateVm
  <1>2. ASSUME NEW c \in Cpu, Boot(c) PROVE BootInv'
    BY <1>2, BootKeeps
  <1>3. ASSUME NEW c \in Cpu, Handler(c) PROVE BootInv'
    BY <1>3, HandlerKeeps, CpuOnKeeps DEF Handler
  <1>4. ASSUME NEW c \in Cpu, Guest(c) PROVE BootInv'
    BY <1>4, GuestKeeps
  <1>5. CASE UNCHANGED vars
    <2>1. TypeOK' /\ PoolInOrder'
      BY <1>5 DEF vars, BootInv, TypeOK, PoolInOrder
    <2>2. TargetOff'
      BY <1>5, TargetKeeps DEF vars, BootInv
    <2>3. \A d \in Cpu : CpuOk(d)'
      BY <1>5, OthersKeep DEF vars, BootInv
    <2> QED BY <2>1, <2>2, <2>3 DEF BootInv
  <1> QED BY <1>1, <1>2, <1>3, <1>4, <1>5 DEF Next

\* BootInv holds throughout.
LEMMA BootInvAlways == Spec => []BootInv
  BY BootInvInit, BootInvStep, PTL DEF Spec

\* Whatever the number of CPUs and however they interleave, the only panic
\* while the guest boots them is that of a call syscall_handler does not know:
\* the checks of enter_vcpu, switch_to_vcpu and of CPU_ON's result hold.
THEOREM NoPanicAlways == Spec => []NoPanic
  <1>1. BootInv => NoPanic
    BY DEF BootInv, CpuOk, ElrRight, NoPanic, Unserved
  <1> QED BY <1>1, BootInvAlways, PTL

\* A CPU in the guest or in lower_el_sync_handler is on the virtual CPU that
\* create_vm made for it, and no virtual CPU runs before CPU_ON.
THEOREM OwnVcpuAlways == Spec => []OwnVcpu
  <1>1. BootInv => OwnVcpu
    <2> SUFFICES ASSUME BootInv PROVE OwnVcpu
      OBVIOUS
    <2>1. ASSUME NEW c \in Cpu,
                 cpu[c] \in {"guest", "trap", "on_ready", "on_smc", "advance"}
          PROVE  tpidr[c] = vm[c] /\ pool[tpidr[c]].cpuid = c
                 /\ pool[tpidr[c]].state = "RUNNING"
      <3>1. cpu[c] \notin {"off", "create"} /\ cpu[c] \in OnVcpu
        BY <2>1 DEF OnVcpu
      <3> QED BY <3>1, AfterCreate DEF BootInv, CpuOk, StateFollows
    <2>2. ASSUME NEW s \in Slot, pool[s].state = "RUNNING"
          PROVE  pool[s].cpuid \in started
      <3>1. s \in Cpu /\ vm[s] = s
        BY <2>2, CpuFacts DEF BootInv, PoolInOrder
      <3> QED
        BY <2>2, <3>1 DEF BootInv, PoolInOrder, CpuOk, StateFollows, OffUntilAsked
    <2> QED BY <2>1, <2>2 DEF OwnVcpu
  <1> QED BY <1>1, BootInvAlways, PTL

\* Every return to the guest is to the instruction after the trapped one, or
\* to the entry point of the virtual CPU, whatever other CPUs write meanwhile.
THEOREM ResumesNextAlways == Spec => ResumesNext
  <1>1. BootInv /\ [Next]_vars =>
           [\A c \in Cpu : cpu[c] = "eret" /\ cpu'[c] = "guest" =>
               pc'[c] = IF esr[c] # "none" THEN pc[c] + 1
                        ELSE IF c = 0 THEN EntryPoint ELSE SecondaryEntry]_vars
    <2> SUFFICES ASSUME BootInv, Next, NEW c \in Cpu, cpu[c] = "eret", cpu'[c] = "guest"
                 PROVE  pc'[c] = IF esr[c] # "none" THEN pc[c] + 1
                                 ELSE IF c = 0 THEN EntryPoint ELSE SecondaryEntry
      OBVIOUS
    <2>1. EretVm(c)
      <3>0. TypeOK /\ cpu'[c] # cpu[c]
        BY DEF BootInv
      <3>1. ~CreateVm
        BY <3>0, CpuFacts DEF CreateVm, VmCreated, NewVcpu, Goto, TypeOK
      <3>2. ASSUME NEW d \in Cpu, Boot(d) PROVE EretVm(c)
        BY <3>0, <3>2 DEF Boot, SecondaryInit, EnterVcpu, SwitchToVcpu, EretVm, Goto, TypeOK
      <3>3. ASSUME NEW d \in Cpu, Handler(d) PROVE FALSE
        BY <3>0, <3>3 DEF Handler, Emulate, AdvancePc, CpuOnEntry, CpuOnReady, CpuOnSmc,
                          TrapFails, UnknownFid, Goto, TypeOK
      <3>4. ASSUME NEW d \in Cpu, Guest(d) PROVE FALSE
        BY <3>0, <3>4 DEF Guest, TrappedInstr, GuestCpuOn, GuestPsci, TrapWith, Goto, TypeOK
      <3> QED BY <3>1, <3>2, <3>3, <3>4 DEF Next
    <2>2. tpidr[c] = c /\ pool[c].elr = IF esr[c] = "none" THEN Entry(c) ELSE pc[c] + 1
      BY DEF BootInv, CpuOk, StateFollows, ElrRight, OnVcpu
    <2> QED BY <2>1, <2>2 DEF EretVm, Entry, BootInv, TypeOK
  <1> QED BY <1>1, BootInvAlways, PTL DEF Spec, ResumesNext
==============================================================================
