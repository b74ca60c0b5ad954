SPECIFICATION FairSpec
CONSTANTS
    NCPU = 3
    VCPU_MAX = 4
    EntryPoint = 0
    SecondaryEntry = 1
    MaxPc = 4
    Calls = {"CPU_ON", "VERSION", "FEATURES"}
INVARIANTS NoPanic OwnVcpu
PROPERTIES ResumesNext CpusComeUp
CHECK_DEADLOCK FALSE
