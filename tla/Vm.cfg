SPECIFICATION Spec
CONSTANTS
    PGSIZE = 8
    EXTMEM = 64
    ETEXT = 520
    END = 531
    BOOTMEM = 88
    PHYSTOP = 107
    DEVICES <- MCDevices
    KERNBASE = 8192
    MAXVA = 10240
    NPROC = 3
    MAXARG = 3
    MAXPATH = 4
    PIPESIZE = 2
    UINT = 65536
    FILE <- MCFile
    Image <- MCImage
    Start = {"copyin", "copyout", "copyinstr1", "copyinstr2", "copyinstr3", "rwsbrk", "exectest",
             "mem", "sbrkbasic", "sbrkmuch", "kernmem", "MAXVAplus", "sbrkfail", "sbrkarg",
             "validatetest", "bsstest", "bigargtest", "argptest", "stacktest", "pgbug", "sbrkbugs",
             "sbrklast", "sbrk8000", "badwrite", "badarg", "execout0", "execout3", "execout5",
             "execout7", "execout8", "countfree", "sh_back", "forktest",
             "full_memory", "bad_arguments", "bad_files"}
INVARIANTS
    PagesAccounted
    MapsMatchSize
    VmTestsPass
