SPECIFICATION Spec
CONSTANTS
    NINODES = 13
    NBLOCKS = 20
    BSIZE = 2
    NDIRECT = 4
    NINDIRECT = 2
    Files <- MCFiles
    NPROC = 3
    NOFILE = 3
    NFILE = 4
    NINODE = 5
    MAXOPBLOCKS = 6
    Text <- Scripts
    Start = {"init", "sh_files", "truncate1", "truncate2", "truncate3", "iputtest",
             "exitiputtest", "openiputtest", "opentest", "writetest", "writebig", "createtest",
             "dirtest", "sharedfd", "fourfiles", "createdelete", "unlinkread", "linktest",
             "concreate", "linkunlink", "bigdir", "subdir", "bigwrite", "manywrites",
             "bigfile", "fourteen", "rmdot", "dirfile", "iref", "stressfs", "rm_both",
             "open_full"}
    MaxCrash = 1
INVARIANTS
    FsConsistent
    RefsExact
    TestsPass
    OpFits
    LocksLead
