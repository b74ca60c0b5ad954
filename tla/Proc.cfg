SPECIFICATION FairSpec
CONSTANTS
    NPROC = 6
    NCPU = 2
    NOFILE = 5
    NFILE = 2
    Console = Console
    None = None
    MaxYield = 1
    Text <- Programs
    PIPESIZE = 2
    WRAP = 4
    INPUT_BUF = 4
    Loops = 1
    Start = {"ut_exitwait", "sh_pipe", "sh_kill", "sh_kill2", "sh_back", "sh_zombie", "sh_forktest", "ut_pipe1", "ut_killstatus", "ut_preempt", "ut_reparent", "ut_twochildren", "ut_reparent2", "ut_full", "ut_reader", "sh_lines", "sh_full"}
INVARIANTS
    OneCpuPerProcess
    ProgramsPass
    FileRefsExact
PROPERTIES
    CommandEnds
CHECK_DEADLOCK FALSE
