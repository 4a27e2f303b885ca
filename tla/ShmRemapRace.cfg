SPECIFICATION Spec
CONSTANTS
    Procs = {p1, p2}
    initproc = p1
    NoProc = NoProc
    Pages = {a, b, c, d}
    NoPage = NoPage
    Unmapped = Unmapped
    SHAREDREGIONS = 2
    PGSIZE = 2
    NPTENTRIES = 4
    HEAPLIMIT = 8
    KERNBASE = 16
    Keys = {1, 2}
    Sizes = {1}
    Modes = {6}
    ShmgetFlags = {"IPC_CREAT"}
    Addrs = {8}
    ShmatFlags <- RemapFlags
    ShmidArgs = {0, 1}
    MaxHeap = 0
    Liberties = {}
SYMMETRY PageSymmetry
INVARIANTS NattchAtMostAttaches
CHECK_DEADLOCK FALSE
