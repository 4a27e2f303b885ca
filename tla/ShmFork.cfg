SPECIFICATION Spec
CONSTANTS
    Procs = {p1, p2, p3}
    initproc = p1
    NoProc = NoProc
    Pages = {a, b, c}
    NoPage = NoPage
    Unmapped = Unmapped
    SHAREDREGIONS = 1
    PGSIZE = 2
    NPTENTRIES = 4
    HEAPLIMIT = 8
    KERNBASE = 16
    Keys = {1}
    Sizes = {1}
    Modes = {4, 6}
    ShmgetFlags = {"IPC_CREAT"}
    Addrs = {8}
    ShmatFlags <- NoFlags
    ShmidArgs = {0}
    MaxHeap = 1
    Liberties = {"fork", "rmid"}
SYMMETRY Symmetry
INVARIANTS PagesOwnedOnce
PROPERTIES WriteNeedsMode LostByShmgetOnly
CHECK_DEADLOCK FALSE
