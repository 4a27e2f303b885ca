SPECIFICATION Spec
CONSTANTS
    Procs = {p1, p2}
    initproc = p1
    NoProc = NoProc
    Pages = {a, b, c, d}
    NoPage = NoPage
    Unmapped = Unmapped
    SHAREDREGIONS = 2
    PGSIZE = 2
    NPTENTRIES = 2
    HEAPLIMIT = 8
    KERNBASE = 20
    Keys = {1, 2, 3}
    Sizes = {1, 2}
    Modes = {6}
    ShmgetFlags = {"IPC_CREAT"}
    Addrs = {0, 10}
    ShmatFlags <- NoFlags
    ShmidArgs = {0, 1}
    MaxHeap = 0
    Liberties = {}
SYMMETRY PageSymmetry
INVARIANTS NattchIsAttaches AttachedIsMapped SegmentsDisjoint FirstFitIsLeast RegionTableSound PagesOwnedOnce
PROPERTIES LostByShmgetOnly
CHECK_DEADLOCK FALSE
