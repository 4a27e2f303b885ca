SPECIFICATION FairSpec
CONSTANTS
    Procs = {p1, p2}
    Blocks = {u, v}
    NoBlock = NoBlock
    Values = {0, 1}
    InitialValue = 0
    MAXOPBLOCKS = 2
    LOGSIZE = 4
    Nlog = 4
    OpBlocks = 2
INVARIANTS TypeOK QuietIsDurable
PROPERTIES ImplementsAtomicDisk SleepersWoken
