SPECIFICATION Spec
CONSTANTS
    Procs = {p1, p2, p3}
    Blocks = {u, v, w}
    NoBlock = NoBlock
    Values = {0}
    InitialValue = 0
    MAXOPBLOCKS = 1
    LOGSIZE = 3
    Nlog = 3
    OpBlocks = 1
SYMMETRY BlockSymmetry
INVARIANTS NoPanic
