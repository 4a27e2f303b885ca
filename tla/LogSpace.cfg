SPECIFICATION Spec
CONSTANTS
    Procs = {p1, p2, p3}
    Blocks = {u, v, w, x, y}
    NoBlock = NoBlock
    Values = {0}
    InitialValue = 0
    MAXOPBLOCKS = 2
    LOGSIZE = 4
    Nlog = 4
    OpBlocks = 2
SYMMETRY BlockSymmetry
INVARIANTS HeaderFits CommitAlone
