SPECIFICATION Spec
CONSTANTS
    w1 = w1
    w2 = w2
    d1 = d1
    None = None
    Torn = Torn
    Workers <- MCWorkers
    Data <- MCData
    Lengths <- MCLengths
    BlockSize = 1048576
    MetaSize = 28
    PaddingLengthSize = 8
    MaxBlocks = 2
    MaxInodes = 2
SYMMETRY MCSymmetry
INVARIANTS TypeOK WriteOnceReads WriteOnceSize
