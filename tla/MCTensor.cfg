\* Two tensors; ints so narrow that three images of ten elements are more than
\* one counts, and an output of four dimensions too; an output of five.
CONSTANTS
    Tensors = {t1, t2}
    Dims = {0, 6}
    MaxRank = 2
    Images <- MCImages
    Lists <- MCLists
    MaxBatch = 3
    NetDims = {2}
    NetRank = 5
    TSize = 4
    IntHalf = 16
SYMMETRY Symmetry
SPECIFICATION Spec
INVARIANTS
    TypeOK
    SizeIsStorage
    ImagesInPlace
    
    OutputsArrive
\* The process is gone after a fault.
CHECK_DEADLOCK FALSE
