CONSTANTS
    PageSize = 12
    PtrSize = 3
    BlockSizes = {3, 4, 5, 7, 13}
    Data <- MCData
SPECIFICATION Spec
INVARIANTS FreeListIsExact WritesStayInFreeBlocks
