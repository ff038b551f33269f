\* Two buffers over two arrays of the pool and one of the caller, two bytes long;
\* the allocator on the sizes around every boundary of its arithmetic.
SPECIFICATION BufferSpec
CONSTANTS
    Buffers = {b, c}
    PoolArrays = {a1, a2}
    Foreign = {f}
    Size = 2
    Sizes = {2}
    Bytes = {0, 1}
    MaxRefs = 1
    Requests <- BoundarySizes
INVARIANT PoolsFit
PROPERTY ImplementsQueues
SYMMETRY MCSymmetry
