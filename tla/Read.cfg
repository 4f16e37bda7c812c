CONSTANTS
    Buffers = {b1, b2, b3}
    MaxChunks = 5
SPECIFICATION Spec
SYMMETRY BufferSymmetry
CHECK_DEADLOCK FALSE
INVARIANTS TypeOK DataIntact OneOwner StreamOrder
