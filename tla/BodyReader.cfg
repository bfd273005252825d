SPECIFICATION Spec
CONSTANTS
    Callers <- MCCallers
    Readers <- MCReaders
    Block = 3
    Sizes = {2, 8}
    Buffers = {1, 2, 4, 7}
    Moves <- MCMoves
    MaxBodies = 2
INVARIANTS
    BodyExact
