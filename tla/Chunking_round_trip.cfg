\* Every file of at most five bytes over two values, split into chunks of one
\* to four bytes (and asked for sizes that are refused), in any arrival order.
CONSTANTS
    Byte = {0, 1}
    MaxLength = 5
    ChunkSizes = {0, 1, 2, 3, 4}
SPECIFICATION ChunkingSpec
INVARIANTS
    RoundTrip
    ChunksTile
\* A transfer ends.
CHECK_DEADLOCK FALSE
