SPECIFICATION OrderlySpec
CONSTANTS
    BLOCK_COUNT = 3
    BLOCK_SIZE = 2
    Track = {A, B}
    NULL = NULL
INVARIANTS
    TypeOK
    RefsMatchBlocks
    DataIsContiguous
    HandleIsNext
    
PROPERTY QueueSpec
