SPECIFICATION FairSpec
CONSTANTS
    BufferSize = 2
    Batch = 1
    Loads <- MCLoads
    MaxPut = 2
INVARIANTS
    PoolKept
    BytesInOrder
    InterestCounted
PROPERTIES
    InterestServed
CHECK_DEADLOCK FALSE
