SPECIFICATION Spec
CONSTANTS
    BufferSize = 2
    Batch = 1
    Loads <- MCLoads
    MaxPut = 2
INVARIANTS
    OutputSentBeforeClose
CHECK_DEADLOCK FALSE
