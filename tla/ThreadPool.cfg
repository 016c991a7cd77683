SPECIFICATION Spec
CONSTANTS
    NThreads = 3
    Requests = {2, 4}
    MayGrow = FALSE
    Graphs <- ShortGraphs
    MaxGraphs = 2
    ChunkSize = 1
    VectorChunkSize = 2
    ChunksPerThread = 1
INVARIANTS
    TypeOK
    InStep
    EntriesOnce
    AbortTogether
    CallerAlone
    NobodyStuck
PROPERTIES
    UsesBarrier
    ImplementsRendezvous
    CallReturns
    ImplementsGraphComputation
    SuccessIsWhole
