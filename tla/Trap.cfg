SPECIFICATION FairSpec
CONSTANTS
    Task = {t1, t2}
    init = t1
    MaxDepth = 3
    MaxTyped = 2
    FifoSize = 1
INVARIANTS TypeOK UserResumes KernelResumes AllocatorMasked
PROPERTIES TicksServed
