SPECIFICATION Spec
CONSTANTS
    MaxTasks = 2
    FirstPage = 21
    NPages = 64
    MaxOrder = 6
    MaxVA = 18
    Span = 3
    StackPages = 4
    Programs <- TwoPrograms
    InitProgram <- Small
INVARIANTS NoSharing MappedIsRegistered
PROPERTIES ExitReturnsMemory ForkCopies
