SPECIFICATION Spec
CONSTANTS
    PageSize = 12
    TableSize = 5
    MaxLine = 10
    MaxKeys = 9
    Letters <- TwoLetters
    Files <- TwoFiles
    Builtins <- ThreeBuiltins
    Callers <- SomeCalls
INVARIANTS LineAsShown ArgvExact PointersInPage ImageExact
