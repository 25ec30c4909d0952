SPECIFICATION FairSpec
CONSTANTS
    Node = {n1, n2, n3, n4}
    Data = {a, b}
    NULL = NULL
    Poison = Poison
INVARIANTS TypeOK ListInv
PROPERTIES ImplementsDataList LoopsEnd
