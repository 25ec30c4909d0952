SPECIFICATION FairSpec
CONSTANTS
    MaxOrder = 3
INVARIANTS TypeOK Partition Coalesced
PROPERTIES Terminates ImplementsPageAllocator
