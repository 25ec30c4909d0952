SPECIFICATION FairSpec
CONSTANTS
    MaxTasks = 3
    UserCalls <- FamilyCalls
    ExitStatuses <- Status
    KernelTicks = FALSE
    OutOfMemory = FALSE
INVARIANTS ParentsAlive WaiterHasNoZombie
PROPERTIES DeathAnnounced StatusStable NoStarvation
