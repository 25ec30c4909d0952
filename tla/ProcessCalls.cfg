SPECIFICATION Spec
CONSTANTS
    MaxTasks = 2
    UserCalls <- AllCalls
    ExitStatuses <- Status
    KernelTicks = TRUE
    OutOfMemory = TRUE
INVARIANTS TypeOK RunQueueExact OneRunning NoLostWakeup 
           StackReclaimSafe WildExplained
