SPECIFICATION Spec
CONSTANTS
    MaxTasks = 2
    UserCalls <- ExecCalls
    ExitStatuses <- Status
    KernelTicks = FALSE
    OutOfMemory = FALSE
INVARIANTS StackLeft
