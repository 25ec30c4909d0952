SPECIFICATION WaitSpec
CONSTANTS
    MaxTasks = 3
    UserCalls <- WaitCalls
    ExitStatuses <- Status
    KernelTicks = FALSE
    OutOfMemory = FALSE
PROPERTIES WaitReturns
