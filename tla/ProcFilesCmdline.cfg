\* ProcessCommandLine against its doc comment: every argument, in order.
CONSTANTS
    Tasks <- MCTasks
    Containers <- MCContainers
    StatusStructs <- MCStatusStructs
    StatusDest = "ptr_struct"
    MaxNum = 3
SPECIFICATION Spec
INVARIANT CommandLineMatchesArgv
CHECK_DEADLOCK FALSE
