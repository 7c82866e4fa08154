\* The procfs readers on every modelled task, with the task exiting at any point.
CONSTANTS
    Tasks <- MCTasks
    Containers <- MCContainers
    StatusStructs <- MCStatusStructs
    StatusDest = "ptr_struct"
    MaxNum = 3
SPECIFICATION Spec
INVARIANTS
    TypeOK
    CommandLineIsArgvPrefix
    StartTimeIsTaskStart
    ContainerIDMatchesCgroups
    MappingsMatchKernel
    StatusMatchesKernel
    StatusIsFilePrefix
\* The reader stops once it has read each file.
CHECK_DEADLOCK FALSE
