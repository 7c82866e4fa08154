\* WalkTasks against forks, exits and PID reuse, seeding the process cache.
CONSTANTS
    Pids <- MCPids
    StartTimes <- MCStartTimes
    Init0 <- MCInit0
    BootID = "b"
SPECIFICATION Spec
INVARIANTS
    TypeOK
    StableTasksSeeded
    SeededIDsDistinct
\* The walk returns once; the kernel may then run out of forks.
CHECK_DEADLOCK FALSE
