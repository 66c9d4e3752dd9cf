SPECIFICATION FairSpec
CONSTANTS
    Job = {j1, j2, j3}
    Project = {p1}
    Client = {c1, c2}
    Worker = {w1}
    ChCap = 1
    MaxPerProject = 2
    MaxRestarts = 0
    NoJob = NoJob
    NoProject = NoProject
CHECK_DEADLOCK FALSE
INVARIANTS
    RemovalsClear
PROPERTIES
    JobSettles
    RemovedJobFreesDisk
    ImplementsLifecycle
