SPECIFICATION FairSpec
CONSTANTS
    Job = {j1, j2}
    Project = {p1}
    Client = {c1, c2}
    Worker = {w1}
    ChCap = 1
    MaxPerProject = 1
    MaxRestarts = 0
    NoJob = NoJob
    NoProject = NoProject
CHECK_DEADLOCK FALSE
PROPERTIES
    RemovedWithItsFiles
