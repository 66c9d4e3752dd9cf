SPECIFICATION Spec
CONSTANTS
    Job = {j1, j2, j3}
    Project = {p1, p2}
    Client = {c1, c2}
    Worker = {w1, w2}
    ChCap = 1
    MaxPerProject = 1
    MaxRestarts = 1
    NoJob = NoJob
    NoProject = NoProject
SYMMETRY Symmetry
CHECK_DEADLOCK FALSE
INVARIANTS
    OrderIsIndex
    OneTicket
    NoStrandedJob
    InputKept
    DoneHasResult
    DownloadFailsOnlyAfterRemoval
