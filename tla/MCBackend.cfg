SPECIFICATION BackendSpec
CONSTANTS
    Daemons = {d1, d2}
    Jobs = {1, 2}
    MaxSaves = 3
    MaxLoads = 1
    MaxRestarts = 1
    SplitNodes = {n1, n2, n3}
    Capacities <- MCCapacities
    Sizes = {1, 7}
    Workers = {w1, w2, w3}
    Containers = {c1, c2}
    ApiNodes = {a1}
    Requests = {r1, r2}
    Amounts = {0, 1, 2}
    MaxSent = 4
    MaxRecorded = 4
SYMMETRY DaemonSymmetry
INVARIANTS
    IndexesAgree
    ResumesFromNewest
    SplitIsPartition
    RunawayHasCause
    RowsAreBacked
