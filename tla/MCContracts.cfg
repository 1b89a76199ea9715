SPECIFICATION ContractsSpec
CONSTANTS
    Nodes = {n1, n2}
    DECAY_PERIOD = 2
    Deltas = {5500, 11000}
    Waits = {1, 3, 197}
    StartTime = 1
    MaxTicks = 2
    Registrants = {m1, m2}
    Callers = {k1}
    MIN_STAKE = 2
    MinStakes = {1, 3}
    Payments = {0, 1, 2, 3}
    Scores <- MCScores
    MaxEther = 4
    MaxScore = 1
    MaxBlocks = 2
    JobIds = {j1}
    Clients = {c1}
    NoClient = NoClient
    SLA_METRICS_PERIOD = 2
    MIN_DEADLINE_EXTENSION = 1
    RequiredUptimes = {0, 9000}
    RequiredThroughputs = {4}
    Uptimes = {0, 9001, 10001}
    Throughputs = {0, 4}
    MaxTime = 4
    MaxMetrics = 3
    MaxVersion = 2
SYMMETRY NodeSymmetry
INVARIANTS
    LedgerConsistent
    RegistryBalances
    DeadlineViewsAgree
PROPERTIES
    DecayTowardsZero
    VerdictsAreFinal
CHECK_DEADLOCK FALSE
