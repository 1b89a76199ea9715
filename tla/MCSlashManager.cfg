CONSTANTS
    Nodes = {n1, n2}
    Deployer = d
    Manager = m
    Slashers = {d, m}
    MIN_STAKE = 1000
    Amounts = {3200}
    MaxStakes = {3200}
    Durations = {0}
    MaxDeposit = 3200
    MaxDonation = 0
    StartTime = 2
    MaxTime = 4
    JobValues = {20000}
    Percents = {6000}
    Fundings = {500}
    REWARD_PERIOD = 2
    MaxFunding = 500
    MaxEvents = 2
SYMMETRY SMSymmetry
SPECIFICATION StakeMovingSpec
INVARIANTS
    RecordCoversTaken
    PeriodPaidOnce
    SlashBooksBalance
CHECK_DEADLOCK FALSE
