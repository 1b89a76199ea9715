CONSTANTS
    Nodes = {n1, n2}
    Slashers = {s1}
    Deployer = s1
    MIN_STAKE = 2
    Amounts = {1, 2}
    MaxStakes = {1, 2}
    Durations = {1}
    MaxDeposit = 4
    MaxDonation = 1
    StartTime = 0
    MaxTime = 1
SYMMETRY NodeSymmetry
SPECIFICATION Spec
INVARIANTS
    TypeOK
    DepositConserved
    BooksBalance
PROPERTIES
    ImplementsCustody
    PauseFreezesNodes
CHECK_DEADLOCK FALSE
