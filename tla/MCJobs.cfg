SPECIFICATION Spec
CONSTANTS
    Requests = {r1, r2}
    Ids = {j1}
    Clients = {c1, c2}
    NoJob = NoJob
    NoRecord = NoRecord
    NoCall = NoCall
    Modulus = 4
    Units = {1, 2, 3}
    Rate = 3
    MaxStarts = 2
SYMMETRY RequestSymmetry
INVARIANTS AcknowledgedIsDurable BilledOncePerStart CancelledStaysCancelled
CHECK_DEADLOCK TRUE
