SPECIFICATION MonitorsSpec
CONSTANTS
    Nodes = {n1, n2}
    StaleAfter = 3
    OfflineAfter = 5
    QueryTimeout = 2
    Recent = 6
    Day = 7
    Expected = 2
    Utilizations = {94, 99}
    MaxLate = 1
    MaxRows = 3
INVARIANTS OfflineNeverRaised StaleOnlyAfterSlowQuery VRAMJudgesNewest
