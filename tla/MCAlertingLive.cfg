SPECIFICATION FairSpec
CONSTANTS
    Metrics = {"vram"}
    Nodes = {n1, n2}
    Notifiers = 1
    WindowIds <- NoWindowIds
    Idle = Idle
    DedupWindow = 2
    RateInterval = 1
    CheckInterval = 1
    Horizon = 1
    MaxHistory = 1
    UseMaintenance = FALSE
PROPERTIES LastingConditionAnnounced ShutdownEnds
