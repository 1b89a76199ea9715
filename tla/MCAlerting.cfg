SPECIFICATION Spec
CONSTANTS
    Metrics = {"vram"}
    Nodes = {n1, n2}
    Notifiers = 0
    WindowIds <- MCWindowIds
    Idle = Idle
    DedupWindow = 2
    RateInterval = 1
    CheckInterval = 1
    Horizon = 1
    MaxHistory = 1
    UseMaintenance = TRUE
INVARIANTS LimiterRemembersSends
PROPERTIES SendsAllowed
