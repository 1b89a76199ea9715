CONSTANTS
    Tasks = {t1, t2}
    NoTask = NoTask
    Collectors = 2
    MaxRetries = 1
    Tries = 2
    MaxPulses = 2
SPECIFICATION Spec
INVARIANTS
    ReportsBounded
PROPERTIES
    PulsesEnd
CHECK_DEADLOCK FALSE
