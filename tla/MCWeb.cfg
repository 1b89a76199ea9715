SPECIFICATION WebSpec
CONSTANTS
    MaxJobs = 1
    MaxVisits = 2
    MaxCalls = 2
    MaxFilters = 2
    MIN_STAKE = 2
    Balances = {3}
    Stakes = {0, 5}
    Typed = {4}
    MaxTx = 2
    MaxMounts = 2
    MaxAwaits = 2
    MaxOpened = 2
    NotifKeys = {"n1", "n2"}
    MaxSaves = 2
    MaxEdits = 1
    MaxLoads = 1
    MaxRows = 2
    MaxContents = 2
    MaxNodes = 3
    MaxNodeUpdates = 2
    MaxSlots = 3
    MaxRowChanges = 1
    MaxPushes = 4
    MaxReconnectAttempts = 2
    MaxSockets = 4
    FeedNodes = {"a", "b", "c"}
    MaxUpdates = 2
    MaxLogs = 3
    MaxFetches = 2
    MaxEvents = 3
    Users = {"u", "v"}
    MaxChanges = 4
    MaxOpens = 3
    MaxTries = 2
    Dialogs = {"detail", "override"}
    MaxTimers = 3
    Viewers = {"p", "q"}
    MaxDays = 3
    MaxRecords = 2
    MaxSignIns = 1
INVARIANTS
    SubmissionTellsTruth
    ModalFollowsOneTransaction
    FormsSettle
    ListsShowRows
    DisconnectLasts
    FeedsAreExact
    
    PopupsLeaveNothing
PROPERTIES
    SavedWasWritten
    ExecutedWasPending
CHECK_DEADLOCK FALSE
