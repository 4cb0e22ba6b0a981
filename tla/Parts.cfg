CONSTANTS
    t1 = t1
    t2 = t2
    Tasks = {t1, t2}
    BootTasks = {t1, t2}
    Idle = Idle
    None = None
    MAX_RT_PRIO = 2
    DEFAULT_PRIO = 2
    MIN_DUMMY_PRIO = 3
    DUMMY_QUEUE_SIZE = 2
    UINT_MAX = 2
    NormalPrios = {}
    BootPrios = {2, 3}
    Policies = {"NORMAL", "FIFO"}
    BoostPrios = {0, 2, 3}
    Timeslices = {1}
    Thresholds = {1}
    w1 = w1
    w2 = w2
    w3 = w3
    Waiters = {w1, w2, w3}
    DONE_MAX = 5
    Words = {"true", "false", "missing", "cd", "status", "exit"}
    Operators = {"&&", "||", "|", ";"}
    FileNames = {"good", "bad", "none"}
    Twice = FALSE
    MaxTokens = 5
    MaxFd = 6
    INT = 16
    UL = 64
    HZ = 3
    MSEC = 6
    Numbers = {1, 3, 18, 9}
    SyMaxTokens = 4
    VecLen = 2
    MinVal = 1
    MaxVal = 5
    BitmapLen = 4
    Pids = {1, 2}
    Cpus = {0, 1}
    Quotas = {2, 3}
    RUNTIME_INF = 3
    FirstQuota = 2
    BandwidthSlice = 1
    MinCfsRqRuntime = 0
    MaxDelta = 1
    MaxDebt = 1
    MaxUpdates = 3
    AdminCost = 2
    Weights = {0,10}
    Missed = {1,3,9,40}
    FSHIFT = 11
    EXPs = {1884,2014,2037}
    MaxLoad = 1
    MaxCycles = 5
    GsCpus = {1, 2}
    Depth = 2
    GsWeight = 16
    ShareValues = {16, 40}
    MAX_SHARES = 64
    GsMaxTasks = 1
SPECIFICATION MCSpec
CHECK_DEADLOCK FALSE
INVARIANTS
    FairClassExact
    EventsCounted
    ReturnValueTruthful
    LinesRight
    
    QuotaKept
    
PROPERTIES
    WokenInOrder
    RedirectionsApart
    WritesWhole
    AveragesMove
