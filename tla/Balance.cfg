CONSTANTS
    Cpus = {0, 1}
    Quotas = {2, 3}
    RUNTIME_INF = 3
    FirstQuota = 2
    BandwidthSlice = 1
    MinCfsRqRuntime = 0
    MaxDelta = 1
    MaxDebt = 1
    MaxUpdates = 2
    AdminCost = 2
    LbCpus = {0, 1, 2}
    SCALE = 4
    ULONG = 65536
    Queues = {}
    Pasts = {}
    Windows = {}
    LbDomains = {}
    LbTasks = {"p", "q", "r"}
    CpusAllowed <- MCCpusAllowed
    TaskWeight <- MCTaskWeight
    Home <- MCHome
    Sleepers = {"r"}
    LbGroups = {{0, 1}, {2}}
    cache_nice_tries = 0
    sysctl_sched_nr_migrate = 3
    sched_nr_migrate_break = 2
    MaxBalancers = 2
SPECIFICATION MCSpec
CHECK_DEADLOCK FALSE
INVARIANTS
    PullsSafe
PROPERTIES
    ThrottledPaid
    BalancingHelps
