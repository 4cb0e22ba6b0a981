CONSTANTS
    VrCpus = {1,2}
    VrTasks = {"a","b","c"}
    VrNone = "none"
    Weight <- MCWeight
    Policy <- MCPolicy
    Allowed <- MCAllowed
    NICE_0_LOAD = 2
    U64 = 128
    MaxMoves = 1
    MaxOps = 4
    Horizon = 2
    StartMins = {127, 40}
    sysctl_sched_latency = 2
    sysctl_sched_min_granularity = 1
    sysctl_sched_wakeup_granularity = 1
    sched_nr_latency = 2
    sysctl_sched_child_runs_first = FALSE
    First = "a"
    LtCpus = {1, 2}
    LtTasks = {"a", "b"}
    Contribs = {4}
    MaxClock = 2
    LtMaxMoves = 1
    FirstCpu = 1
    Deltas = {1, 700, 1024, 2048, 32768, 33792, 66000, 352256, 353280, 2500000}
    RaWeights = {15, 1024, 88761}
    MaxUpdates = 4
    MaxPeriods = 400
    LaCpus = {1,2}
    MaxActive = 1
    LOAD_FREQ = 2
    Window = 1
    MaxChanges = 2
    MaxJump = 4
    LbCpus = {0, 1, 2}
    SCALE = 4
    ULONG = 65536
    Queues <- MCQueues
    Pasts = {0, 8}
    Windows <- MCWindows
    LbDomains <- MCDomains
    ScCpus = {0, 1, 2, 3}
    Topologies <- MCTopologies
    ScQueues <- MCScQueues
    ScPowers = {2, 4}
    TaskWeights = {4}
    Affinities <- MCAffinities
    imbalance_pct = 125
    NzCpus = {0, 1}
    MaxRunning = 1
    Pluggable = {1}
    MaxHotplug = 1
SPECIFICATION MCSpec
CHECK_DEADLOCK FALSE
INVARIANTS
    QueuesOrdered
    TrackingRight
    SamplesExact
    PullsRight
    ChoosesWell
    IdleMaskRight
PROPERTIES
    FairPlay
