CONSTANTS
    t1 = t1
    t2 = t2
    Tasks = {t1, t2}
    BootTasks = {t1, t2}
    Idle = Idle
    None = None
    MAX_RT_PRIO = 2
    DEFAULT_PRIO = 2
    MIN_DUMMY_PRIO = 3
    DUMMY_QUEUE_SIZE = 3
    UINT_MAX = 3
    NormalPrios = {}
    BootPrios = {3, 5}
    Policies = {}
    BoostPrios = {}
    Timeslices = {1}
    Thresholds = {1}
    w1 = w1
    w2 = w2
    Waiters = {w1, w2}
    DONE_MAX = 5
    Volumes <- MCVolumes
    Directories <- MCDirectories
    Chains <- MCChains
    Requests <- MCRequests
    Threads = {"h1", "h2"}
    FAT12_END = 4085
    FAT16_END = 65525
    NzCpus = {0, 1}
    Pluggable = {1}
    MaxRunning = 2
    MaxHotplug = 0
    ThTasks = {"t1","t2","t3","t4"}
    ThGroups = {"a","b","c"}
    Root = "root"
    Parent <- MCParent
SPECIFICATION MCSpec
INVARIANTS
    
    HierarchyExact
PROPERTIES
    TasksGetTheCpu
    EventsAreTaken
    ReadEnds
    
