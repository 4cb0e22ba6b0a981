CONSTANTS
    t1 = t1
    t2 = t2
    Tasks = {t1, t2}
    BootTasks = {t1, t2}
    Idle = Idle
    None = None
    MAX_RT_PRIO = 2
    DEFAULT_PRIO = 2
    MIN_DUMMY_PRIO = 3
    DUMMY_QUEUE_SIZE = 2
    UINT_MAX = 2
    NormalPrios = {}
    BootPrios = {3, 4}
    Policies = {}
    BoostPrios = {}
    Timeslices = {2}
    Thresholds = {2}
SPECIFICATION Spec
PROPERTIES
    WakeupPreempts
