CONSTANTS
    t1 = t1
    t2 = t2
    t3 = t3
    Tasks = {t1, t2, t3}
    BootTasks = {t1, t2, t3}
    Idle = Idle
    None = None
    MAX_RT_PRIO = 2
    DEFAULT_PRIO = 2
    MIN_DUMMY_PRIO = 3
    DUMMY_QUEUE_SIZE = 2
    UINT_MAX = 5
    NormalPrios = {}
    BootPrios = {4}
    Policies = {}
    BoostPrios = {}
    Timeslices = {3}
    Thresholds = {3}
SPECIFICATION Spec
INVARIANTS
    NoAgeing
