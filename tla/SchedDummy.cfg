CONSTANTS
    t1 = t1
    t2 = t2
    t3 = t3
    Tasks = {t1, t2, t3}
    BootTasks = {t1, t2, t3}
    Idle = Idle
    None = None
    MAX_RT_PRIO = 2
    DEFAULT_PRIO = 2
    MIN_DUMMY_PRIO = 3
    DUMMY_QUEUE_SIZE = 3
    UINT_MAX = 3
    NormalPrios = {}
    BootPrios = {3, 5}
    Policies = {}
    BoostPrios = {}
    Timeslices = {1}
    Thresholds = {0, 1}
SPECIFICATION Spec
INVARIANTS
    AgeBounded
PROPERTIES
    ListOrder
    YieldGivesWay
