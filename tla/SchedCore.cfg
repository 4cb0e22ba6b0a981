CONSTANTS
    t1 = t1
    t2 = t2
    Tasks = {t1, t2}
    BootTasks = {t1, t2}
    Idle = Idle
    None = None
    MAX_RT_PRIO = 2
    DEFAULT_PRIO = 2
    MIN_DUMMY_PRIO = 3
    DUMMY_QUEUE_SIZE = 2
    UINT_MAX = 2
    NormalPrios = {2, 4}
    BootPrios = {2, 4}
    Policies = {"NORMAL", "FIFO"}
    BoostPrios = {0, 2}
    Timeslices = {1}
    Thresholds = {1}
SPECIFICATION Spec
SYMMETRY Perms
INVARIANTS
    TypeOK
    QueuesMatchRunnable
    NoLostTask
    NeverBelowBase
    ClassPreemption
    LoadCountExact
