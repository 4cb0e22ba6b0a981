SPECIFICATION MCSpec
CONSTANTS
    c1 = c1
    c2 = c2
    t1 = t1
    t2 = t2
    SwTasks = {t1, t2}
    SwCpus = {c1, c2}
    Cache <- MCCache
    Setters = {"s1"}
    Masks <- MCMasks
    Hotplug = {c2}
    Idle = "idle"
    Stop = "stop"
    Boot = c2
    FirstMask <- MCFirstMask
    Word = 2
    SleepState <- MCSleepState
INVARIANTS
    PlacedOnce
    WakeupsArrive
    UninterruptibleExact
PROPERTIES
    ImplementsTaskLife
