SPECIFICATION Spec
CONSTANTS
    CPUs = {c0, c1}
    BootCpu = c0
    NoCPU = NoCPU
    NPROC = 3
    UINT = 3
    SleepArgs <- Once
    UserCalls <- SafetyCalls
    Killable = {2}
INVARIANTS TypeOK OneStack ParentAlive NoMissedExit NoMissedKill NoMissedTick SchedLocks
CHECK_DEADLOCK FALSE
