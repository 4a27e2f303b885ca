SPECIFICATION FairSpec
CONSTANTS
    CPUs = {c0}
    BootCpu = c0
    NoCPU = NoCPU
    NPROC = 3
    UINT = 3
    SleepArgs <- Always
    UserCalls <- FamilyCalls
    Killable = {2}
PROPERTIES RunnableRuns OrphansReaped KilledExits
