\* An initialisation ends, and a CPU may stop.
SPECIFICATION PartsSpec
CHECK_DEADLOCK FALSE
CONSTANTS
    CPUs = {0, 1}
    ThreadK = ThreadK
    ThreadH = ThreadH
    ThreadN = ThreadN
    ThreadL = ThreadL
    ThreadI = ThreadI
    Threads = {ThreadK, ThreadH, ThreadN, ThreadL, ThreadI}
    NoThread = NoThread
    ClassOf <- PriorityOf
    RunLimit = 4
    CountW = 5
    Fresh = {}
    Blockers = {}
    Enders = {}
INVARIANTS PartsTypeOK
PROPERTIES ReadyRun ControllerReady InterruptsServed ProcessorsRun
