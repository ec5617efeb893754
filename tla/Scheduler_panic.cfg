SPECIFICATION Spec
CONSTANTS
    CPUs <- TwoCPUs
    Threads = {ThreadK, ThreadH, ThreadN, ThreadI}
    NoThread = NoThread
    ClassOf <- MCClassOf
    ThreadK = ThreadK  ThreadK2 = ThreadK2  ThreadH = ThreadH
    ThreadN = ThreadN  ThreadL = ThreadL  ThreadI = ThreadI
    RunLimit = 2
    CountW = 4
    Fresh = {}
    Blockers = {ThreadH, ThreadN}
    Enders = {}
INVARIANT PanicMeansAllEnded
CHECK_DEADLOCK FALSE
