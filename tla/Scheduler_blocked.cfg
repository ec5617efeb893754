SPECIFICATION Spec
CONSTANTS
    CPUs <- TwoCPUs
    Threads = {ThreadK, ThreadN, ThreadI}
    NoThread = NoThread
    ClassOf <- MCClassOf
    ThreadK = ThreadK  ThreadK2 = ThreadK2  ThreadH = ThreadH
    ThreadN = ThreadN  ThreadL = ThreadL  ThreadI = ThreadI
    RunLimit = 2
    CountW = 4
    Fresh = {}
    Blockers = {ThreadN}
    Enders = {}
INVARIANT BlockedIsOut
CHECK_DEADLOCK FALSE
