SPECIFICATION Spec
CONSTANTS
    CPUs <- OneCPU
    Threads = {ThreadK, ThreadN, ThreadL}
    NoThread = NoThread
    ClassOf <- MCClassOf
    ThreadK = ThreadK  ThreadK2 = ThreadK2  ThreadH = ThreadH
    ThreadN = ThreadN  ThreadL = ThreadL  ThreadI = ThreadI
    RunLimit = 2
    CountW = 4
    Fresh = {ThreadN}
    Blockers = {}
    Enders = {}
INVARIANT NoSelfDeadlock
CHECK_DEADLOCK FALSE
