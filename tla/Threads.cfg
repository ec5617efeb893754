\* A kernel panic, a CPU without a thread and two CPUs in each other's way
\* stop the system.
SPECIFICATION PartsSpec
CHECK_DEADLOCK FALSE
CONSTANTS
    Threads = {t1, t2, t3, t4, t5}
    NoThread = NoThread
    Lists <- MCLists
    ThreadK = ThreadK  ThreadK2 = ThreadK2  ThreadH = ThreadH
    ThreadN = ThreadN  ThreadL = ThreadL  ThreadI = ThreadI
    p1 = p1  p2 = p2  idle1 = idle1  idle2 = idle2  cpu1 = cpu1  cpu2 = cpu2
    Own = Own
    Garbage = Garbage
INVARIANTS PartsTypeOK LinksOK PlacedOnce CPUsServed RunsOnce SignalsUndone
PROPERTY QueuesSpec
