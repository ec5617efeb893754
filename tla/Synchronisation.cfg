\* A thread in undefined behaviour may never release what it holds, and the
\* others then wait forever; a list that is destroyed does nothing more; an NMI
\* may hit a CPU that holds a list's lock.
SPECIFICATION PartsSpec
CHECK_DEADLOCK FALSE
CONSTANTS
    Threads = {t1, t2, t3}
    NoThread = NoThread
    InitialValue = 1
    W = 4
    MaxHeld = 1
    Destroyers = {t1}
    TableThreads = {t1, t2}
    Addresses = {1, 2}
    MaxIDs = 3
    Objects = {x, y}
    POOL_SIZE = 5
    CountW = 16
    MaxMisses = 2
    CPUs = {0, 1}
    Senders = {s1, s2}
    NoCPU = NoCPU
INVARIANTS PartsTypeOK UnitConservation NoLostWakeup WokenOnce IDNamesOne
PROPERTIES WaiterServed ShootdownReturns ImplementsList
