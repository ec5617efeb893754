SPECIFICATION Spec
CONSTANTS
    Threads = {t1, t2, t3}
    NoThread = NoThread
    InitialValue = 1
    W = 8
    MaxHeld = 1
    Destroyers = {}
INVARIANT MutualExclusion
