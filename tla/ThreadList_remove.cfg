SPECIFICATION SpecRemove
CONSTANTS
    Threads = {t1, t2, t3}
    NoThread = NoThread
    Lists = {"ready", "other"}
INVARIANT GetInRange
