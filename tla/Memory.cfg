\* The kernel stops when a heap or the frames are exhausted, and an NMI may hit
\* a CPU that holds a list's lock.
SPECIFICATION PartsSpec
CHECK_DEADLOCK FALSE
CONSTANTS
    CPUs = {0, 1}
    Senders = {s1, s2}
    Followed = {s1}
    NoCPU = NoCPU
    NoThread = NoThread
    NoFrame = NoFrame
INVARIANTS PartsTypeOK NoStaleTranslation IPIServed FramesSound
    TranslatesAsMapped PagesMatchObjects HeapsSound ProgramAsFiled
PROPERTY BlocksKept
