\* A call that spins on a lock it holds never returns, and a call of the C
\* library ends.
SPECIFICATION PartsSpec
CHECK_DEADLOCK FALSE
CONSTANTS
    t1 = t1
    t2 = t2
    Threads = {t1, t2}
    Keys = {"KC_A", "KC_CAPSLOCK", "KC_RCTRL", "KC_PRINTSCREEN", "KC_PAUSE"}
    MaxStrokes = 4
    WORD = 2
    Size = 5
    Bytes = {0, 1, 2}
INVARIANTS PartsTypeOK  PathsAgree NumbersKept MovesWhole KeysArrive
    ShowsPaper NeverTorn
PROPERTY BufferKept
