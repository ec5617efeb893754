CONSTANTS
    PAGE_SIZE = 4
    PageCount = 3
    Leftover = {FALSE}
    Requests = {1, 2, 3, 5}
SPECIFICATION Spec
INVARIANTS EntireChunk
CHECK_DEADLOCK FALSE
