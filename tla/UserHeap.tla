------------------------------ MODULE UserHeap ------------------------------
(***************************************************************************)
(* LibC's malloc and free (malloc.cpp): chunks that mmap gives are cut     *)
(* into blocks, free blocks are kept in a list in the order of their       *)
(* addresses and merged, and a chunk that is free goes back with munmap.   *)
(*                                                                         *)
(* Sizes and addresses are in units of sixteen bytes, the size of a header *)
(* and of the smallest request.  The list is kept as a set, since          *)
(* AddToFreeList keeps it sorted.                                          *)
(*                                                                         *)
(* The header of a block that is cut off keeps its isStartOfChunk bit from *)
(* whatever the memory held, and on an empty list AddToFreeList follows    *)
(* such a header's next: both are choices here, and the second may be a    *)
(* wild pointer.                                                           *)
(***************************************************************************)
EXTENDS Integers, FiniteSetsExt

CONSTANTS
    PAGE_SIZE,      \* units in a page
    PageCount,      \* bound: pages that the process may have
    Leftover,       \* what a bit of memory that was not written may be
    Requests        \* sizes that are asked for

\* A process has whole pages, and asks for whole numbers of units.
Process ==
    /\ PAGE_SIZE \in Nat \ {0} /\ PageCount \in Nat
    /\ Leftover \subseteq BOOLEAN /\ Requests \subseteq Nat

VARIABLES
    chunks,         \* what mmap gave: address -> units
    size,           \* address of a header -> the size behind it
    isStart,        \* headers whose isStartOfChunk is set
    m_freeList,
    used,           \* the blocks that callers have
    lost,           \* blocks, used or free, whose memory was unmapped
    crashed         \* a wild pointer was followed

vars == <<chunks, size, isStart, m_freeList, used, lost, crashed>>

Init ==
    /\ chunks = <<>> /\ size = <<>> /\ isStart = {}
    /\ m_freeList = {} /\ used = {} /\ lost = {} /\ crashed = FALSE

Units == 0..(PAGE_SIZE * PageCount - 1)
RoundUp(n) == ((n + PAGE_SIZE - 1) \div PAGE_SIZE) * PAGE_SIZE
Span(a, n) == a..(a + n - 1)
Mapped == UNION {Span(c, chunks[c]) : c \in DOMAIN chunks}

\* A heap as a value: sizes of the headers, the list.
With(f, a, v) == [x \in DOMAIN f \cup {a} |-> IF x = a THEN v ELSE f[x]]
Without(f, S) == [x \in DOMAIN f \ S |-> f[x]]

\* Fault: a block is merged with the next one wherever that is.
TouchesAny(sz, a, b) == a < b

\* Block b begins where block a ends.
Touches(sz, a, b) == a + 1 + sz[a] = b

\* AddToFreeList: the block, merged with the one before and the one after.
AddToFreeList(h, a) ==
    LET before == {p \in h.list : p < a}
        after == {n \in h.list : n > a}
        mergesBack == before # {} /\ Touches(h.size, Max(before), a)
        first == IF mergesBack THEN Max(before) ELSE a
        back == IF mergesBack THEN With(h.size, first, h.size[first] + 1 + h.size[a]) ELSE h.size
        mergesOn == after # {} /\ Touches(back, first, Min(after))
        gone == (IF mergesBack THEN {a} ELSE {}) \cup (IF mergesOn THEN {Min(after)} ELSE {})
    IN  [size |-> Without(IF mergesOn THEN With(back, first, back[first] + 1 + back[Min(after)])
                          ELSE back, gone),
         list |-> (h.list \cup {first}) \ gone]

\* next->size = curr->size - size - sizeof(BlockHeader)
Remainder(have, n) == have - n - 1

\* Block a is cut after n units; what follows is a free block.
Cut(sz, list, a, n) ==
    IF sz[a] = n THEN [size |-> sz, list |-> list]
    ELSE AddToFreeList([size |-> With(With(sz, a, n), a + 1 + n, Remainder(sz[a], n)),
                        list |-> list], a + 1 + n)

\* isStartOfChunk of what was cut off, if it is still a header, is anything;
\* a header that follows nothing in the list may be followed astray.
Become(h, list, sz, a, n) ==
    LET rest == a + 1 + n
    IN  /\ size' = h.size /\ m_freeList' = h.list
        /\ \E bit \in Leftover :
            isStart' = ((isStart \cap DOMAIN h.size)
                            \ (IF sz[a] # n THEN {rest} ELSE {}))
                        \cup (IF bit /\ sz[a] # n /\ rest \in DOMAIN h.size THEN {rest} ELSE {})
                        \cup (IF a \in DOMAIN chunks' /\ a \notin DOMAIN chunks THEN {a} ELSE {})
        /\ crashed' \in (IF list = {} /\ sz[a] # n THEN Leftover ELSE {FALSE})
        /\ used' = used \cup {a}
        /\ UNCHANGED lost

\* Neither a wild pointer nor memory that was unmapped in use is followed up.
Sound == ~crashed /\ lost = {}

Fits(n) == {a \in m_freeList : size[a] >= n}

\* The first block that is large enough.
AllocateListed(n) ==
    LET a == Min(Fits(n))
        list == m_freeList \ {a}
    IN  /\ Sound /\ Fits(n) # {}
        /\ UNCHANGED chunks
        /\ Become(Cut(size, list, a, n), list, size, a, n)

\* A chunk from mmap, wherever there is room for it.
AllocateChunk(n) ==
    LET numBytes == RoundUp(n + 1)
    IN  /\ Sound /\ Fits(n) = {}
        /\ \E page \in 0..(PageCount - 1) :
            LET a == page * PAGE_SIZE
                sz == With(size, a, numBytes - 1)
            IN  /\ Span(a, numBytes) \subseteq Units \ Mapped
                /\ chunks' = With(chunks, a, numBytes)
                /\ Become(Cut(sz, m_freeList, a, n), m_freeList, sz, a, n)

-----------------------------------------------------------------------------
\* CheckForDeletion takes a block for a whole chunk when it and the next free
\* block are both starts of chunks.
Deletable(sz, c, d) == c \in isStart /\ d \in isStart

\* The blocks that it takes out, in one walk; the one after such a block is
\* passed over.
Deleted(h) ==
    LET before(c) == {d \in h.list : d < c}
        after(c) == {d \in h.list : d > c}
        taken[c \in h.list] ==
            /\ before(c) = {} \/ ~taken[Max(before(c))]
            /\ after(c) # {} /\ Deletable(h.size, c, Min(after(c)))
    IN  {c \in h.list : taken[c]}

\* munmap takes back what mmap gave if the number of pages is the same.
Unmaps(h, a) == a \in DOMAIN chunks /\ chunks[a] = RoundUp(h.size[a] + 1)

Free(a) ==
    LET h == AddToFreeList([size |-> size, list |-> m_freeList], a)
        out == Deleted(h)
        unmapped == {c \in out : Unmaps(h, c)}
        gone == UNION {Span(c, chunks[c]) : c \in unmapped}
    IN  /\ Sound /\ a \in used
        /\ crashed' \in (IF m_freeList = {} THEN Leftover ELSE {FALSE})
        /\ chunks' = Without(chunks, unmapped)
        /\ m_freeList' = h.list \ out
        /\ size' = Without(h.size, out)
        /\ isStart' = (isStart \cap DOMAIN h.size) \ out
        /\ used' = used \ {a}
        /\ lost' = {u \in used' \cup m_freeList' : Span(u, 1 + size'[u]) \cap gone # {}}

Next ==
    \/ \E n \in Requests : AllocateListed(n) \/ AllocateChunk(n)
    \/ \E a \in used : Free(a)

Spec == Init /\ [][Next]_vars

-----------------------------------------------------------------------------
Block(a) == Span(a, 1 + size[a])

\* Type correctness.
TypeOK ==
    /\ used \cup m_freeList \cup isStart \subseteq DOMAIN size
    /\ \A a \in DOMAIN size : a \in Units /\ size[a] \in Nat
    /\ used \cap m_freeList = {} /\ lost \subseteq used \cup m_freeList

\* No two blocks that callers have share memory, nor does one reach over its
\* chunk or into a free block, however blocks are cut and merged, as long as
\* its memory was not unmapped under it.
BlocksApart ==
    \A a \in used \ lost :
        /\ Block(a) \subseteq Mapped
        /\ \A b \in (used \cup m_freeList) \ {a} : Block(a) \cap Block(b) = {}

\* "this means that curr is an entire chunk, so we can unmap it"
\* (malloc.cpp:211): memory that a caller still has is never unmapped.
EntireChunk == used \cap lost = {}

=============================================================================
